------------------------------ MODULE NdsScreen ------------------------------
(***************************************************************************)
(* ds2_flipScreen on top of the request ring (src/libsrc/base/nds/av.c and *)
(* the buffer look-ups of test.c).                                         *)
(*                                                                         *)
(* Each screen has two video buffers.  The program draws into the one its  *)
(* handle names and flips: the buffer is queued for the NDS and, depending *)
(* on done, the handle moves to the other buffer (0: only if it is free    *)
(* now; 1: waiting for it; 2: wait until both are free, do not move).  The *)
(* console, running in the escape-key callback, flips one screen with      *)
(* done = 1 in the middle of whatever the main program does.               *)
(***************************************************************************)
EXTENDS IqeQueue

CONSTANTS
    Up0, Up1, Down0, Down1      \* buf_video_up_0 ... buf_video_down_1

ASSUME ScreenAssumption ==
    /\ {Up0, Up1, Down0, Down1} \subseteq Buffers \ {C0}
    /\ Cardinality({Up0, Up1, Down0, Down1}) = 4

VARIABLES
    handle,     \* up_screen_handle, down_screen_handle
    flip,       \* the ds2_flipScreen each context is in, or NoFlip
    settled,    \* history: screens whose last flip moved on or waited
    cuts        \* history: where in main's flip the escape key struck

screenVars == <<handle, flip, settled, cuts>>
allVars == <<vars, screenVars>>

Screens == {"up", "down"}
Ids == {"up", "down", "dual"}
Pair(s) == IF s = "up" THEN {Up0, Up1} ELSE {Down0, Down1}
NoFlip == [phase |-> "none"]

ScreenInit ==
    /\ Init
    /\ handle = [s \in Screens |-> IF s = "up" THEN Up1 ELSE Down0]
    /\ flip = [c \in Ctx |-> NoFlip]
    /\ settled = {} /\ cuts = {}

\* Mutant: the look-up for the lower screen was copied and still answers with
\* the upper one's buffers.
GetBufCopied(s) ==
    IF isused[Up1] = 0 THEN Up1 ELSE IF isused[Up0] = 0 THEN Up0 ELSE None

\* get_video_up_buf keeps the last free one, get_video_down_buf returns the
\* first.
GetBuf(s) ==
    IF s = "up" THEN IF isused[Up1] = 0 THEN Up1
                     ELSE IF isused[Up0] = 0 THEN Up0 ELSE None
    ELSE IF isused[Down0] = 0 THEN Down0
         ELSE IF isused[Down1] = 0 THEN Down1 ELSE None

\* Requests a flip in progress may still make; the bound MaxW must leave room
\* for them, or the bound itself would keep a flip from returning.
Owed(f, p) ==
    IF f = NoFlip THEN 0
    ELSE (IF f.phase = "update" \/ p = "checked" THEN 1 ELSE 0)
         + (IF f.id = "dual" /\ f.cur = "up" THEN 1 ELSE 0)
Room == MaxW - w - Owed(flip["main"], pc["main"]) - Owed(flip["esc"], pc["esc"])

Start(id, d) ==
    [phase |-> "update", id |-> id, done |-> d, got |-> None,
     cur |-> IF id = "down" THEN "down" ELSE "up"]

\* The part of ds2_flipScreen for one screen is over: go to the other, or return.
NextScreen(c) ==
    IF flip[c].id = "dual" /\ flip[c].cur = "up"
    THEN [flip EXCEPT ![c] = [@ EXCEPT !.phase = "update", !.cur = "down",
                                       !.got = None]]
    ELSE [flip EXCEPT ![c] = NoFlip]

-----------------------------------------------------------------------------
\* The caller has drawn a frame into the buffer of the handle and flips it.
\* The console only flips one screen and only with done = 1.
FlipCall(c, id, d) ==
    /\ Runs(c) /\ flip[c] = NoFlip /\ pc[c] = "idle"
    /\ c = "esc" => id # "dual" /\ d = 1
    /\ Room >= (IF id = "dual" THEN 2 ELSE 1)
    /\ flip' = [flip EXCEPT ![c] = Start(id, d)]
    /\ UNCHANGED <<vars, handle, settled, cuts>>

\* update_buf(handle): queued if the buffer is free, else silently nothing.
FlipUpdate(c) ==
    LET s == flip[c].cur
        b == handle[s]
    IN
    /\ Runs(c) /\ flip[c].phase = "update"
    /\ \/ /\ Check(c, b)
          /\ flip' = [flip EXCEPT ![c].phase = "get"]
       \/ /\ isused[b] # 0
          /\ flip' = [flip EXCEPT ![c].phase = "get"]
          /\ UNCHANGED vars
    /\ settled' = settled \ {s}
    /\ UNCHANGED <<handle, cuts>>

\* The look-up of a free buffer; with done # 0 it is repeated until there is
\* one, with done = 0 the handle stays.
FlipGet(c) ==
    LET b == GetBuf(flip[c].cur)
    IN
    /\ Runs(c) /\ flip[c].phase = "get" /\ pc[c] = "idle"
    /\ \/ /\ b # None
          /\ flip' = [flip EXCEPT ![c].got = b,
                         ![c].phase = IF flip[c].done = 2 THEN "drain" ELSE "assign"]
          /\ UNCHANGED settled
       \/ /\ b = None /\ flip[c].done = 0
          /\ flip' = NextScreen(c)
          /\ settled' = settled \ {flip[c].cur}
    /\ UNCHANGED <<vars, handle, cuts>>

\* The handle takes the buffer that was free when it was looked up.
FlipAssign(c) ==
    /\ Runs(c) /\ flip[c].phase = "assign"
    /\ handle' = [handle EXCEPT ![flip[c].cur] = flip[c].got]
    /\ settled' = settled \cup {flip[c].cur}
    /\ flip' = NextScreen(c)
    /\ UNCHANGED <<vars, cuts>>

\* Mutant: done = 2 waits for one buffer, not for both.
FlipDrainOne(c) ==
    /\ Runs(c) /\ flip[c].phase = "drain"
    /\ GetBuf(flip[c].cur) # None
    /\ settled' = settled \cup {flip[c].cur}
    /\ flip' = [flip EXCEPT ![c] = NoFlip]
    /\ UNCHANGED <<vars, handle, cuts>>

\* done = 2: wait until both buffers are free, then return from the function.
FlipDrain(c) ==
    /\ Runs(c) /\ flip[c].phase = "drain"
    /\ \A b \in Pair(flip[c].cur) : isused[b] = 0
    /\ settled' = settled \cup {flip[c].cur}
    /\ flip' = [flip EXCEPT ![c] = NoFlip]
    /\ UNCHANGED <<vars, handle, cuts>>

Ioctl(c) == CpuStep(c) /\ UNCHANGED screenVars

\* The commands of an NDS that follows the protocol.  Those that none should
\* send (NdsOverBad, NdsUnknown) are left to IqeQueue, whose properties except
\* what follows them, as the properties here would.
Serve == Nds /\ UNCHANGED screenVars

\* The escape key, and where it struck.
Escape ==
    /\ EscEnter
    /\ cuts' = cuts
          \cup (IF pc["main"] \in {"reserved", "filled"} THEN {"ioctl"} ELSE {})
          \cup (IF flip["main"].phase = "assign" THEN {"assign"} ELSE {})
    /\ UNCHANGED <<handle, flip, settled>>

Leave ==
    /\ flip["esc"] = NoFlip
    /\ EscReturn
    /\ UNCHANGED screenVars

FlipStep(c) ==
    FlipUpdate(c) \/ FlipGet(c) \/ FlipAssign(c) \/ FlipDrain(c) \/ Ioctl(c)

ScreenNext ==
    \/ \E c \in Ctx :
          \/ \E id \in Ids, d \in 0 .. 2 : FlipCall(c, id, d)
          \/ FlipStep(c)
    \/ Serve
    \/ Escape
    \/ Leave

ScreenSpec == ScreenInit /\ [][ScreenNext]_allVars

\* As in IqeQueue: the interrupted program gets on between interrupts, the NDS
\* serves a ring it was told of, and the user leaves the console.
ScreenFairSpec ==
    /\ ScreenSpec
    /\ \A c \in Ctx : SF_allVars(FlipStep(c))
    /\ WF_allVars(Serve)
    /\ WF_allVars(Leave)

-----------------------------------------------------------------------------
\* Type invariant: a handle always names a buffer of its own screen.
ScreenTypeOK ==
    /\ \A s \in Screens : handle[s] \in Pair(s)
    /\ \A c \in Ctx : flip[c] # NoFlip =>
          /\ flip[c].phase \in {"update", "get", "assign", "drain"}
          /\ flip[c].got \in Pair(flip[c].cur) \cup {None}
    /\ settled \subseteq Screens
    /\ cuts \subseteq {"ioctl", "assign"}

\* No context is in the middle of a flip of screen s.
Steady(s) == \A c \in Ctx : flip[c] = NoFlip \/ flip[c].cur # s

\* Neither marked used, nor in transfer, nor in a request of the ring.
Idle(b) == isused[b] = 0 /\ xfer # b /\ \A k \in Pending : Owner(k) # b

\* After a flip that moved the handle, or waited with done = 2, the NDS does not
\* read the buffer the program draws into, and no request makes it do so, until
\* the next flip of that screen; the exceptions are the windows of the ring and
\* an escape key between looking a buffer up and taking it.
DrawTargetIdle ==
    (upset = {} /\ "assign" \notin cuts) =>
        \A s \in settled : Steady(s) => Idle(handle[s])

\* ds2_flipScreen returns: it waits for a buffer the NDS will release, unless
\* the escape key struck inside ioctl(IQE_UPDATE), whose raised nesting count
\* keeps the console's own requests from being signalled.
FlipReturns ==
    \A c \in Ctx :
        flip[c] # NoFlip ~> (flip[c] = NoFlip \/ upset # {} \/ "ioctl" \in cuts)
=============================================================================
