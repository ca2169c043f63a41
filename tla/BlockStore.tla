----------------------------- MODULE BlockStore -----------------------------
(***************************************************************************)
(* What the sector cache of the FAT library promises to the code above it: *)
(* a card of sectors that can be read and written in pieces.               *)
(*                                                                         *)
(* view is what a reader of the cache sees, durable what the card holds.   *)
(* Between two writes of a sector the card may only catch up with the      *)
(* view.  lost names the sectors for which the promise is off, because a   *)
(* caller went around the cache or the card failed; every operation says   *)
(* which sectors it may add, and only a whole-sector write, or a new       *)
(* mount, brings a sector back.  The tags "guess" and "short" of a reply   *)
(* are history: the callers take them for "data" and "flushed".            *)
(***************************************************************************)
EXTENDS Integers

CONSTANTS
    NumSectors,     \* sectors of the card, 0 .. NumSectors - 1
    Parts,          \* the pieces a partial write can address
    Vals,           \* what a piece can hold
    Zero,           \* a piece of zero bytes
    MaxRun          \* bound: sectors one transfer past the cache can cover

VARIABLES view, durable, lost, reply

storeVars == <<view, durable, lost, reply>>

Sectors == 0 .. NumSectors - 1
Content == [Parts -> Vals]
Blank == [h \in Parts |-> Zero]

Said(tag) == [tag |-> tag, data |-> Blank]
Got(d) == [tag |-> "data", data |-> d]

Init ==
    /\ durable \in [Sectors -> Content]
    /\ view = durable
    /\ lost = {}
    /\ reply = Said("none")

\* Outside X, and as far as the promise holds, readers see what they saw and
\* the card keeps its content or catches up.
Steady(X) ==
    \A t \in Sectors \ (X \cup lost') :
        view'[t] = view[t] /\ durable'[t] \in {durable[t], view[t]}

\* A failed transfer may cost the promise for one other sector, no more.
LosesAtMostOne(s) == lost' = lost \/ \E t \in Sectors \ {s} : lost' = lost \cup {t}

Read(s) ==
    \/ /\ reply'.tag = "data"
       /\ s \notin lost => reply' = Got(view[s])
       /\ lost' = lost
       /\ Steady({})
    \/ /\ reply' = Said("fail")
       /\ LosesAtMostOne(s)
       /\ Steady({})

\* A partial write leaves the rest of the sector alone, or zeroes it.
Write(s, h, v, base) ==
    \/ /\ reply' = Said("ok")
       /\ lost' = lost
       /\ s \notin lost =>
             /\ view'[s] = [base EXCEPT ![h] = v]
             /\ durable'[s] \in {durable[s], view[s]}
       /\ Steady({s})
    \/ /\ reply' = Said("fail")
       /\ LosesAtMostOne(s)
       /\ Steady({})

\* A write of whole sectors reaches the card before it returns.
WriteThrough(s, buf) ==
    LET run == {s + j : j \in DOMAIN buf} IN
    /\ reply' = Said("ok")
    /\ \A j \in DOMAIN buf : s + j \notin lost' =>
           view'[s + j] = buf[j] /\ durable'[s + j] = buf[j]
    /\ lost' \ run \subseteq lost
    /\ lost \ run \subseteq lost'
    /\ Steady(run)

\* A read of a whole sector shows the card, which may lag behind the view; or,
\* when the card fails, anything at all, which the caller takes for the data.
ReadThrough(s) ==
    /\ reply' \in {Got(durable[s]), Said("guess")}
    /\ UNCHANGED <<view, durable, lost>>

\* Unless the card failed, of which no caller hears, all is durable.
Flush ==
    /\ \/ /\ reply' = Said("flushed")
          /\ \A t \in Sectors \ lost : durable'[t] = view[t]
       \/ reply' = Said("short")
    /\ lost' = lost
    /\ Steady({})

\* Unmount without a flush: unwritten data is gone, nothing else is.
Remount ==
    /\ reply' = Said("none")
    /\ lost' = {}
    /\ view' = durable
    /\ durable' = durable

Next ==
    \/ \E s \in Sectors :
          \/ Read(s)
          \/ ReadThrough(s)
          \/ \E n \in {m \in 1 .. MaxRun : s + m <= NumSectors} :
                \E buf \in [0 .. n - 1 -> Content] : WriteThrough(s, buf)
          \/ \E h \in Parts, v \in Vals : Write(s, h, v, view[s]) \/ Write(s, h, v, Blank)
    \/ Flush
    \/ Remount

Spec == Init /\ [][Next]_storeVars
=============================================================================
