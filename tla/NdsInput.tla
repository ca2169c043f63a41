------------------------------ MODULE NdsInput ------------------------------
(***************************************************************************)
(* The keys of the NDS: the ring that the 0xc3 command fills               *)
(* (src/libsrc/base/nds/game.c), ds2_getrawInput that reads it (test.c),   *)
(* and getKey, getKey1 and getInput that make events of it                 *)
(* (src/libsrc/key/key.c).                                                 *)
(*                                                                         *)
(* A command runs with interrupts off, at any point of the program.  The   *)
(* escape key starts the registered function inside the command, with      *)
(* interrupts on: it reads keys too, and the program waits until it        *)
(* returns.  The counters wrap.  Whether the time for a repeat has passed  *)
(* is left open: the stamps decide nothing else.                           *)
(***************************************************************************)
EXTENDS Integers

CONSTANTS
    Pads,       \* what the keys may be: sets of pressed keys
    Esc,        \* the command of the escape key
    Ring,       \* slots: 32 in the code
    Word        \* values of a counter: 2^32 in the code

ASSUME InputAssumption ==
    /\ {} \in Pads /\ Esc \notin Pads
    /\ Ring \in Nat \ {0, 1} /\ Word \in Nat /\ Word > 2 * Ring /\ Word % Ring = 0

Ctx == {"main", "esc"}

VARIABLES
    w, r,       \* key_write_num, key_read_num
    slot,       \* the ring
    lock,       \* _escape_function_lock: the escape function runs
    pc,         \* the next step of a context's read
    seen,       \* the count it goes by: key_write_num as it loaded it, in the
                \* end key_read_num
    many,       \* its i > 1
    at,         \* the slot it copies
    got,        \* the sample it copied
    last,       \* _last_key, _last_input
    latest,     \* history: the newest sample
    fresh,      \* history: the samples that were the newest during the read
    view,       \* history: the keys pressed by the events of getKey1
    upset       \* history: which of the code's own traps were stepped into

ringVars == <<w, r, slot, lock, latest, fresh>>
filterVars == <<last, view>>
readVars == <<pc, seen, many, at, got>>
inputVars == <<ringVars, readVars, filterVars, upset>>

\* empty: a read copies the slot that the next key goes to: there was none yet,
\* the newest sample was taken out, or the counters have gone all the way round.
\* dropped: the escape key found the ring full and took the newest sample out.
\* overtaken: the escape function read on while the program copied a slot, or
\* held the read count in a register.
\* stale: it read on while the program went by a write count it had loaded.
\* mixed: getKey1 saw a press and a release in one sample and told of the press.
\* shared: getKey changed the keys that getKey1 compares with.
Trap == {"empty", "dropped", "overtaken", "stale", "mixed", "shared"}

InputInit ==
    /\ w = 0 /\ r = 0
    /\ slot = [k \in 0 .. Ring - 1 |-> {}]
    /\ lock = FALSE
    /\ pc = [c \in Ctx |-> "idle"]
    /\ seen = [c \in Ctx |-> 0] /\ many = [c \in Ctx |-> FALSE]
    /\ at = [c \in Ctx |-> 0] /\ got = [c \in Ctx |-> {}]
    /\ last = {}
    /\ latest = {} /\ fresh = [c \in Ctx |-> {}]
    /\ view = {}
    /\ upset = {}

-----------------------------------------------------------------------------
(* The ring                                                                *)

\* Nobody knows any longer what is fresh.
Lost == upset' \cap {"dropped", "overtaken", "stale"} # {}
Follow(sample, samples) ==
    /\ latest' = IF Lost THEN {} ELSE sample
    /\ fresh' = IF Lost THEN [c \in Ctx |-> {}] ELSE samples

\* The program waits while the escape function runs.
Runs(c) == IF c = "esc" THEN lock ELSE ~lock

\* Mutant: a full ring is not noticed.
WriteAtOn == w

\* Where the next sample goes: a full ring gives up its newest one.
Held == (w - r) % Word
WriteAt == IF Held # 0 /\ Held % Ring = 0 THEN (w - 1) % Word ELSE w

Store(sample) ==
    /\ slot' = [slot EXCEPT ![WriteAt % Ring] = sample]
    /\ w' = (WriteAt + 1) % Word
    /\ upset' = IF w' = r /\ \E c \in Ctx : pc[c] = "copying" THEN upset \cup {"empty"} ELSE upset
    /\ Follow(sample, [c \in Ctx |-> IF pc[c] = "idle" THEN fresh[c] ELSE fresh[c] \cup {sample}])
    /\ UNCHANGED lock

\* The escape key is not stored; while the escape function runs it only takes
\* the newest sample out of a full ring.
Escape ==
    /\ w' = WriteAt
    /\ lock' = TRUE
    /\ upset' = IF WriteAt # w THEN upset \cup {"dropped"} ELSE upset
    /\ Follow(latest, fresh)
    /\ UNCHANGED slot

\* The 0xc3 command.
KeyCommand(sample) ==
    /\ IF sample = Esc THEN Escape ELSE Store(sample)
    /\ UNCHANGED <<r, readVars, filterVars>>

\* The escape function returns to the command.
EscapeReturns ==
    /\ lock /\ pc["esc"] = "idle"
    /\ lock' = FALSE
    /\ UNCHANGED <<w, r, slot, latest, fresh, readVars, filterVars, upset>>

Goes(c, from, to) == Runs(c) /\ pc[c] = from /\ pc' = [pc EXCEPT ![c] = to]

\* ds2_getrawInput: the write count is loaded ...
Load(c) ==
    /\ Goes(c, "idle", "loaded")
    /\ seen' = [seen EXCEPT ![c] = w]
    /\ UNCHANGED <<w, r, slot, lock, many, at, got, filterVars, upset>>
    /\ Follow(latest, [fresh EXCEPT ![c] = {latest}])

\* The difference of two counters, a signed word, is more than one.
Several(d) == d > 1 /\ 2 * d < Word

\* ... then the read count, and i is computed; the count that the read goes on
\* with is the one it needs ...
Look(c) ==
    /\ Goes(c, "loaded", "looked")
    /\ many' = [many EXCEPT ![c] = Several((seen[c] - r) % Word)]
    /\ seen' = [seen EXCEPT ![c] = IF many'[c] THEN @ ELSE r]
    /\ UNCHANGED <<ringVars, at, got, filterVars, upset>>

\* ... the write count is loaded again, if the compiler has not kept it ...
Reload(c) ==
    /\ Runs(c) /\ pc[c] = "looked" /\ many[c]
    /\ seen' = [seen EXCEPT ![c] = w]
    /\ UNCHANGED <<ringVars, pc, many, at, got, filterVars, upset>>

\* Mutant: the reader passes the newest sample.
NewestPast(c) == seen[c]

Newest(c) == (seen[c] - 1) % Word

\* The context has yet to use the write count it loaded.
Relies(c) == pc[c] = "loaded" \/ (pc[c] = "looked" /\ many[c])

\* What becomes of the program's read when the escape function moves the reader.
Overtaken(c) ==
    IF c = "main" \/ r' = r THEN {}
    ELSE IF Relies("main") THEN {"stale"}
    ELSE IF pc["main"] = "copying" THEN {"overtaken"} ELSE {}

\* ... the reader goes to the newest sample, as it was loaded, without a lock ...
Advance(c) ==
    /\ Goes(c, "looked", "moved")
    /\ r' = IF many[c] THEN Newest(c) ELSE r
    /\ seen' = [seen EXCEPT ![c] = IF many[c] THEN r' ELSE @]
    /\ many' = [many EXCEPT ![c] = FALSE]
    /\ upset' = upset \cup Overtaken(c)
    /\ Follow(latest, fresh)
    /\ UNCHANGED <<w, slot, lock, at, got, filterVars>>

\* ... the reader's slot is looked up, by the read count that is loaded again or
\* by the one that the compiler has kept ...
LookUp(c) ==
    /\ Goes(c, "moved", "copying")
    /\ \E count \in {r, seen[c]} :
        /\ at' = [at EXCEPT ![c] = count % Ring]
        /\ upset' = upset \cup (IF count # r THEN {"overtaken"} ELSE {})
                          \cup (IF count = w THEN {"empty"} ELSE {})
    /\ seen' = [seen EXCEPT ![c] = 0]
    /\ Follow(latest, fresh)
    /\ UNCHANGED <<w, r, slot, lock, many, got, filterVars>>

\* ... and copied, which ends here.
Copy(c) ==
    /\ Goes(c, "copying", "copied")
    /\ got' = [got EXCEPT ![c] = slot[at[c]]]
    /\ at' = [at EXCEPT ![c] = 0]
    /\ UNCHANGED <<ringVars, seen, many, filterVars, upset>>

-----------------------------------------------------------------------------
(* The filter                                                              *)

Pressed(c) == got[c] \ last
Released(c) == last \ got[c]

\* What is reported of the keys that are held: all when the repeat time has
\* passed, else none.
Again(c) == {{}, last \cap got[c]}

\* Nobody follows the events any longer.
Blind(u) == u \cap {"mixed", "shared"} # {}

\* What getKey, getKey1 and getInput do alike.
Filter(c) ==
    /\ Goes(c, "copied", "idle")
    /\ got' = [got EXCEPT ![c] = {}]
    /\ fresh' = [fresh EXCEPT ![c] = {}]
    /\ UNCHANGED <<w, r, slot, lock, latest, seen, many, at>>

\* getKey, and getInput on its own variables: a release is not remembered
\* until the next press.
GetKey(c) ==
    /\ Filter(c)
    /\ last' = IF Pressed(c) # {} THEN got[c] ELSE last
    /\ upset' = IF last' # last THEN upset \cup {"shared"} ELSE upset
    /\ view' = IF Blind(upset') THEN {} ELSE view

\* The two halves of what getKey1 returns, when the held keys in again are
\* reported.
LowHalf(again) == again \cup Pressed("main")
HighHalf(again) == again \cup (IF Pressed("main") = {} THEN Released("main") ELSE {})

\* Mutant: a release is not remembered.
RememberedByPress(c) == IF Pressed(c) # {} THEN got[c] ELSE last

Remembered(c) == got[c]

\* getKey1, whose caller takes the halves apart with KEY_PRESS and KEY_RELEASE.
GetKey1(again) ==
    LET press == LowHalf(again) \ HighHalf(again)
        release == HighHalf(again) \ LowHalf(again)
    IN  /\ Filter("main")
        /\ last' = Remembered("main")
        /\ upset' = IF Pressed("main") # {} /\ Released("main") # {}
                    THEN upset \cup {"mixed"} ELSE upset
        /\ view' = IF Blind(upset') THEN {} ELSE (view \cup press) \ release

InputNext ==
    \/ \E sample \in Pads \cup {Esc} : KeyCommand(sample)
    \/ EscapeReturns
    \/ \E c \in Ctx :
        Load(c) \/ Look(c) \/ Reload(c) \/ Advance(c) \/ LookUp(c) \/ Copy(c) \/ GetKey(c)
    \/ \E again \in Again("main") : GetKey1(again)

InputSpec == InputInit /\ [][InputNext]_inputVars

-----------------------------------------------------------------------------
(* Properties                                                              *)

\* Type invariant; the reader is never ahead of the writer nor more than a ring
\* behind it, unless it was stored from a write count loaded before the escape
\* function read on.
InputTypeOK ==
    /\ w \in 0 .. Word - 1 /\ r \in 0 .. Word - 1
    /\ "stale" \notin upset => Held <= Ring
    /\ slot \in [0 .. Ring - 1 -> Pads]
    /\ \A c \in Ctx :
        /\ pc[c] \in {"idle", "loaded", "looked", "moved", "copying", "copied"}
        /\ seen[c] \in 0 .. Word - 1
        /\ at[c] \in 0 .. Ring - 1 /\ got[c] \in Pads
    /\ last \in Pads
    /\ upset \subseteq Trap

\* No command writes the slot that is being copied, however many come during
\* the copy and however old the read count, unless there was no key to read, or
\* the escape function read on in the meantime.
CopyIsWhole ==
    [][\A c \in Ctx : (pc[c] = "copying" /\ upset \cap {"empty", "overtaken"} = {})
                        => slot'[at[c]] = slot[at[c]]]_inputVars

\* What a read returns was the newest sample at some time during the read,
\* whatever commands and other reads came in between, the escape function's
\* inside the program's excepted when they move its reader under it.
ReadIsFresh ==
    upset \cap {"dropped", "overtaken", "stale"} = {} =>
        \A c \in Ctx : pc[c] = "copied" => got[c] \in fresh[c]

\* key.h:8-10: whoever follows the presses and releases of getKey1 knows the
\* keys that the filter takes for pressed.
ViewFollows == ~Blind(upset) => view = last
=============================================================================
