------------------------------ MODULE MmcDriver ------------------------------
(***************************************************************************)
(* The SD/MMC driver (src/libsrc/base/mmc): the initialisation state       *)
(* machine of mmc_protocol.c, the four block transfers of mmc_api.c that   *)
(* io_ds2_mmcf.h calls, and the card as the commands find it.              *)
(*                                                                         *)
(* One step is one command, mmc_simple_cmd or mmc_send_cmd, with its       *)
(* response and what the driver makes of it; the data phase and the wait   *)
(* for the end of programming that may follow it are steps of their own,   *)
(* because _mmc_exec_cmd waits for them without a limit.  A command may be *)
(* lost on the way, its response may be lost, its data may be damaged or   *)
(* not come at all; the card may be pulled out, and one of its kind put in *)
(* again, at any moment.                                                   *)
(* The card is external; it follows the card specification as far as the   *)
(* driver can tell.                                                        *)
(***************************************************************************)
EXTENDS Integers

CONSTANTS
    Kinds,          \* the cards that may be in the slot
    Blocks,         \* the number of blocks on the card
    BlockSize,      \* MMC_BLOCKSIZE
    Stale,          \* the counts (c_size + 1) << 10 of a c_size nobody has read
    Limit41,        \* bound: 100 in the code
    MaxFaults       \* bound: lost commands, responses, data, pulled cards

ASSUME MmcAssumption ==
    /\ Kinds \subseteq {"sd", "sdhc", "mmc", "mmc31"}
    /\ Blocks \in Nat \ {0} /\ BlockSize \in Nat \ {0, 1} /\ Stale \subseteq Nat
    /\ Limit41 \in Nat /\ MaxFaults \in Nat

VARIABLES
    pc,         \* what the driver is doing
    cmd,        \* request.cmd: the last command of the initialisation
    resp,       \* its response, or that of the data command or the stop
    info,       \* mmcinfo.sd, mmcinfo.block_num, sd2_0, limit_41, use_4bit
    call,       \* the transfer under way, or the last one
    card,       \* the card
    faults,     \* history: how many faults there were
    upset       \* history: which of the code's own traps were stepped into

mmcVars == <<pc, cmd, resp, info, call, card, faults, upset>>

\* csd: a card whose CSD is of structure 2 was taken for one of high capacity.
\* width: the card never learned that the bus is four bits wide.
\* stuck: a transfer was given up with the card still in the middle of it.
\* unselected: the card was not selected and nobody looked.
\* pulled: the card was taken out after it had been initialised.
\* data: data that was damaged, or did not come, was not noticed.
\* failed: a transfer was asked for though the initialisation had failed.
Trap == {"csd", "width", "stuck", "unselected", "pulled", "data", "failed"}

Ops == {"read", "write", "readMulti", "writeMulti"}
NoCall == [op |-> "read", addr |-> 0, num |-> 1, ret |-> "none", moved |-> {}]

CardStates == {"idle", "ready", "ident", "stby", "tran", "data"}
\* up: its power-up has ended; app: the next command is an application
\* command; told: it was sent CMD8; wide: its bus is four bits wide; illegal:
\* its next status reports an illegal command.
FreshCard(k) == [kind |-> k, in |-> TRUE, state |-> "idle", up |-> FALSE, app |-> FALSE,
                 told |-> FALSE, wide |-> FALSE, illegal |-> FALSE]

MmcInit ==
    /\ pc = "idle"
    /\ cmd = "none" /\ resp = "none"
    /\ info = [sd |-> FALSE, blocks |-> 0, sd20 |-> FALSE, limit |-> 0, wide |-> FALSE, passed |-> FALSE]
    /\ call = NoCall
    /\ card \in {FreshCard(k) : k \in Kinds}
    /\ faults = 0
    /\ upset = {}

-----------------------------------------------------------------------------
(* The card: Obey(c, m) is the card after command m, and its response.     *)

IsSd(c) == c.kind \in {"sd", "sdhc"}

Reply(c, r) == [card |-> [c EXCEPT !.app = FALSE, !.illegal = FALSE], resp |-> r]

\* A command that the card does not know in its state gets no response, and
\* the next status tells.
Ignore(c) == [card |-> [c EXCEPT !.app = FALSE, !.illegal = TRUE], resp |-> "none"]

Status(c) == IF c.illegal THEN "error" ELSE "ok"

Obey(c, m) ==
    CASE m = "GO_IDLE" ->
            [card |-> [FreshCard(c.kind) EXCEPT !.up = c.up], resp |-> "none"]
      [] m = "CMD8" /\ c.kind = "sdhc" /\ c.state = "idle" ->
            Reply([c EXCEPT !.told = TRUE], "ok")
      [] m = "APP_CMD" /\ IsSd(c) /\ c.state \in {"idle", "tran"} ->
            [card |-> [c EXCEPT !.app = TRUE, !.illegal = FALSE], resp |-> Status(c)]
      [] m = "SD_SEND_OP_COND" /\ c.app /\ c.state = "idle" ->
            IF c.up /\ (c.kind = "sdhc" => c.told)
            THEN Reply([c EXCEPT !.state = "ready"], "ready") ELSE Reply(c, "busy")
      [] m = "SEND_OP_COND" /\ ~IsSd(c) /\ c.state = "idle" ->
            IF c.up THEN Reply([c EXCEPT !.state = "ready"], "ready") ELSE Reply(c, "busy")
      [] m = "ALL_SEND_CID" /\ c.state = "ready" ->
            Reply([c EXCEPT !.state = "ident"], "ok")
      [] m = "SET_RELATIVE_ADDR" /\ c.state = "ident" ->
            Reply([c EXCEPT !.state = "stby"], Status(c))
      [] m = "SEND_CSD" /\ c.state = "stby" -> Reply(c, "ok")
      [] m = "SELECT_CARD" /\ c.state = "stby" ->
            Reply([c EXCEPT !.state = "tran"], Status(c))
      [] m = "SWITCH" /\ c.kind = "sdhc" /\ c.state = "tran" -> Reply(c, Status(c))
      [] m = "SET_BUS_WIDTH" /\ c.app /\ c.state = "tran" ->
            Reply([c EXCEPT !.wide = TRUE], Status(c))
      [] m = "SEND_STATUS" /\ c.state \in {"stby", "tran", "data"} -> Reply(c, Status(c))
      [] m = "SET_BLOCKLEN" /\ c.state = "tran" -> Reply(c, Status(c))
      [] m = "STOP_TRANSMISSION" /\ c.state = "data" ->
            Reply([c EXCEPT !.state = "tran"], Status(c))
      [] OTHER -> Ignore(c)

\* The block an address means to the card.
Addressed(c, arg) == IF c.kind = "sdhc" THEN arg ELSE arg \div BlockSize

\* A data command: a start past the end, or between blocks, is refused.
Move(c, arg) ==
    IF c.state # "tran" THEN Ignore(c)
    ELSE IF \/ Addressed(c, arg) >= Blocks
            \/ c.kind # "sdhc" /\ arg % BlockSize # 0
         THEN Reply(c, "error")
         ELSE Reply([c EXCEPT !.state = "data"], Status(c))

\* What a command and its response may come to: heard by the card or not, and
\* answered or not.
Outcomes(answer) ==
    IF ~card.in THEN {[card |-> card, resp |-> "none", fault |-> 0]}
    ELSE {[card |-> answer.card, resp |-> answer.resp, fault |-> 0]}
         \cup (IF faults < MaxFaults
               THEN {[card |-> card, resp |-> "none", fault |-> 1],
                     [card |-> answer.card, resp |-> "none", fault |-> 1]}
               ELSE {})

\* Mutant: the result of _mmc_check_status is dropped.
AnsweredAlways(r) == r \in {"none", "ok", "error", "busy", "ready"}

\* _mmc_check_status: there was a response.  _mmc_exec_cmd goes on to the data
\* phase, and to the wait for the end of programming, on nothing else: an
\* error in the response is seen when they are over.
Answered(r) == r # "none"

\* mmc_unpack_r1 and its like return 0.
Ok(r) == r = "ok"

-----------------------------------------------------------------------------
(* Initialisation                                                          *)

\* Sends m; the response is looked at in the next step.
Send(m) ==
    \E o \in Outcomes(Obey(card, m)) :
        /\ card' = o.card /\ faults' = faults + o.fault
        /\ cmd' = m /\ resp' = o.resp

Failed ==
    /\ pc' = "idle"
    /\ UNCHANGED <<cmd, resp, card, faults>>

\* MMC_Initialize up to the first GO_IDLE of mmc_init_card; without a card it
\* returns.  The bus is one bit wide after the reset.
Initialize ==
    /\ pc = "idle"
    /\ info' = [info EXCEPT !.sd = IF card.in THEN TRUE ELSE @, !.sd20 = FALSE, !.limit = 0,
                            !.wide = IF card.in THEN FALSE ELSE @, !.passed = FALSE]
    /\ IF card.in THEN pc' = "init" /\ Send("GO_IDLE")
       ELSE pc' = pc /\ UNCHANGED <<cmd, resp, card, faults>>
    /\ call' = NoCall
    /\ upset' = {}

\* mmc_init_card_state, by the last command.
AfterGoIdle ==
    /\ cmd = "GO_IDLE"
    /\ Send(IF info.sd THEN "CMD8" ELSE "SEND_OP_COND")
    /\ UNCHANGED <<pc, info>>

AfterCmd8 ==
    /\ cmd = "CMD8"
    /\ Send("APP_CMD")
    /\ UNCHANGED <<pc, info>>

\* Mutant: nobody counts the tries.
AfterAppCmdForever ==
    /\ cmd = "APP_CMD"
    /\ Send("SD_SEND_OP_COND")
    /\ UNCHANGED <<pc, info>>

\* Mutant: once more than the limit.
AfterAppCmdOnceMore ==
    /\ cmd = "APP_CMD"
    /\ IF info.limit <= Limit41
       THEN info' = [info EXCEPT !.limit = @ + 1] /\ Send("SD_SEND_OP_COND")
       ELSE info' = [info EXCEPT !.sd = FALSE] /\ Send("GO_IDLE")
    /\ UNCHANGED pc

\* Whatever the response, the card is asked Limit41 times whether it is ready.
AfterAppCmd ==
    /\ cmd = "APP_CMD"
    /\ IF info.limit < Limit41
       THEN info' = [info EXCEPT !.limit = @ + 1] /\ Send("SD_SEND_OP_COND")
       ELSE info' = [info EXCEPT !.sd = FALSE] /\ Send("GO_IDLE")
    /\ UNCHANGED pc

AfterSdSendOpCond ==
    /\ cmd = "SD_SEND_OP_COND"
    /\ CASE resp = "busy" -> Send("APP_CMD") /\ UNCHANGED info
         [] resp = "ready" -> info' = [info EXCEPT !.sd = TRUE] /\ Send("ALL_SEND_CID")
         [] OTHER -> Send("SEND_OP_COND") /\ info' = [info EXCEPT !.wide = FALSE]
    /\ UNCHANGED pc

\* A busy card is asked again, without a limit.
AfterSendOpCond ==
    /\ cmd = "SEND_OP_COND"
    /\ CASE resp = "busy" -> Send("SEND_OP_COND") /\ UNCHANGED <<pc, info>>
         [] resp = "ready" -> info' = [info EXCEPT !.sd = FALSE] /\ Send("ALL_SEND_CID") /\ UNCHANGED pc
         [] OTHER -> Failed /\ UNCHANGED info

AfterAllSendCid ==
    /\ cmd = "ALL_SEND_CID"
    /\ IF Ok(resp) THEN Send("SET_RELATIVE_ADDR") /\ UNCHANGED pc ELSE Failed
    /\ UNCHANGED info

AfterSetRelativeAddr ==
    /\ cmd = "SET_RELATIVE_ADDR"
    /\ IF Ok(resp) THEN Send("SEND_CSD") /\ UNCHANGED pc ELSE Failed
    /\ UNCHANGED info

\* Mutant: every SD card is taken for one of high capacity.
Sd20BySd == info.sd

\* mmc_unpack_csd: any CSD but one of structure 0.
Sd20 == card.kind \in {"sdhc", "mmc31"}

\* mmc_configure_card computes the number of blocks from what c_size holds,
\* which mmc_unpack_csd has set only for structures 0 and 1.
BlockNum == IF card.kind = "mmc31" THEN Stale ELSE {Blocks}

AfterSendCsd ==
    /\ cmd = "SEND_CSD"
    /\ IF Ok(resp)
       THEN /\ pc' = "select"
            /\ \E b \in BlockNum : info' = [info EXCEPT !.sd20 = Sd20, !.blocks = b]
            /\ UNCHANGED <<cmd, resp, card, faults>>
       ELSE Failed /\ UNCHANGED info

InitStep ==
    /\ pc = "init"
    /\ \/ AfterGoIdle
       \/ AfterCmd8
       \/ AfterAppCmd
       \/ AfterSdSendOpCond
       \/ AfterSendOpCond
       \/ AfterAllSendCid
       \/ AfterSetRelativeAddr
       \/ AfterSendCsd
    /\ UNCHANGED <<call, upset>>

\* The end of MMC_Initialize, which reports success whatever mmc_select_card
\* came to.
Passed(w) ==
    /\ pc' = "idle"
    /\ info' = [info EXCEPT !.passed = TRUE, !.wide = w]
    /\ upset' = upset
         \cup (IF card'.state # "tran" THEN {"unselected"} ELSE {})
         \cup (IF w # card'.wide THEN {"width"} ELSE {})
         \cup (IF card.kind = "mmc31" THEN {"csd"} ELSE {})

\* mmc_select_card: the card is selected; an SD card is switched to high speed,
\* results ignored (mmc_read_switch and mmc_switch_hs are one command here),
\* and to a bus of four bits, which the host uses from the
\* moment it sends the command.
SelectCard ==
    /\ pc = "select" /\ cmd = "SEND_CSD"
    /\ Send("SELECT_CARD")
    /\ IF Ok(resp') /\ info.sd THEN pc' = pc /\ UNCHANGED <<info, upset>> ELSE Passed(FALSE)
    /\ UNCHANGED call

Switch ==
    /\ pc = "select"
    /\ cmd = "SELECT_CARD" /\ info.sd20
    /\ Send("SWITCH")
    /\ pc' = IF Answered(resp') THEN "switch" ELSE pc
    /\ UNCHANGED <<info, call, upset>>

BeforeWidth ==
    /\ pc = "select"
    /\ cmd = IF info.sd20 THEN "SWITCH" ELSE "SELECT_CARD"
    /\ Send("APP_CMD")
    /\ IF Ok(resp') THEN pc' = pc /\ UNCHANGED <<info, upset>> ELSE Passed(FALSE)
    /\ UNCHANGED call

SetBusWidth ==
    /\ pc = "select" /\ cmd = "APP_CMD"
    /\ Send("SET_BUS_WIDTH")
    /\ Passed(TRUE)
    /\ UNCHANGED call

-----------------------------------------------------------------------------
(* Transfers                                                               *)

Return(r) == pc' = "idle" /\ call' = [call EXCEPT !.ret = r]

Multi(op) == op \in {"readMulti", "writeMulti"}

\* The range checks: the block behind the last one passes for single blocks,
\* and the number of blocks is not looked at by MMC_WriteMultiBlock.
InRange(op, a, n) ==
    IF op = "readMulti" THEN a + n <= info.blocks ELSE a <= info.blocks

\* _MMC_ReadSectors and _MMC_WriteSectors, up to the range check.  Nobody asks
\* what the last initialisation came to; block_num may be that of an earlier one.
Call(op, a, n) ==
    /\ pc = "idle"
    /\ Multi(op) <=> n > 1
    /\ IF card.in /\ InRange(op, a, n)
       THEN /\ pc' = "status"
            /\ call' = [op |-> op, addr |-> a, num |-> n, ret |-> "none", moved |-> {}]
            /\ upset' = IF info.passed THEN upset ELSE upset \cup {"failed"}
       ELSE /\ call' = [op |-> op, addr |-> a, num |-> n, ret |-> "error", moved |-> {}]
            /\ UNCHANGED <<pc, upset>>
    /\ UNCHANGED <<cmd, resp, info, card, faults>>

\* Sends m for a transfer; an error ends it.
Step(m, from, to) ==
    /\ pc = from
    /\ \E o \in Outcomes(Obey(card, m)) :
        /\ card' = o.card /\ faults' = faults + o.fault
        /\ IF Ok(o.resp) THEN pc' = to /\ UNCHANGED call ELSE Return("error")
    /\ UNCHANGED <<cmd, resp, info, upset>>

SendStatus == Step("SEND_STATUS", "status", "blocklen")
SetBlocklen == Step("SET_BLOCKLEN", "blocklen", "move")

\* Mutant: the address is always in bytes.
ArgumentBytes(a) == a * BlockSize

Argument(a) == IF info.sd20 THEN a ELSE a * BlockSize

\* The blocks that data can be moved of, from the one the card was asked for.
Span == {b \in 0 .. Blocks - 1 :
            LET first == Addressed(card, Argument(call.addr)) IN b >= first /\ b < first + call.num}

Left(c) == IF c.state = "data" THEN {"stuck"} ELSE {}

\* A card that sends one block comes to its end alone.
Alone(c) == IF call.op = "read" /\ card.state = "tran" THEN [c EXCEPT !.state = "tran"] ELSE c

\* READ_ or WRITE_, SINGLE_ or MULTIPLE_BLOCK.  A response, though it carry an
\* error, leads to the data phase; none ends the transfer.
MoveData ==
    /\ pc = "move"
    /\ \E o \in Outcomes(Move(card, Argument(call.addr))) :
        /\ faults' = faults + o.fault
        /\ resp' = o.resp
        /\ IF Answered(o.resp)
           THEN pc' = "data" /\ card' = o.card /\ UNCHANGED <<call, upset>>
           ELSE Return("error") /\ card' = Alone(o.card) /\ upset' = upset \cup Left(card')
    /\ UNCHANGED <<cmd, info>>

\* The card moves data, and the host takes it for what it is.
Flowing == card.state = (IF pc = "switch" THEN "tran" ELSE "data") /\ info.wide = card.wide

\* The data phase ends; its results are ignored, only now is the response
\* looked at, and for an error in it nobody stops the card.  Without data on
\* its way the controller may still raise its flags.
DataEnds ==
    /\ pc = "data"
    /\ \E whole \in BOOLEAN :
        LET good == whole /\ Flowing
            left == IF Multi(call.op) \/ card.state # "data" THEN card
                    ELSE [card EXCEPT !.state = "tran"]
        IN
        /\ whole \/ faults < MaxFaults
        /\ faults' = IF whole THEN faults ELSE faults + 1
        /\ card' = left
        /\ IF Ok(resp)
           THEN /\ pc' = IF Multi(call.op) THEN "stop" ELSE "idle"
                /\ call' = [call EXCEPT !.moved = IF good THEN Span ELSE {},
                                        !.ret = IF Multi(call.op) THEN "none" ELSE "ok"]
                /\ upset' = IF good THEN upset ELSE upset \cup {"data"}
           ELSE Return("error") /\ upset' = upset \cup Left(left)
    /\ UNCHANGED <<cmd, resp, info>>

SwitchEnds ==
    /\ pc = "switch"
    /\ pc' = "select"
    /\ UNCHANGED <<cmd, resp, info, call, card, faults, upset>>

\* STOP_TRANSMISSION, whose status tells of a transfer past the end.
Stop ==
    /\ pc = "stop"
    /\ \E o \in Outcomes(Obey(card, "STOP_TRANSMISSION")) :
        /\ card' = o.card /\ faults' = faults + o.fault
        /\ resp' = IF call.addr + call.num <= Blocks \/ ~Answered(o.resp) THEN o.resp ELSE "error"
        /\ IF Answered(o.resp)
           THEN pc' = "prog" /\ UNCHANGED <<call, upset>>
           ELSE Return("error") /\ upset' = upset \cup Left(o.card)
    /\ UNCHANGED <<cmd, info>>

\* The wait for PRG_DONE ends.
ProgEnds ==
    /\ pc = "prog"
    /\ Return(IF Ok(resp) THEN "ok" ELSE "error")
    /\ UNCHANGED <<cmd, resp, info, card, faults, upset>>

\* What a wait is for is on its way: the card moves all the blocks asked for,
\* or comes to the end of its programming.
Coming ==
    CASE pc = "switch" -> Flowing
      [] pc = "data" -> Flowing /\ Addressed(card, Argument(call.addr)) + call.num <= Blocks
      [] pc = "prog" -> card.state = "tran"

\* dma_wait_finish, and the loops on DATA_TRAN_DONE and PRG_DONE: when the card
\* refused the command, was pulled or runs out of blocks, or the data is lost
\* on its way, they may never end.
Hang ==
    /\ pc \in {"switch", "data", "prog"}
    /\ \/ ~Coming /\ UNCHANGED <<faults, upset>>
       \/ /\ pc # "prog" /\ faults < MaxFaults
          /\ faults' = faults + 1
          /\ upset' = upset \cup {"data"}
    /\ pc' = "hung"
    /\ UNCHANGED <<cmd, resp, info, call, card>>

-----------------------------------------------------------------------------
(* The card's own                                                          *)

PowerUp ==
    /\ card.in /\ ~card.up
    /\ card' = [card EXCEPT !.up = TRUE]
    /\ UNCHANGED <<pc, cmd, resp, info, call, faults, upset>>

Pull ==
    /\ card.in /\ faults < MaxFaults
    /\ card' = [FreshCard(card.kind) EXCEPT !.in = FALSE]
    /\ faults' = faults + 1
    /\ upset' = upset \cup {"pulled"}
    /\ UNCHANGED <<pc, cmd, resp, info, call>>

PutIn ==
    /\ ~card.in
    /\ card' = FreshCard(card.kind)
    /\ UNCHANGED <<pc, cmd, resp, info, call, faults, upset>>

Driver ==
    \/ InitStep
    \/ SelectCard
    \/ Switch
    \/ BeforeWidth
    \/ SetBusWidth
    \/ SendStatus
    \/ SetBlocklen
    \/ MoveData
    \/ DataEnds
    \/ SwitchEnds
    \/ Stop
    \/ ProgEnds

MmcNext ==
    \/ Initialize
    \/ \E op \in Ops, a \in 0 .. Blocks, n \in 1 .. 2 : Call(op, a, n)
    \/ Driver
    \/ Hang
    \/ PowerUp
    \/ Pull
    \/ PutIn

\* The driver goes on while it is in a call, until it hangs, and a card that
\* is in the slot ends its power-up.  That a wait ends or hangs, and what may
\* make it hang, is Hang's to say: fairness promises nothing there.
MmcSpec == MmcInit /\ [][MmcNext]_mmcVars /\ WF_mmcVars(Driver) /\ WF_mmcVars(PowerUp)

-----------------------------------------------------------------------------
(* Properties                                                              *)

\* Type invariant.
MmcTypeOK ==
    /\ pc \in {"idle", "init", "select", "switch", "status", "blocklen", "move", "data",
              "stop", "prog", "hung"}
    /\ resp \in {"none", "ok", "error", "busy", "ready"}
    /\ info.blocks \in {0, Blocks} \cup Stale /\ info.limit \in 0 .. Limit41
    /\ call.op \in Ops /\ call.ret \in {"none", "ok", "error"}
    /\ call.moved \subseteq 0 .. Blocks - 1
    /\ card.kind \in Kinds /\ card.state \in CardStates
    /\ faults \in 0 .. MaxFaults
    /\ upset \subseteq Trap

\* After an initialisation that reports success the driver knows the card for
\* what it is, and between calls the card waits for commands.
CardKnownAndFree ==
    (info.passed /\ pc = "idle" /\ upset \subseteq {"data"}) =>
        /\ card.in /\ card.state = "tran"
        /\ info.sd = IsSd(card) /\ info.sd20 = (card.kind = "sdhc")
        /\ info.blocks = Blocks /\ info.wide = card.wide

\* A transfer that reports success moved the blocks it was asked for, however
\* the card was addressed and whatever else went wrong before it; data nobody
\* looked at, a card of unknown CSD and a failed initialisation excepted.  It
\* never does so on a card that the driver lost.
SuccessIsRight ==
    (call.ret = "ok" /\ upset \cap {"data", "csd", "failed"} = {}) =>
        call.moved = call.addr .. call.addr + call.num - 1

\* A card that the driver lost, be it stuck in a transfer, never selected, or
\* put in again, is never taken for one that works: the driver does not go on
\* to wait for its data.
LostCardIsNoticed ==
    [][(pc = "move" /\ card.state # "tran") => pc' # "data"]_mmcVars

\* Every call returns, the initialisation because the tries are limited or the
\* card ends its power-up.  The loops without a limit in _mmc_exec_cmd keep
\* only a caller whose card was pulled, lost data or was never initialised as
\* what it is, or who asked for more than there is.
CallsReturn ==
    (pc # "idle") ~>
        \/ pc = "idle"
        \/ /\ pc = "hung"
           /\ \/ upset \cap {"pulled", "data", "csd", "width", "failed"} # {}
              \/ call.addr + call.num > Blocks
=============================================================================
