--------------------------- MODULE MmcDriver_proofs ---------------------------
(***************************************************************************)
(* Proofs about the SD/MMC driver: what its variables hold, that it knows  *)
(* the card it has initialised, that a transfer that reports success moved *)
(* the right blocks, and that a lost card is noticed.                      *)
(***************************************************************************)
EXTENDS MmcDriver, TLAPS

Responses == {"none", "ok", "error", "busy", "ready"}
Cards == [kind : Kinds, in : BOOLEAN, state : CardStates, up : BOOLEAN, app : BOOLEAN,
          told : BOOLEAN, wide : BOOLEAN, illegal : BOOLEAN]
Infos == [sd : BOOLEAN, blocks : {0, Blocks} \cup Stale, sd20 : BOOLEAN, limit : 0 .. Limit41,
          wide : BOOLEAN, passed : BOOLEAN]
Calls == [op : Ops, addr : 0 .. Blocks, num : 1 .. 2, ret : {"none", "ok", "error"},
          moved : SUBSET (0 .. Blocks - 1)]

TypeInv ==
    /\ pc \in {"idle", "init", "select", "switch", "status", "blocklen", "move", "data",
              "stop", "prog", "hung"}
    /\ resp \in Responses
    /\ info \in Infos
    /\ call \in Calls
    /\ card \in Cards
    /\ ~card.in => card.state = "idle"
    /\ card.app => IsSd(card)
    /\ faults \in 0 .. MaxFaults
    /\ upset \subseteq Trap

Transfer == {"status", "blocklen", "move", "data", "stop", "prog"}
Known == {"ALL_SEND_CID", "SET_RELATIVE_ADDR", "SEND_CSD"}

\* What the driver has learned of the card by the time it has sent cmd: the kind
\* from the answer to the command that only this kind answers.
LearnInv ==
    /\ pc \in {"init", "select", "switch"} => ~info.passed
    /\ pc = "init" /\ cmd = "SD_SEND_OP_COND" /\ resp = "ready" => IsSd(card)
    /\ pc = "init" /\ cmd = "SEND_OP_COND" /\ resp = "ready" => ~IsSd(card)
    /\ pc = "init" /\ cmd \in Known => info.sd = IsSd(card)
    /\ pc \in {"select", "switch"} =>
          /\ info.sd = IsSd(card) /\ info.sd20 = (card.kind \in {"sdhc", "mmc31"})
          /\ card.kind # "mmc31" => info.blocks = Blocks

\* Where the card is while the driver knows it.
Place ==
    /\ pc = "stop" \/ (pc = "data" /\ Ok(resp)) => card.state = "data"
    /\ pc = "data" => card.state \in {"tran", "data"}
    /\ pc \notin {"stop", "data", "hung"} => card.state = "tran"

\* What it relies on afterwards, each with the trap that takes it away.
RelyInv ==
    info.passed =>
        /\ info.sd = IsSd(card)
        /\ "csd" \notin upset => /\ info.sd20 = (card.kind = "sdhc")
                                 /\ info.blocks = Blocks
        /\ "width" \notin upset /\ card.state # "idle" => info.wide = card.wide
        /\ upset \subseteq {"data"} => Place

\* The blocks of the transfer under way.
Asked == call.addr .. call.addr + call.num - 1

Unseen == {"data", "csd", "failed"}

CallInv ==
    /\ pc \in Transfer =>
          /\ info.passed \/ "failed" \in upset
          /\ call.ret = "none" /\ (Multi(call.op) <=> call.num > 1)
    /\ pc = "data" /\ Ok(resp) => ~(Addressed(card, Argument(call.addr)) >= Blocks)
    /\ pc \in {"stop", "prog"} /\ upset \cap Unseen = {} =>
          call.moved = Asked \cap 0 .. Blocks - 1
    /\ pc = "prog" /\ Ok(resp) => call.addr + call.num <= Blocks
    /\ SuccessIsRight

MmcInv == TypeInv /\ LearnInv /\ RelyInv /\ CallInv

-----------------------------------------------------------------------------
(* The card.                                                               *)

LEMMA FreshFields ==
    ASSUME NEW k \in Kinds
    PROVE  /\ FreshCard(k) \in Cards /\ FreshCard(k).kind = k /\ FreshCard(k).in
           /\ FreshCard(k).state = "idle"
BY DEF FreshCard, Cards, CardStates

LEMMA RepliedFields ==
    ASSUME NEW c \in Cards, NEW r \in Responses
    PROVE  /\ Reply(c, r).resp = r /\ Reply(c, r).card \in Cards
           /\ Reply(c, r).card.kind = c.kind /\ Reply(c, r).card.in = c.in
           /\ Reply(c, r).card.state = c.state /\ Reply(c, r).card.wide = c.wide
           /\ ~Reply(c, r).card.app
<1>1. [c EXCEPT !.app = FALSE, !.illegal = FALSE] \in Cards
  BY DEF Cards
<1> QED BY <1>1 DEF Reply, Cards

LEMMA IgnoredFields ==
    ASSUME NEW c \in Cards
    PROVE  /\ Ignore(c).resp = "none" /\ Ignore(c).card \in Cards
           /\ Ignore(c).card.kind = c.kind /\ Ignore(c).card.in = c.in
           /\ Ignore(c).card.state = c.state /\ Ignore(c).card.wide = c.wide
           /\ ~Ignore(c).card.app
<1>1. [c EXCEPT !.app = FALSE, !.illegal = TRUE] \in Cards
  BY DEF Cards
<1> QED BY <1>1 DEF Ignore, Cards

\* Whatever the card is told, it stays the card it is, and only the command of a
\* kind is answered with ready.
LEMMA ObeyFields ==
    ASSUME NEW c \in Cards, c.in, c.app => IsSd(c), NEW m
    PROVE  /\ Obey(c, m).card \in Cards /\ Obey(c, m).resp \in Responses
           /\ Obey(c, m).card.kind = c.kind /\ Obey(c, m).card.in
           /\ Obey(c, m).card.app => IsSd(c)
           /\ m = "SD_SEND_OP_COND" /\ Obey(c, m).resp = "ready" => IsSd(c)
           /\ m = "SEND_OP_COND" /\ Obey(c, m).resp = "ready" => ~IsSd(c)
<1> DEFINE Same(o) == /\ o.card \in Cards /\ o.resp \in Responses
                      /\ o.card.kind = c.kind /\ o.card.in /\ (o.card.app => IsSd(c))
           a(s) == [c EXCEPT !.state = s]
<1>1. \A s \in CardStates : a(s) \in Cards /\ a(s).kind = c.kind /\ a(s).in
  BY DEF Cards
<1>2. /\ [c EXCEPT !.told = TRUE] \in Cards /\ [c EXCEPT !.told = TRUE].kind = c.kind
      /\ [c EXCEPT !.told = TRUE].in
  BY DEF Cards
<1>3. /\ [c EXCEPT !.wide = TRUE] \in Cards /\ [c EXCEPT !.wide = TRUE].kind = c.kind
      /\ [c EXCEPT !.wide = TRUE].in
  BY DEF Cards
<1>4. \A r \in Responses : IsSd(c) =>
        Same([card |-> [c EXCEPT !.app = TRUE, !.illegal = FALSE], resp |-> r])
  BY DEF Cards
<1>5. Same([card |-> [FreshCard(c.kind) EXCEPT !.up = c.up], resp |-> "none"])
  BY DEF FreshCard, Cards, CardStates, Responses
<1>6. Status(c) \in {"ok", "error"} /\ {"none", "ok", "error", "busy", "ready"} \subseteq Responses
  BY DEF Status, Responses
<1>7. \A d \in Cards, r \in Responses : d.kind = c.kind /\ d.in => Same(Reply(d, r))
  BY RepliedFields
<1>8. Same(Ignore(c)) /\ Ignore(c).resp = "none"
  BY IgnoredFields DEF Responses
<1>9. \A s \in CardStates, r \in Responses : Same(Reply(a(s), r))
  BY <1>1, <1>7
<1>10. \A r \in Responses : /\ Same(Reply(c, r))
                            /\ Same(Reply([c EXCEPT !.told = TRUE], r))
                            /\ Same(Reply([c EXCEPT !.wide = TRUE], r))
  BY <1>2, <1>3, <1>7
<1>11. \A d, r : Reply(d, r).resp = r
  BY DEF Reply
<1> HIDE DEF Same
<1>12. Same(Obey(c, m))
  <2> USE <1>6, <1>8, <1>10 DEF Obey
  <2>1. CASE m = "GO_IDLE"
    BY <2>1, <1>5
  <2>2. CASE m = "CMD8"
    BY <2>2
  <2>3. CASE m = "APP_CMD"
    BY <2>3, <1>4
  <2>4. CASE m \in {"SD_SEND_OP_COND", "SEND_OP_COND"}
    BY <2>4, <1>9 DEF a, CardStates
  <2>5. CASE m \in {"ALL_SEND_CID", "SET_RELATIVE_ADDR", "SELECT_CARD", "STOP_TRANSMISSION"}
    BY <2>5, <1>9 DEF a, CardStates
  <2>6. CASE m \in {"SEND_CSD", "SWITCH", "SET_BUS_WIDTH", "SEND_STATUS", "SET_BLOCKLEN"}
    BY <2>6
  <2>7. CASE m \notin {"GO_IDLE", "CMD8", "APP_CMD", "SD_SEND_OP_COND", "SEND_OP_COND",
                       "ALL_SEND_CID", "SET_RELATIVE_ADDR", "SELECT_CARD", "STOP_TRANSMISSION",
                       "SEND_CSD", "SWITCH", "SET_BUS_WIDTH", "SEND_STATUS", "SET_BLOCKLEN"}
    BY <2>7
  <2> QED BY <2>1, <2>2, <2>3, <2>4, <2>5, <2>6, <2>7
<1>13. m = "SD_SEND_OP_COND" /\ Obey(c, m).resp = "ready" => IsSd(c)
  BY <1>8 DEF Obey
<1>14. m = "SEND_OP_COND" /\ Obey(c, m).resp = "ready" => ~IsSd(c)
  BY <1>8 DEF Obey
<1> QED BY <1>12, <1>13, <1>14 DEF Same

\* The commands of a transfer leave the card selected as it was, the last but
\* for its end.
LEMMA ObeyTransfer ==
    ASSUME NEW c \in Cards, NEW m \in {"SEND_STATUS", "SET_BLOCKLEN"}
    PROVE  Obey(c, m).card.state = c.state /\ Obey(c, m).card.wide = c.wide
<1>1. Obey(c, m) = Ignore(c) \/ Obey(c, m) = Reply(c, Status(c))
  BY DEF Obey
<1>2. Status(c) \in Responses
  BY DEF Status, Responses
<1> QED BY <1>1, <1>2, IgnoredFields, RepliedFields

LEMMA ObeyStop ==
    ASSUME NEW c \in Cards
    PROVE  LET o == Obey(c, "STOP_TRANSMISSION")
           IN  /\ o.card.state = IF c.state = "data" THEN "tran" ELSE c.state
               /\ o.card.wide = c.wide
<1> DEFINE d == [c EXCEPT !.state = "tran"]
<1>1. Obey(c, "STOP_TRANSMISSION") = IF c.state = "data" THEN Reply(d, Status(c)) ELSE Ignore(c)
  BY DEF Obey
<1>2. Status(c) \in Responses
  BY DEF Status, Responses
<1>3. d \in Cards /\ d.state = "tran" /\ d.wide = c.wide
  BY DEF Cards, CardStates
<1> HIDE DEF d
<1>4. CASE c.state = "data"
  BY <1>1, <1>2, <1>3, <1>4, RepliedFields
<1>5. CASE c.state # "data"
  BY <1>1, <1>5, IgnoredFields
<1> QED BY <1>4, <1>5

\* A data command is only heeded by a selected card, and only for a block it has.
LEMMA MoveFields ==
    ASSUME NEW c \in Cards, NEW x
    PROVE  LET o == Move(c, x)
           IN  /\ o.card \in Cards /\ o.resp \in Responses
               /\ o.card.kind = c.kind /\ o.card.in = c.in /\ o.card.wide = c.wide
               /\ o.card.app => c.app
               /\ o.resp = "ok" => ~(Addressed(c, x) >= Blocks) /\ o.card.state = "data"
               /\ o.resp # "none" => c.state = "tran"
               /\ o.card.state # c.state => c.state = "tran" /\ o.card.state = "data"
<1> DEFINE d == [c EXCEPT !.state = "data"]
<1>1. /\ d \in Cards /\ d.kind = c.kind /\ d.in = c.in /\ d.wide = c.wide
      /\ d.state = "data"
  BY DEF Cards, CardStates
<1>2. Status(c) \in Responses /\ "error" \in Responses
  BY DEF Status, Responses
<1>3. /\ c.state # "tran" => Move(c, x) = Ignore(c)
      /\ c.state = "tran" => \/ Move(c, x) = Reply(c, "error")
                             \/ /\ Move(c, x) = Reply(d, Status(c))
                                /\ ~(Addressed(c, x) >= Blocks)
  BY DEF Move
<1> HIDE DEF d
<1>4. CASE Move(c, x) = Ignore(c)
  BY <1>4, IgnoredFields DEF Responses
<1>5. CASE c.state = "tran" /\ Move(c, x) = Reply(c, "error")
  <2>1. Reply(c, "error").resp # "ok"
    BY <1>2, RepliedFields
  <2> QED BY <1>2, <1>5, <2>1, RepliedFields
<1>6. CASE /\ c.state = "tran" /\ Move(c, x) = Reply(d, Status(c))
           /\ ~(Addressed(c, x) >= Blocks)
  BY <1>1, <1>2, <1>6, RepliedFields
<1> QED BY <1>3, <1>4, <1>5, <1>6

\* What can come of a command: it is heard or not, and answered or not.
LEMMA OutcomeFields ==
    ASSUME TypeInv, NEW a, NEW o \in Outcomes(a),
           card.in => /\ a.card \in Cards /\ a.card.kind = card.kind /\ a.card.in
                      /\ a.card.app => IsSd(card)
                      /\ a.resp \in Responses
    PROVE  /\ o.card \in Cards /\ o.card.kind = card.kind /\ o.card.in = card.in
           /\ ~o.card.in => o.card.state = "idle"
           /\ o.card.app => IsSd(o.card)
           /\ o.resp \in Responses
           /\ o.fault \in {0, 1} /\ (o.fault = 1 => faults < MaxFaults /\ o.resp = "none")
           /\ faults + o.fault \in 0 .. MaxFaults
           /\ o.card = card \/ (card.in /\ o.card = a.card)
           /\ o.resp # "none" => card.in /\ o.card = a.card /\ o.resp = a.resp
<1>1. /\ ~card.in => o = [card |-> card, resp |-> "none", fault |-> 0]
      /\ card.in => \/ o = [card |-> a.card, resp |-> a.resp, fault |-> 0]
                    \/ /\ faults < MaxFaults
                       /\ \/ o = [card |-> card, resp |-> "none", fault |-> 1]
                          \/ o = [card |-> a.card, resp |-> "none", fault |-> 1]
  BY DEF Outcomes
<1>2. /\ o.fault \in {0, 1} /\ (o.fault = 1 => faults < MaxFaults /\ o.resp = "none")
      /\ o.card = card \/ (card.in /\ o.card = a.card)
      /\ o.resp # "none" => card.in /\ o.card = a.card /\ o.resp = a.resp
  BY <1>1
<1>3. faults + o.fault \in 0 .. MaxFaults
  BY <1>2, MmcAssumption DEF TypeInv
<1>4. o.resp \in Responses
  BY <1>2 DEF Responses
<1> QED BY <1>2, <1>3, <1>4 DEF TypeInv, IsSd, Cards

\* A command of the initialisation.
LEMMA SendFields ==
    ASSUME TypeInv, NEW m, Send(m)
    PROVE  /\ card' \in Cards /\ card'.kind = card.kind /\ card'.in = card.in
           /\ ~card'.in => card'.state = "idle"
           /\ card'.app => IsSd(card')
           /\ faults' \in 0 .. MaxFaults
           /\ cmd' = m /\ resp' \in Responses
           /\ m = "SD_SEND_OP_COND" /\ resp' = "ready" => IsSd(card')
           /\ m = "SEND_OP_COND" /\ resp' = "ready" => ~IsSd(card')
<1>1. PICK o \in Outcomes(Obey(card, m)) :
        card' = o.card /\ faults' = faults + o.fault /\ cmd' = m /\ resp' = o.resp
  BY DEF Send
<1> DEFINE a == Obey(card, m)
<1>2. card \in Cards /\ (card.app => IsSd(card))
  BY DEF TypeInv
<1>3. card.in => /\ a.card \in Cards /\ a.card.kind = card.kind /\ a.card.in
                 /\ a.card.app => IsSd(card)
                 /\ a.resp \in Responses
                 /\ m = "SD_SEND_OP_COND" /\ a.resp = "ready" => IsSd(card)
                 /\ m = "SEND_OP_COND" /\ a.resp = "ready" => ~IsSd(card)
  BY <1>2, ObeyFields
<1> HIDE DEF a
<1>4. o \in Outcomes(a)
  BY DEF a
<1>5. /\ o.card \in Cards /\ o.card.kind = card.kind /\ o.card.in = card.in
      /\ ~o.card.in => o.card.state = "idle"
      /\ o.card.app => IsSd(o.card)
      /\ o.resp \in Responses
      /\ faults + o.fault \in 0 .. MaxFaults
      /\ o.resp # "none" => card.in /\ o.card = a.card /\ o.resp = a.resp
  BY <1>3, <1>4, OutcomeFields
<1>6. IsSd(card') = IsSd(card)
  BY <1>1, <1>5 DEF IsSd
<1> QED BY <1>1, <1>3, <1>5, <1>6

-----------------------------------------------------------------------------
(* The initialisation.                                                     *)

\* A step in which the card stays the card it was, and the driver is busy with
\* its initialisation or gives it up.
LEMMA InitKeeps ==
    ASSUME MmcInv, UNCHANGED <<call, upset>>,
           card' \in Cards, card'.kind = card.kind,
           ~card'.in => card'.state = "idle", card'.app => IsSd(card'),
           faults' \in 0 .. MaxFaults, resp' \in Responses,
           info' \in Infos, ~info'.passed, pc' \in {"init", "select", "switch", "idle"}, LearnInv'
    PROVE  MmcInv'
<1>1. TypeInv'
  BY DEF MmcInv, TypeInv
<1>2. RelyInv'
  BY DEF RelyInv
<1>3. CallInv'
  BY DEF MmcInv, CallInv, SuccessIsRight, Transfer
<1> QED BY <1>1, <1>2, <1>3 DEF MmcInv

LEMMA InitStepKeeps == ASSUME MmcInv, InitStep PROVE MmcInv'
<1> USE DEF MmcInv
<1>1. /\ pc = "init" /\ ~info.passed /\ info \in Infos /\ UNCHANGED <<call, upset>>
      /\ card \in Cards /\ TypeInv
  BY DEF InitStep, TypeInv, LearnInv
<1> DEFINE Kept == /\ card' \in Cards /\ card'.kind = card.kind /\ IsSd(card') = IsSd(card)
                   /\ ~card'.in => card'.state = "idle"
                   /\ card'.app => IsSd(card')
                   /\ faults' \in 0 .. MaxFaults /\ resp' \in Responses
           Learnt(p, i) == info' \in Infos /\ ~info'.passed /\ pc' = p /\ info'.sd = i
<1>2. ASSUME NEW m, Send(m)
      PROVE  /\ Kept /\ cmd' = m
             /\ m = "SD_SEND_OP_COND" /\ resp' = "ready" => IsSd(card')
             /\ m = "SEND_OP_COND" /\ resp' = "ready" => ~IsSd(card')
  BY <1>1, <1>2, SendFields DEF IsSd
<1>3. Failed => Kept /\ pc' = "idle" /\ cmd' = cmd
  BY <1>1 DEF Failed, TypeInv
<1> SUFFICES Kept /\ info' \in Infos /\ ~info'.passed /\ pc' \in {"init", "select", "switch", "idle"} /\ LearnInv'
  BY <1>1, InitKeeps
<1> HIDE DEF Kept, Learnt, MmcInv
<1>4. CASE AfterGoIdle
  <2>1. PICK m \in {"CMD8", "SEND_OP_COND"} : Send(m)
    BY <1>4 DEF AfterGoIdle
  <2> QED BY <1>1, <1>2, <1>4, <2>1 DEF AfterGoIdle, LearnInv, Known
<1>5. CASE AfterCmd8
  BY <1>1, <1>2, <1>5 DEF AfterCmd8, LearnInv, Known
<1>6. CASE AfterAppCmd
  <2>1. CASE info.limit < Limit41
    <3>1. Send("SD_SEND_OP_COND") /\ info' = [info EXCEPT !.limit = @ + 1] /\ pc' = pc
      BY <1>6, <2>1 DEF AfterAppCmd
    <3>2. info' \in Infos /\ ~info'.passed
      BY <1>1, <2>1, <3>1, MmcAssumption DEF Infos
    <3> QED BY <1>1, <1>2, <3>1, <3>2 DEF LearnInv, Known
  <2>2. CASE ~(info.limit < Limit41)
    <3>1. Send("GO_IDLE") /\ info' = [info EXCEPT !.sd = FALSE] /\ pc' = pc
      BY <1>6, <2>2 DEF AfterAppCmd
    <3>2. info' \in Infos /\ ~info'.passed
      BY <1>1, <3>1 DEF Infos
    <3>3. Kept /\ cmd' = "GO_IDLE" /\ pc' = pc
      BY <1>2, <3>1
    <3> QED BY <1>1, <3>2, <3>3 DEF LearnInv, Known
  <2> QED BY <2>1, <2>2
<1>7. CASE AfterSdSendOpCond
  <2>1. pc' = pc
    BY <1>7 DEF AfterSdSendOpCond
  <2>2. CASE resp = "busy"
    <3>1. Send("APP_CMD") /\ info' = info
      BY <1>7, <2>2 DEF AfterSdSendOpCond
    <3> QED BY <1>1, <1>2, <2>1, <3>1 DEF LearnInv, Known
  <2>3. CASE resp = "ready"
    <3>1. Send("ALL_SEND_CID") /\ info' = [info EXCEPT !.sd = TRUE] /\ IsSd(card)
      BY <1>1, <1>7, <2>3 DEF AfterSdSendOpCond, LearnInv, MmcInv
    <3>2. info' \in Infos /\ ~info'.passed /\ info'.sd = TRUE
      BY <1>1, <3>1 DEF Infos
    <3>3. info'.sd = IsSd(card')
      <4>1. IsSd(card')
        BY <1>2, <3>1 DEF Kept
      <4> QED BY <3>2, <4>1 DEF IsSd
    <3>4. Kept /\ cmd' = "ALL_SEND_CID"
      BY <1>2, <3>1
    <3> QED BY <1>1, <2>1, <3>2, <3>3, <3>4 DEF LearnInv, Known
  <2>4. CASE resp \notin {"busy", "ready"}
    <3>1. Send("SEND_OP_COND") /\ info' = [info EXCEPT !.wide = FALSE]
      BY <1>7, <2>4 DEF AfterSdSendOpCond
    <3>2. info' \in Infos /\ ~info'.passed
      BY <1>1, <3>1 DEF Infos
    <3> QED BY <1>1, <1>2, <2>1, <3>1, <3>2 DEF LearnInv, Known
  <2> QED BY <2>2, <2>3, <2>4
<1>8. CASE AfterSendOpCond
  <2>1. CASE resp = "busy"
    <3>1. Send("SEND_OP_COND") /\ info' = info /\ pc' = pc
      BY <1>8, <2>1 DEF AfterSendOpCond
    <3> QED BY <1>1, <1>2, <3>1 DEF LearnInv, Known
  <2>2. CASE resp = "ready"
    <3>1. Send("ALL_SEND_CID") /\ info' = [info EXCEPT !.sd = FALSE] /\ ~IsSd(card) /\ pc' = pc
      BY <1>1, <1>8, <2>2 DEF AfterSendOpCond, LearnInv, MmcInv
    <3>2. info' \in Infos /\ ~info'.passed /\ info'.sd = FALSE
      BY <1>1, <3>1 DEF Infos
    <3>3. info'.sd = IsSd(card')
      <4>1. ~IsSd(card')
        BY <1>2, <3>1 DEF Kept
      <4>2. IsSd(card') = FALSE
        BY <4>1 DEF IsSd
      <4> QED BY <3>2, <4>2
    <3> QED BY <1>1, <1>2, <3>1, <3>2, <3>3 DEF LearnInv, Known
  <2>3. CASE resp \notin {"busy", "ready"}
    <3>1. Failed /\ info' = info
      BY <1>8, <2>3 DEF AfterSendOpCond
    <3> QED BY <1>1, <1>3, <3>1 DEF LearnInv
  <2> QED BY <2>1, <2>2, <2>3
<1>9. CASE AfterAllSendCid \/ AfterSetRelativeAddr
  <2>1. info' = info /\ info.sd = IsSd(card)
    BY <1>1, <1>9 DEF AfterAllSendCid, AfterSetRelativeAddr, LearnInv, Known, MmcInv
  <2>2. CASE Ok(resp)
    <3>1. PICK m \in {"SET_RELATIVE_ADDR", "SEND_CSD"} : Send(m)
      BY <1>9, <2>2 DEF AfterAllSendCid, AfterSetRelativeAddr
    <3>2. pc' = pc /\ IsSd(card') = IsSd(card)
      BY <1>2, <1>9, <2>2, <3>1 DEF AfterAllSendCid, AfterSetRelativeAddr, Kept
    <3> QED BY <1>1, <1>2, <2>1, <3>1, <3>2 DEF LearnInv, Known
  <2>3. CASE ~Ok(resp)
    <3>1. Failed
      BY <1>9, <2>3 DEF AfterAllSendCid, AfterSetRelativeAddr
    <3> QED BY <1>1, <1>3, <2>1, <3>1 DEF LearnInv
  <2> QED BY <2>2, <2>3
<1>10. CASE AfterSendCsd
  <2>1. CASE Ok(resp)
    <3>1. PICK b \in IF card.kind = "mmc31" THEN Stale ELSE {Blocks} :
            /\ pc' = "select" /\ UNCHANGED <<cmd, resp, card, faults>>
            /\ info' = [info EXCEPT !.sd20 = Sd20, !.blocks = b]
            /\ info.sd = IsSd(card)
      BY <1>1, <1>10, <2>1 DEF AfterSendCsd, BlockNum, LearnInv, Known, MmcInv
    <3>2. /\ info' \in Infos /\ ~info'.passed /\ info'.sd = info.sd /\ info'.sd20 = Sd20
          /\ card.kind # "mmc31" => info'.blocks = Blocks
      <4>1. Sd20 \in BOOLEAN
        BY DEF Sd20
      <4>2. b \in {0, Blocks} \cup Stale /\ (card.kind # "mmc31" => b = Blocks)
        OBVIOUS
      <4> QED BY <1>1, <3>1, <4>1, <4>2 DEF Infos
    <3>3. IsSd(card') = IsSd(card) /\ Kept
      BY <1>1, <3>1 DEF IsSd, Kept, TypeInv
    <3> QED BY <1>1, <3>1, <3>2, <3>3 DEF LearnInv, Sd20
  <2>2. CASE ~Ok(resp)
    <3>1. Failed /\ info' = info
      BY <1>10, <2>2 DEF AfterSendCsd, BlockNum
    <3> QED BY <1>1, <1>3, <3>1 DEF LearnInv
  <2> QED BY <2>1, <2>2
<1> QED BY <1>4, <1>5, <1>6, <1>7, <1>8, <1>9, <1>10 DEF InitStep

LEMMA InitializeKeeps == ASSUME MmcInv, Initialize PROVE MmcInv'
<1>1. /\ pc = "idle" /\ call' = NoCall /\ upset' = {} /\ TypeInv
      /\ info' = [info EXCEPT !.sd = IF card.in THEN TRUE ELSE @, !.sd20 = FALSE, !.limit = 0,
                              !.wide = IF card.in THEN FALSE ELSE @, !.passed = FALSE]
  BY DEF MmcInv, Initialize
<1>2. info' \in Infos /\ info'.passed = FALSE
  <2> DEFINE s == IF card.in THEN TRUE ELSE info.sd
             b == IF card.in THEN FALSE ELSE info.wide
  <2>1. info' = [info EXCEPT !.sd = s, !.sd20 = FALSE, !.limit = 0, !.wide = b, !.passed = FALSE]
    BY <1>1
  <2>2. s \in BOOLEAN /\ b \in BOOLEAN /\ info \in Infos /\ 0 \in 0 .. Limit41
    <3>1. info \in Infos /\ info.sd \in BOOLEAN /\ info.wide \in BOOLEAN
      BY DEF MmcInv, TypeInv, Infos
    <3>2. (s = TRUE \/ s = info.sd) /\ (b = FALSE \/ b = info.wide)
      OBVIOUS
    <3>3. 0 \in 0 .. Limit41
      BY MmcAssumption
    <3> HIDE DEF s, b
    <3>4. s \in BOOLEAN /\ b \in BOOLEAN
      BY <3>1, <3>2
    <3> QED BY <3>1, <3>3, <3>4
  <2> HIDE DEF s, b
  <2> QED BY <2>1, <2>2 DEF Infos
<1>3. call' \in Calls /\ call'.ret = "none"
  BY <1>1, MmcAssumption DEF NoCall, Calls, Ops
<1>4. (RelyInv' /\ CallInv') \/ pc' \in Transfer
  BY <1>2, <1>3 DEF RelyInv, CallInv, SuccessIsRight, Transfer
<1>5. CASE card.in
  <2>1. pc' = "init" /\ Send("GO_IDLE")
    BY <1>5 DEF Initialize
  <2>2. TypeInv'
    BY <1>1, <1>2, <1>3, <2>1, SendFields DEF TypeInv, Trap
  <2>3. LearnInv'
    <3>1. cmd' = "GO_IDLE" /\ ~info'.passed
      BY <1>1, <1>2, <2>1, SendFields
    <3> QED BY <2>1, <3>1 DEF LearnInv, Known
  <2> QED BY <1>4, <2>1, <2>2, <2>3 DEF MmcInv, Transfer
<1>6. CASE ~card.in
  <2>1. pc' = "idle" /\ UNCHANGED <<resp, card, faults>>
    BY <1>1, <1>6 DEF Initialize
  <2>2. TypeInv'
    BY <1>1, <1>2, <1>3, <2>1 DEF TypeInv, IsSd
  <2>3. LearnInv'
    BY <2>1 DEF LearnInv
  <2> QED BY <1>4, <2>1, <2>2, <2>3 DEF MmcInv, Transfer
<1> QED BY <1>5, <1>6

\* The end of the initialisation: whatever went wrong with the selection is
\* noted as a trap.
LEMMA PassedKeeps ==
    ASSUME MmcInv, pc = "select", NEW m, Send(m), NEW wide \in BOOLEAN, Passed(wide),
           UNCHANGED call
    PROVE  MmcInv'
<1>1. /\ pc' = "idle" /\ info' = [info EXCEPT !.passed = TRUE, !.wide = wide]
      /\ upset \subseteq upset' /\ upset' \subseteq upset \cup Trap
      /\ card'.state # "tran" => "unselected" \in upset'
      /\ wide # card'.wide => "width" \in upset'
      /\ card.kind = "mmc31" => "csd" \in upset'
  BY DEF Passed, Trap
<1>2. /\ info \in Infos /\ upset \subseteq Trap /\ call \in Calls /\ card \in Cards
      /\ info.sd = IsSd(card) /\ info.sd20 = (card.kind \in {"sdhc", "mmc31"})
      /\ card.kind # "mmc31" => info.blocks = Blocks
  BY DEF MmcInv, TypeInv, LearnInv
<1>3. /\ info' \in Infos /\ info'.passed /\ info'.wide = wide
      /\ info'.sd = info.sd /\ info'.sd20 = info.sd20 /\ info'.blocks = info.blocks
  BY <1>1, <1>2 DEF Infos
<1>4. TypeInv'
  BY <1>1, <1>2, <1>3, SendFields DEF MmcInv, TypeInv
<1>5. LearnInv'
  BY <1>1 DEF LearnInv
<1>6. RelyInv'
  <2>1. card'.kind = card.kind /\ IsSd(card') = IsSd(card)
    BY SendFields DEF MmcInv, IsSd
  <2>2. info'.sd = IsSd(card')
    BY <1>2, <1>3, <2>1
  <2>3. "csd" \notin upset' => info'.sd20 = (card'.kind = "sdhc") /\ info'.blocks = Blocks
    BY <1>1, <1>2, <1>3, <2>1
  <2>4. "width" \notin upset' => info'.wide = card'.wide
    BY <1>1, <1>3
  <2>5. upset' \subseteq {"data"} => Place'
    BY <1>1 DEF Place
  <2> QED BY <2>2, <2>3, <2>4, <2>5 DEF RelyInv
<1>7. CallInv'
  BY <1>1 DEF MmcInv, CallInv, SuccessIsRight, Transfer
<1> QED BY <1>4, <1>5, <1>6, <1>7 DEF MmcInv

\* A command of mmc_select_card after which it goes on, or the wait for the data
\* of one.
LEMMA SelectGoesOn ==
    ASSUME MmcInv, pc \in {"select", "switch"}, pc' \in {"select", "switch"},
           UNCHANGED <<info, call, upset>>, (\E m : Send(m)) \/ UNCHANGED <<resp, card, faults>>
    PROVE  MmcInv'
<1>1. TypeInv /\ LearnInv /\ info \in Infos
  BY DEF MmcInv, TypeInv
<1>2. /\ card' \in Cards /\ card'.kind = card.kind
      /\ ~card'.in => card'.state = "idle"
      /\ card'.app => IsSd(card')
      /\ faults' \in 0 .. MaxFaults /\ resp' \in Responses
  <2>1. CASE \E m : Send(m)
    BY <1>1, <2>1, SendFields
  <2>2. CASE UNCHANGED <<resp, card, faults>>
    BY <1>1, <2>2 DEF TypeInv, IsSd
  <2> QED BY <2>1, <2>2
<1>3. IsSd(card') = IsSd(card)
  BY <1>2 DEF IsSd
<1>4. LearnInv'
  BY <1>1, <1>2, <1>3 DEF LearnInv
<1> QED BY <1>1, <1>2, <1>4, InitKeeps DEF LearnInv

LEMMA SelectKeeps ==
    ASSUME MmcInv, SelectCard \/ Switch \/ BeforeWidth \/ SetBusWidth \/ SwitchEnds
    PROVE  MmcInv'
<1>1. CASE Switch
  BY <1>1, SelectGoesOn DEF Switch
<1>2. CASE SwitchEnds
  BY <1>2, SelectGoesOn DEF SwitchEnds
<1>3. CASE SelectCard \/ BeforeWidth \/ SetBusWidth
  <2>1. PICK m \in {"SELECT_CARD", "APP_CMD", "SET_BUS_WIDTH"} :
          /\ pc = "select" /\ Send(m) /\ UNCHANGED call
          /\ UNCHANGED <<pc, info, upset>> \/ Passed(FALSE) \/ Passed(TRUE)
    BY <1>3 DEF SelectCard, BeforeWidth, SetBusWidth
  <2> QED BY <2>1, SelectGoesOn, PassedKeeps
<1> QED BY <1>1, <1>2, <1>3

-----------------------------------------------------------------------------
(* Transfers.                                                              *)

LEMMA CallKeeps ==
    ASSUME MmcInv, NEW op \in Ops, NEW a \in 0 .. Blocks, NEW n \in 1 .. 2, Call(op, a, n)
    PROVE  MmcInv'
<1> DEFINE new(r) == [op |-> op, addr |-> a, num |-> n, ret |-> r, moved |-> {}]
<1>1. /\ pc = "idle" /\ (Multi(op) <=> n > 1)
      /\ UNCHANGED <<resp, info, card, faults>>
      /\ upset' = upset \/ upset' = upset \cup {"failed"}
      /\ \/ /\ pc' = "status" /\ call' = new("none")
            /\ upset' = IF info.passed THEN upset ELSE upset \cup {"failed"}
         \/ pc' = "idle" /\ call' = new("error") /\ upset' = upset
  BY DEF Call
<1>2. \A r \in {"none", "error"} : /\ new(r) \in Calls /\ new(r).ret = r
                                   /\ new(r).op = op /\ new(r).num = n
  BY DEF Calls
<1> HIDE DEF new
<1>3. TypeInv' /\ LearnInv'
  BY <1>1, <1>2 DEF MmcInv, TypeInv, LearnInv, IsSd, Trap
<1>4. RelyInv'
  <2> SUFFICES ASSUME info.passed PROVE RelyInv'
    BY <1>1 DEF RelyInv
  <2>1. upset' = upset
    BY <1>1
  <2> QED BY <1>1, <2>1 DEF MmcInv, RelyInv, Place, IsSd
<1>5. CallInv'
  <2>1. call'.ret \in {"none", "error"}
    BY <1>1, <1>2
  <2>2. pc' \in Transfer =>
          /\ info'.passed \/ "failed" \in upset'
          /\ call'.ret = "none" /\ (Multi(call'.op) <=> call'.num > 1)
    BY <1>1, <1>2 DEF Transfer
  <2> QED BY <1>1, <2>1, <2>2 DEF CallInv, SuccessIsRight
<1> QED BY <1>3, <1>4, <1>5 DEF MmcInv

\* A step of a transfer in which the card keeps its width: the driver still
\* knows what it knew.
LEMMA RelyKept ==
    ASSUME MmcInv, UNCHANGED info, card'.kind = card.kind,
           card'.wide = card.wide, card'.state # "idle" => card.state # "idle",
           upset \subseteq upset',
           info.passed /\ upset' \subseteq {"data"} /\ upset \subseteq {"data"} /\ Place => Place'
    PROVE  RelyInv'
<1> SUFFICES ASSUME info.passed
             PROVE  /\ info.sd = IsSd(card')
                    /\ "csd" \notin upset' => /\ info.sd20 = (card'.kind = "sdhc")
                                              /\ info.blocks = Blocks
                    /\ "width" \notin upset' /\ card'.state # "idle" => info.wide = card'.wide
                    /\ upset' \subseteq {"data"} => Place'
  BY DEF RelyInv
<1>1. IsSd(card') = IsSd(card)
  BY DEF IsSd
<1> QED BY <1>1 DEF MmcInv, RelyInv

LEMMA StepKeeps == ASSUME MmcInv, SendStatus \/ SetBlocklen PROVE MmcInv'
<1>0. PICK m \in {"SEND_STATUS", "SET_BLOCKLEN"}, to \in {"blocklen", "move"} :
        pc \in {"status", "blocklen"} /\ Step(m, pc, to)
  BY DEF SendStatus, SetBlocklen, Step
<1>1. PICK o \in Outcomes(Obey(card, m)) :
        /\ pc \in {"status", "blocklen"} /\ card' = o.card /\ faults' = faults + o.fault
        /\ IF Ok(o.resp) THEN pc' = to /\ UNCHANGED call ELSE Return("error")
        /\ UNCHANGED <<cmd, resp, info, upset>>
  BY <1>0 DEF Step
<1> DEFINE a == Obey(card, m)
<1>2. TypeInv /\ card \in Cards /\ (card.app => IsSd(card)) /\ call \in Calls
  BY DEF MmcInv, TypeInv
<1>3. /\ card.in => /\ a.card \in Cards /\ a.card.kind = card.kind /\ a.card.in
                    /\ a.card.app => IsSd(card)
                    /\ a.resp \in Responses
      /\ a.card.state = card.state /\ a.card.wide = card.wide
  BY <1>2, ObeyFields, ObeyTransfer
<1> HIDE DEF a
<1>4. o \in Outcomes(a)
  BY <1>1 DEF a
<1>5. /\ o.card \in Cards /\ o.card.kind = card.kind /\ o.card.in = card.in
      /\ ~o.card.in => o.card.state = "idle"
      /\ o.card.app => IsSd(o.card)
      /\ faults + o.fault \in 0 .. MaxFaults
      /\ o.card = card \/ o.card = a.card
  BY <1>2, <1>3, <1>4, OutcomeFields
<1>6. o.card.state = card.state /\ o.card.wide = card.wide
  BY <1>3, <1>5
<1>7. /\ call' \in Calls /\ call'.op = call.op /\ call'.num = call.num /\ call'.addr = call.addr
      /\ call'.moved = call.moved
      /\ \/ pc' \in {"blocklen", "move"} /\ call' = call
         \/ pc' = "idle" /\ call'.ret = "error"
  <2>1. LET g == [call EXCEPT !.ret = "error"]
        IN  /\ g \in Calls /\ g.op = call.op /\ g.num = call.num /\ g.addr = call.addr
            /\ g.moved = call.moved /\ g.ret = "error"
    BY <1>2 DEF Calls
  <2> QED BY <1>1, <1>2, <2>1 DEF Return
<1>8. TypeInv'
  BY <1>1, <1>2, <1>5, <1>7 DEF TypeInv
<1>9. LearnInv'
  BY <1>1, <1>7 DEF LearnInv
<1>10. RelyInv'
  BY <1>1, <1>5, <1>6, <1>7, RelyKept DEF Place
<1>11. CallInv'
  BY <1>1, <1>7 DEF MmcInv, CallInv, SuccessIsRight, Transfer
<1> QED BY <1>8, <1>9, <1>10, <1>11 DEF MmcInv

LEMMA WholeBlocks ==
    ASSUME NEW a \in Nat, NEW b \in Nat \ {0}
    PROVE  (a * b) \div b = a
OBVIOUS

\* The card moves the blocks that the driver asked for.
LEMMA SpanIsAsked ==
    ASSUME call \in Calls, info.sd20 = (card.kind = "sdhc")
    PROVE  /\ Addressed(card, Argument(call.addr)) = call.addr
           /\ Span = Asked \cap 0 .. Blocks - 1
<1>1. call.addr \in Nat /\ call.num \in 1 .. 2
  BY MmcAssumption DEF Calls
<1>2. Addressed(card, Argument(call.addr)) = call.addr
  BY <1>1, WholeBlocks, MmcAssumption DEF Addressed, Argument
<1>3. Span = {b \in 0 .. Blocks - 1 : b >= call.addr /\ b < call.addr + call.num}
  BY <1>2 DEF Span
<1>4. \A b \in 0 .. Blocks - 1 :
        b >= call.addr /\ b < call.addr + call.num <=> b \in call.addr .. call.addr + call.num - 1
  BY <1>1, MmcAssumption
<1> QED BY <1>2, <1>3, <1>4 DEF Asked

LEMMA MoveDataKeeps == ASSUME MmcInv, MoveData PROVE MmcInv'
<1> DEFINE a == Move(card, Argument(call.addr))
<1>1. PICK o \in Outcomes(a) :
        /\ faults' = faults + o.fault
        /\ resp' = o.resp
        /\ IF Answered(o.resp)
           THEN pc' = "data" /\ card' = o.card /\ UNCHANGED <<call, upset>>
           ELSE Return("error") /\ card' = Alone(o.card) /\ upset' = upset \cup Left(card')
  BY DEF MoveData
<1>2. /\ pc = "move" /\ UNCHANGED info /\ TypeInv /\ card \in Cards
      /\ card.app => IsSd(card)
      /\ ~card.in => card.state = "idle"
      /\ call \in Calls /\ call.ret = "none"
  BY DEF MoveData, MmcInv, TypeInv, CallInv, Transfer
<1>3. /\ a.card \in Cards /\ a.resp \in Responses
      /\ a.card.kind = card.kind /\ a.card.in = card.in /\ a.card.wide = card.wide
      /\ a.card.app => IsSd(card)
      /\ a.resp = "ok" => /\ ~(Addressed(card, Argument(call.addr)) >= Blocks)
                          /\ a.card.state = "data"
      /\ a.resp # "none" => card.state = "tran"
      /\ a.card.state # card.state => card.state = "tran" /\ a.card.state = "data"
  BY <1>2, MoveFields
<1> HIDE DEF a
<1>4. /\ o.card \in Cards /\ o.card.kind = card.kind /\ o.card.in = card.in
      /\ ~o.card.in => o.card.state = "idle"
      /\ o.card.app => IsSd(o.card)
      /\ o.resp \in Responses
      /\ faults + o.fault \in 0 .. MaxFaults
      /\ o.card = card \/ o.card = a.card
      /\ o.resp # "none" => o.card = a.card /\ o.resp = a.resp
  BY <1>2, <1>3, OutcomeFields
<1>5. /\ o.card.wide = card.wide
      /\ o.card.state # card.state => card.state = "tran" /\ o.card.state = "data"
  BY <1>3, <1>4
<1>6. LearnInv'
  BY <1>1 DEF LearnInv, Return
<1>7. CASE Answered(o.resp)
  <2>1. pc' = "data" /\ card' = o.card /\ call' = call /\ upset' = upset
    BY <1>1, <1>7
  <2>2. /\ card' = a.card /\ resp' = a.resp /\ a.resp # "none"
    BY <1>1, <1>4, <1>7 DEF Answered
  <2>3. TypeInv'
    BY <1>1, <1>2, <1>4, <2>1 DEF TypeInv
  <2>4. RelyInv'
    <3>1. Place'
      BY <1>3, <2>1, <2>2 DEF Place, Ok
    <3>2. card'.kind = card.kind /\ card'.wide = card.wide /\ (card'.state # "idle" => card.state # "idle")
      BY <1>4, <1>5, <2>1
    <3> QED BY <1>2, <2>1, <3>1, <3>2, RelyKept
  <2>5. CallInv'
    <3>1. Ok(resp') => ~(Addressed(card, Argument(call.addr)) >= Blocks)
      BY <1>3, <2>2 DEF Ok
    <3>2. Addressed(card, Argument(call.addr))' = Addressed(card, Argument(call.addr))
      BY <1>2, <1>3, <2>1, <2>2 DEF Addressed, Argument
    <3>3. pc' = "data" /\ call' = call /\ upset' = upset /\ info' = info
      BY <1>2, <2>1
    <3>4. pc' \in Transfer =>
            /\ info'.passed \/ "failed" \in upset'
            /\ call'.ret = "none" /\ (Multi(call'.op) <=> call'.num > 1)
      BY <1>2, <3>3 DEF MmcInv, CallInv, Transfer
    <3>5. SuccessIsRight'
      BY <1>2, <2>1 DEF SuccessIsRight
    <3> QED BY <3>1, <3>2, <3>3, <3>4, <3>5 DEF CallInv
  <2> QED BY <1>6, <2>3, <2>4, <2>5 DEF MmcInv
<1>8. CASE ~Answered(o.resp)
  <2> DEFINE d == Alone(o.card)
  <2>1. /\ pc' = "idle" /\ call' = [call EXCEPT !.ret = "error"] /\ card' = d
        /\ upset' = upset \cup Left(d)
    BY <1>1, <1>8 DEF Return
  <2>2. /\ d \in Cards /\ d.kind = o.card.kind /\ d.in = o.card.in /\ d.wide = o.card.wide
        /\ d.app = o.card.app
        /\ d.state # o.card.state => card.state = "tran" /\ d.state = "tran"
    <3>1. LET g == [o.card EXCEPT !.state = "tran"]
          IN  /\ g \in Cards /\ g.kind = o.card.kind /\ g.in = o.card.in
              /\ g.wide = o.card.wide /\ g.app = o.card.app /\ g.state = "tran"
      BY <1>4 DEF Cards, CardStates
    <3> QED BY <1>4, <3>1 DEF Alone
  <2> HIDE DEF d
  <2>3. Left(d) \subseteq {"stuck"} /\ (d.state = "data" => "stuck" \in Left(d))
    BY DEF Left
  <2>4. /\ call' \in Calls /\ call'.ret = "error"
    BY <1>2, <2>1 DEF Calls
  <2>5. ~d.in => d.state = "idle"
    BY <1>2, <1>4, <2>2
  <2>6. d.app => IsSd(d)
    BY <1>4, <2>2 DEF IsSd
  <2>7. upset \subseteq upset' /\ upset' \subseteq Trap
    BY <1>2, <2>1, <2>3 DEF TypeInv, Trap
  <2>8. TypeInv'
    BY <1>1, <1>2, <1>4, <2>1, <2>2, <2>4, <2>5, <2>6, <2>7 DEF TypeInv
  <2>9. RelyInv'
    <3>1. upset' \subseteq {"data"} /\ Place => Place'
      <4> SUFFICES ASSUME upset' \subseteq {"data"}, Place PROVE Place'
        OBVIOUS
      <4>1. card.state = "tran" /\ d.state # "data"
        BY <1>2, <2>1, <2>3 DEF Place
      <4>2. d.state = "tran"
        BY <1>5, <2>2, <4>1
      <4> QED BY <2>1, <4>2 DEF Place
    <3>2. /\ card'.kind = card.kind /\ card'.wide = card.wide
          /\ card'.state # "idle" => card.state # "idle"
      BY <1>4, <1>5, <2>1, <2>2
    <3> QED BY <1>2, <2>7, <3>1, <3>2, RelyKept
  <2>10. CallInv'
    BY <2>1, <2>4 DEF CallInv, SuccessIsRight, Transfer
  <2> QED BY <1>6, <2>8, <2>9, <2>10 DEF MmcInv
<1> QED BY <1>7, <1>8

LEMMA DataEndsKeeps == ASSUME MmcInv, DataEnds PROVE MmcInv'
<1> DEFINE left == IF Multi(call.op) \/ card.state # "data" THEN card
                   ELSE [card EXCEPT !.state = "tran"]
<1>1. PICK whole \in BOOLEAN :
        LET good == whole /\ Flowing IN
        /\ whole \/ faults < MaxFaults
        /\ faults' = IF whole THEN faults ELSE faults + 1
        /\ card' = left
        /\ IF Ok(resp)
           THEN /\ pc' = IF Multi(call.op) THEN "stop" ELSE "idle"
                /\ call' = [call EXCEPT !.moved = IF good THEN Span ELSE {},
                                        !.ret = IF Multi(call.op) THEN "none" ELSE "ok"]
                /\ upset' = IF good THEN upset ELSE upset \cup {"data"}
           ELSE Return("error") /\ upset' = upset \cup Left(left)
  BY DEF DataEnds
<1>2. /\ pc = "data" /\ UNCHANGED <<resp, info>> /\ TypeInv /\ card \in Cards
      /\ card.app => IsSd(card)
      /\ ~card.in => card.state = "idle"
      /\ call \in Calls /\ (info.passed \/ "failed" \in upset)
      /\ (Multi(call.op) <=> call.num > 1)
  BY DEF DataEnds, MmcInv, TypeInv, CallInv, Transfer
<1>3. /\ left \in Cards /\ left.kind = card.kind /\ left.in = card.in /\ left.wide = card.wide
      /\ left.app = card.app
      /\ left.state = IF ~Multi(call.op) /\ card.state = "data" THEN "tran" ELSE card.state
  <2>1. LET g == [card EXCEPT !.state = "tran"]
        IN  /\ g \in Cards /\ g.kind = card.kind /\ g.in = card.in
            /\ g.wide = card.wide /\ g.app = card.app /\ g.state = "tran"
    BY <1>2 DEF Cards, CardStates
  <2> QED BY <1>2, <2>1
<1>4. card' = left
  BY <1>1
<1> HIDE DEF left
<1>5. faults' \in 0 .. MaxFaults
  BY <1>1, <1>2, MmcAssumption DEF TypeInv
<1>6. Left(left) \subseteq {"stuck"} /\ (left.state = "data" => "stuck" \in Left(left))
  BY DEF Left
<1>7. upset \subseteq upset' /\ upset' \subseteq Trap
  BY <1>1, <1>2, <1>6 DEF TypeInv, Trap
<1>8. LearnInv'
  BY <1>1 DEF LearnInv, Return
<1>9. /\ card' \in Cards /\ card'.kind = card.kind /\ card'.wide = card.wide
      /\ card'.state # "idle" => card.state # "idle"
      /\ ~card'.in => card'.state = "idle"
      /\ card'.app => IsSd(card')
  BY <1>2, <1>3, <1>4 DEF IsSd
<1>10. CASE Ok(resp)
  <2> DEFINE mv == IF whole /\ Flowing THEN Span ELSE {}
             rt == IF Multi(call.op) THEN "none" ELSE "ok"
  <2>1. mv \subseteq 0 .. Blocks - 1 /\ rt \in {"none", "ok"}
    BY DEF Span
  <2>2. call' = [call EXCEPT !.moved = mv, !.ret = rt]
    BY <1>1, <1>10
  <2>3. pc' = IF Multi(call.op) THEN "stop" ELSE "idle"
    BY <1>1, <1>10
  <2>4. ~(Addressed(card, Argument(call.addr)) >= Blocks)
    BY <1>2, <1>10 DEF MmcInv, CallInv
  <2>5. upset' \cap Unseen = {} => mv = Asked \cap 0 .. Blocks - 1 /\ call.addr < Blocks
    <3> SUFFICES ASSUME upset' \cap Unseen = {}
                 PROVE  mv = Asked \cap 0 .. Blocks - 1 /\ call.addr < Blocks
      OBVIOUS
    <3>1. "data" \notin upset' /\ "csd" \notin upset' /\ "failed" \notin upset'
      BY DEF Unseen
    <3>2. info.sd20 = (card.kind = "sdhc")
      BY <1>2, <1>7, <3>1 DEF MmcInv, RelyInv
    <3>3. mv = Span
      BY <1>1, <1>10, <3>1
    <3>4. call.addr \in Nat
      BY <1>2, MmcAssumption DEF Calls
    <3> QED BY <1>2, <2>4, <3>2, <3>3, <3>4, SpanIsAsked, MmcAssumption
  <2> HIDE DEF mv
  <2>6. /\ call' \in Calls /\ call'.op = call.op /\ call'.addr = call.addr
        /\ call'.num = call.num /\ call'.moved = mv /\ call'.ret = rt
    BY <1>2, <2>1, <2>2 DEF Calls
  <2>7. TypeInv'
    BY <1>2, <1>5, <1>7, <1>9, <2>3, <2>6 DEF TypeInv
  <2>8. RelyInv'
    <3>1. Place => Place'
      <4> SUFFICES ASSUME Place PROVE Place'
        OBVIOUS
      <4>1. card.state = "data"
        BY <1>2, <1>10 DEF Place
      <4>2. card'.state = IF Multi(call.op) THEN "data" ELSE "tran"
        BY <1>3, <1>4, <4>1
      <4> QED BY <2>3, <4>2 DEF Place
    <3> QED BY <1>2, <1>7, <1>9, <3>1, RelyKept
  <2>9. Asked' = Asked
    BY <2>6 DEF Asked
  <2>10. CallInv'
    <3>1. CASE Multi(call.op)
      <4>1. pc' = "stop" /\ rt = "none" /\ Multi(call'.op) /\ call'.num > 1
        BY <1>2, <2>3, <2>6, <3>1
      <4>2. info'.passed \/ "failed" \in upset'
        BY <1>2, <1>7
      <4> QED BY <2>5, <2>6, <2>9, <4>1, <4>2 DEF CallInv, SuccessIsRight
    <3>2. CASE ~Multi(call.op)
      <4>1. call.num = 1 /\ call.addr \in Nat
        BY <1>2, <3>2, MmcAssumption DEF Calls
      <4>2. call.addr < Blocks => Asked \cap 0 .. Blocks - 1 = Asked
        BY <4>1, MmcAssumption DEF Asked
      <4>3. SuccessIsRight'
        BY <2>5, <2>6, <4>2 DEF SuccessIsRight, Asked, Unseen
      <4> QED BY <2>3, <3>2, <4>3 DEF CallInv, Transfer
    <3> QED BY <3>1, <3>2
  <2> QED BY <1>8, <2>7, <2>8, <2>10 DEF MmcInv
<1>11. CASE ~Ok(resp)
  <2>1. pc' = "idle" /\ call' = [call EXCEPT !.ret = "error"] /\ upset' = upset \cup Left(left)
    BY <1>1, <1>11 DEF Return
  <2>2. call' \in Calls /\ call'.ret = "error"
    BY <1>2, <2>1 DEF Calls
  <2>3. TypeInv'
    BY <1>2, <1>5, <1>7, <1>9, <2>1, <2>2 DEF TypeInv
  <2>4. RelyInv'
    <3>1. upset' \subseteq {"data"} /\ Place => Place'
      <4> SUFFICES ASSUME upset' \subseteq {"data"}, Place PROVE Place'
        OBVIOUS
      <4>1. card.state \in {"tran", "data"} /\ left.state # "data"
        BY <1>2, <1>6, <2>1 DEF Place
      <4>2. card'.state = "tran"
        BY <1>3, <1>4, <4>1
      <4> QED BY <2>1, <4>2 DEF Place
    <3> QED BY <1>2, <1>7, <1>9, <3>1, RelyKept
  <2>5. CallInv'
    BY <2>1, <2>2 DEF CallInv, SuccessIsRight, Transfer
  <2> QED BY <1>8, <2>3, <2>4, <2>5 DEF MmcInv
<1> QED BY <1>10, <1>11

LEMMA StopKeeps == ASSUME MmcInv, Stop PROVE MmcInv'
<1> DEFINE a == Obey(card, "STOP_TRANSMISSION")
<1>1. PICK o \in Outcomes(a) :
        /\ card' = o.card /\ faults' = faults + o.fault
        /\ resp' = IF call.addr + call.num <= Blocks \/ ~Answered(o.resp) THEN o.resp ELSE "error"
        /\ IF Answered(o.resp)
           THEN pc' = "prog" /\ UNCHANGED <<call, upset>>
           ELSE Return("error") /\ upset' = upset \cup Left(o.card)
  BY DEF Stop
<1>2. /\ pc = "stop" /\ UNCHANGED info /\ TypeInv /\ card \in Cards
      /\ card.app => IsSd(card)
      /\ call \in Calls /\ call.ret = "none" /\ (Multi(call.op) <=> call.num > 1)
      /\ info.passed \/ "failed" \in upset
  BY DEF Stop, MmcInv, TypeInv, CallInv, Transfer
<1>3. /\ card.in => /\ a.card \in Cards /\ a.card.kind = card.kind /\ a.card.in
                    /\ a.card.app => IsSd(card)
                    /\ a.resp \in Responses
      /\ a.card.state = IF card.state = "data" THEN "tran" ELSE card.state
      /\ a.card.wide = card.wide
  BY <1>2, ObeyFields, ObeyStop
<1> HIDE DEF a
<1>4. /\ o.card \in Cards /\ o.card.kind = card.kind /\ o.card.in = card.in
      /\ ~o.card.in => o.card.state = "idle"
      /\ o.card.app => IsSd(o.card)
      /\ o.resp \in Responses
      /\ faults + o.fault \in 0 .. MaxFaults
      /\ o.card = card \/ o.card = a.card
      /\ o.resp # "none" => o.card = a.card
  BY <1>2, <1>3, OutcomeFields
<1>5. /\ card' \in Cards /\ card'.kind = card.kind /\ card'.wide = card.wide
      /\ card'.state # "idle" => card.state # "idle"
      /\ ~card'.in => card'.state = "idle"
      /\ card'.app => IsSd(card')
      /\ faults' \in 0 .. MaxFaults /\ resp' \in Responses
  BY <1>1, <1>3, <1>4 DEF Responses
<1>6. LearnInv'
  BY <1>1 DEF LearnInv, Return
<1>7. CASE Answered(o.resp)
  <2>1. pc' = "prog" /\ call' = call /\ upset' = upset /\ card' = a.card
    BY <1>1, <1>4, <1>7 DEF Answered
  <2>2. TypeInv'
    BY <1>2, <1>5, <2>1 DEF TypeInv
  <2>3. RelyInv'
    <3>1. Place => Place'
      BY <1>2, <1>3, <2>1 DEF Place
    <3> QED BY <1>2, <1>5, <2>1, <3>1, RelyKept
  <2>4. CallInv'
    <3>1. Ok(resp') => call.addr + call.num <= Blocks
      BY <1>1, <1>7 DEF Ok
    <3>2. upset \cap Unseen = {} => call.moved = Asked \cap 0 .. Blocks - 1
      BY <1>2 DEF MmcInv, CallInv
    <3>3. Asked' = Asked
      BY <2>1 DEF Asked
    <3>4. SuccessIsRight'
      BY <1>2, <2>1 DEF SuccessIsRight
    <3> QED BY <1>2, <2>1, <3>1, <3>2, <3>3, <3>4 DEF CallInv
  <2> QED BY <1>6, <2>2, <2>3, <2>4 DEF MmcInv
<1>8. CASE ~Answered(o.resp)
  <2>1. pc' = "idle" /\ call' = [call EXCEPT !.ret = "error"] /\ upset' = upset \cup Left(card')
    BY <1>1, <1>8 DEF Return
  <2>2. call' \in Calls /\ call'.ret = "error"
    BY <1>2, <2>1 DEF Calls
  <2>3. Left(card') \subseteq {"stuck"} /\ (card'.state = "data" => "stuck" \in Left(card'))
    BY DEF Left
  <2>4. upset \subseteq upset' /\ upset' \subseteq Trap
    BY <1>2, <2>1, <2>3 DEF TypeInv, Trap
  <2>5. TypeInv'
    BY <1>2, <1>5, <2>1, <2>2, <2>4 DEF TypeInv
  <2>6. RelyInv'
    <3>1. upset' \subseteq {"data"} /\ Place => Place'
      <4> SUFFICES ASSUME upset' \subseteq {"data"}, Place PROVE Place'
        OBVIOUS
      <4>1. card.state = "data" /\ card'.state # "data"
        BY <1>2, <2>1, <2>3 DEF Place
      <4>2. card'.state = "tran"
        BY <1>1, <1>3, <1>4, <4>1
      <4> QED BY <2>1, <4>2 DEF Place
    <3> QED BY <1>2, <1>5, <2>4, <3>1, RelyKept
  <2>7. CallInv'
    BY <2>1, <2>2 DEF CallInv, SuccessIsRight, Transfer
  <2> QED BY <1>6, <2>5, <2>6, <2>7 DEF MmcInv
<1> QED BY <1>7, <1>8

LEMMA ProgEndsKeeps == ASSUME MmcInv, ProgEnds PROVE MmcInv'
<1> DEFINE rt == IF Ok(resp) THEN "ok" ELSE "error"
<1>1. /\ pc = "prog" /\ pc' = "idle" /\ call' = [call EXCEPT !.ret = rt]
      /\ UNCHANGED <<resp, info, card, faults, upset>>
      /\ TypeInv /\ call \in Calls /\ rt \in {"ok", "error"}
  BY DEF ProgEnds, Return, MmcInv, TypeInv
<1>2. rt = "ok" => call.addr + call.num <= Blocks
  BY <1>1 DEF MmcInv, CallInv
<1> HIDE DEF rt
<1>3. /\ call' \in Calls /\ call'.addr = call.addr /\ call'.num = call.num
      /\ call'.moved = call.moved /\ call'.ret = rt
  BY <1>1 DEF Calls
<1>4. TypeInv'
  BY <1>1, <1>3 DEF TypeInv, IsSd
<1>5. LearnInv'
  BY <1>1 DEF LearnInv
<1>6. RelyInv'
  <2>1. Place => Place'
    BY <1>1 DEF Place
  <2> QED BY <1>1, <2>1, RelyKept
<1>7. CallInv'
  <2>1. call.addr + call.num <= Blocks => Asked \cap 0 .. Blocks - 1 = Asked
    BY <1>1, MmcAssumption DEF Calls, Asked
  <2>2. upset \cap Unseen = {} => call.moved = Asked \cap 0 .. Blocks - 1
    BY <1>1 DEF MmcInv, CallInv
  <2>3. SuccessIsRight'
    BY <1>1, <1>2, <1>3, <2>1, <2>2 DEF SuccessIsRight, Asked, Unseen
  <2> QED BY <1>1, <2>3 DEF CallInv, Transfer
<1> QED BY <1>4, <1>5, <1>6, <1>7 DEF MmcInv

\* A driver that hangs never returns, and so promises nothing more.
LEMMA HangKeeps == ASSUME MmcInv, Hang PROVE MmcInv'
<1>1. /\ pc' = "hung" /\ UNCHANGED <<resp, info, call, card>>
      /\ upset \subseteq upset' /\ upset' \subseteq upset \cup {"data"}
      /\ faults' \in 0 .. MaxFaults /\ TypeInv
  BY MmcAssumption DEF Hang, MmcInv, TypeInv
<1>2. TypeInv'
  BY <1>1 DEF TypeInv, IsSd, Trap
<1>3. LearnInv'
  BY <1>1 DEF LearnInv
<1>4. RelyInv'
  <2>1. Place'
    BY <1>1 DEF Place
  <2> QED BY <1>1, <2>1, RelyKept
<1>5. CallInv'
  BY <1>1 DEF MmcInv, CallInv, SuccessIsRight, Transfer
<1> QED BY <1>2, <1>3, <1>4, <1>5 DEF MmcInv

-----------------------------------------------------------------------------
(* The card's own steps, and the theorems.                                 *)

LEMMA CardKeeps == ASSUME MmcInv, PowerUp \/ Pull \/ PutIn PROVE MmcInv'
<1>1. /\ UNCHANGED <<pc, cmd, resp, info, call>> /\ card \in Cards
      /\ ~card.in => card.state = "idle"
      /\ card.app => IsSd(card)
      /\ faults \in 0 .. MaxFaults /\ upset \subseteq Trap /\ card.kind \in Kinds
  BY DEF PowerUp, Pull, PutIn, MmcInv, TypeInv, Cards
<1>2. /\ card' \in Cards /\ card'.kind = card.kind /\ (~card'.in => card'.state = "idle")
      /\ card'.app => IsSd(card')
      /\ card'.state # "idle" => card'.state = card.state /\ card'.wide = card.wide
      /\ card'.state = card.state \/ card'.state = "idle"
  <2>1. CASE PowerUp
    <3>1. LET g == [card EXCEPT !.up = TRUE]
          IN  /\ g \in Cards /\ g.kind = card.kind /\ g.in = card.in /\ g.state = card.state
              /\ g.wide = card.wide /\ g.app = card.app
      BY <1>1 DEF Cards
    <3> QED BY <1>1, <2>1, <3>1 DEF PowerUp, IsSd
  <2>2. CASE Pull
    <3>1. LET g == [FreshCard(card.kind) EXCEPT !.in = FALSE]
          IN  /\ g \in Cards /\ g.kind = card.kind /\ g.state = "idle" /\ ~g.app
      BY <1>1 DEF FreshCard, Cards, CardStates
    <3> QED BY <2>2, <3>1 DEF Pull
  <2>3. CASE PutIn
    <3>1. /\ FreshCard(card.kind) \in Cards /\ FreshCard(card.kind).kind = card.kind
          /\ FreshCard(card.kind).state = "idle" /\ ~FreshCard(card.kind).app
      BY <1>1 DEF FreshCard, Cards, CardStates
    <3> QED BY <2>3, <3>1 DEF PutIn
  <2> QED BY <2>1, <2>2, <2>3
<1>3. /\ faults' \in 0 .. MaxFaults /\ upset \subseteq upset' /\ upset' \subseteq Trap
      /\ card'.state # card.state => "pulled" \in upset'
  <2>1. CASE PowerUp
    <3>1. [card EXCEPT !.up = TRUE].state = card.state
      BY <1>1 DEF Cards
    <3> QED BY <1>1, <2>1, <3>1 DEF PowerUp
  <2>2. CASE Pull
    BY <1>1, <2>2, MmcAssumption DEF Pull, Trap
  <2>3. CASE PutIn
    BY <1>1, <1>2, <2>3 DEF PutIn, FreshCard
  <2> QED BY <2>1, <2>2, <2>3
<1>4. TypeInv'
  BY <1>1, <1>2, <1>3 DEF MmcInv, TypeInv
<1>5. IsSd(card') = IsSd(card)
  BY <1>2 DEF IsSd
<1>6. LearnInv'
  BY <1>1, <1>2, <1>5 DEF MmcInv, LearnInv
<1>7. RelyInv'
  <2> SUFFICES ASSUME info.passed
               PROVE  /\ info.sd = IsSd(card')
                      /\ "csd" \notin upset' => /\ info.sd20 = (card'.kind = "sdhc")
                                                /\ info.blocks = Blocks
                      /\ "width" \notin upset' /\ card'.state # "idle" => info.wide = card'.wide
                      /\ upset' \subseteq {"data"} => Place'
    BY <1>1 DEF RelyInv
  <2>1. upset' \subseteq {"data"} /\ Place => Place'
    BY <1>1, <1>3 DEF Place
  <2> QED BY <1>2, <1>3, <1>5, <2>1 DEF MmcInv, RelyInv
<1>8. CallInv'
  <2>1. Addressed(card, Argument(call.addr))' = Addressed(card, Argument(call.addr))
    BY <1>1, <1>2 DEF Addressed, Argument
  <2>2. upset' \cap Unseen = {} => upset \cap Unseen = {}
    BY <1>3
  <2>3. Asked' = Asked
    BY <1>1 DEF Asked
  <2>4. SuccessIsRight'
    BY <1>1, <1>3 DEF MmcInv, CallInv, SuccessIsRight
  <2> QED BY <1>1, <1>3, <2>1, <2>2, <2>3, <2>4 DEF MmcInv, CallInv
<1> QED BY <1>4, <1>6, <1>7, <1>8 DEF MmcInv

LEMMA MmcInvInit == MmcInit => MmcInv
<1> SUFFICES ASSUME MmcInit PROVE MmcInv
  OBVIOUS
<1>1. PICK k \in Kinds : card = FreshCard(k)
  BY DEF MmcInit
<1>2. info \in Infos /\ ~info.passed
  BY MmcAssumption DEF MmcInit, Infos
<1>3. call \in Calls /\ call.ret = "none"
  BY MmcAssumption DEF MmcInit, NoCall, Calls, Ops
<1>4. card \in Cards /\ card.in /\ ~card.app
  BY <1>1 DEF FreshCard, Cards, CardStates
<1>5. TypeInv
  BY <1>2, <1>3, <1>4, MmcAssumption DEF MmcInit, TypeInv, Responses, Trap
<1> QED BY <1>2, <1>3, <1>5 DEF MmcInit, MmcInv, LearnInv, RelyInv, CallInv, SuccessIsRight, Transfer

LEMMA MmcInvStep == MmcInv /\ [MmcNext]_mmcVars => MmcInv'
<1> SUFFICES ASSUME MmcInv, [MmcNext]_mmcVars PROVE MmcInv'
  OBVIOUS
<1>1. CASE UNCHANGED mmcVars
  BY <1>1 DEF MmcInv, TypeInv, LearnInv, RelyInv, Place, CallInv, SuccessIsRight, Asked, IsSd,
     Addressed, Argument, mmcVars
<1>2. CASE Driver
  BY <1>2, InitStepKeeps, SelectKeeps, StepKeeps, MoveDataKeeps, DataEndsKeeps, StopKeeps,
     ProgEndsKeeps DEF Driver
<1>3. CASE MmcNext /\ ~Driver
  BY <1>3, InitializeKeeps, CallKeeps, HangKeeps, CardKeeps DEF MmcNext
<1> QED BY <1>1, <1>2, <1>3

LEMMA MmcInvariant == MmcSpec => []MmcInv
BY MmcInvInit, MmcInvStep, PTL DEF MmcSpec

\* The driver and the card keep their types, for every card size, every number
\* of tries and every number of faults.
THEOREM MmcTypeCorrect == MmcSpec => []MmcTypeOK
<1>1. MmcInv => MmcTypeOK
  BY DEF MmcInv, TypeInv, MmcTypeOK, Responses, Infos, Calls, Cards
<1> QED BY <1>1, MmcInvariant, PTL

\* After an initialisation that reports success (mmc_protocol.c, mmc_core.c) the
\* driver knows kind, addressing, size and bus width of the card, and between
\* calls the card waits for commands.
THEOREM CardsAreKnown == MmcSpec => []CardKnownAndFree
<1>1. MmcInv => CardKnownAndFree
  <2> SUFFICES ASSUME MmcInv, info.passed, pc = "idle", upset \subseteq {"data"}
               PROVE  /\ card.in /\ card.state = "tran"
                      /\ info.sd = IsSd(card) /\ info.sd20 = (card.kind = "sdhc")
                      /\ info.blocks = Blocks /\ info.wide = card.wide
    BY DEF CardKnownAndFree
  <2>1. card.state = "tran"
    BY DEF MmcInv, RelyInv, Place
  <2>2. "csd" \notin upset /\ "width" \notin upset
    OBVIOUS
  <2>3. card.in
    BY <2>1 DEF MmcInv, TypeInv
  <2> QED BY <2>1, <2>2, <2>3 DEF MmcInv, RelyInv
<1> QED BY <1>1, MmcInvariant, PTL

\* A transfer that mmc_api.c reports as done moved the blocks it was asked for,
\* whatever was lost before it and however the card is addressed.
THEOREM SuccessesAreRight == MmcSpec => []SuccessIsRight
<1>1. MmcInv => SuccessIsRight
  BY DEF MmcInv, CallInv
<1> QED BY <1>1, MmcInvariant, PTL

\* A card that the driver lost does not answer its data command, and the driver
\* does not go on to the data phase (mmc_hardware.c, _mmc_check_status).
THEOREM LostCardsAreNoticed == MmcSpec => LostCardIsNoticed
<1>1. [MmcNext]_mmcVars => [(pc = "move" /\ card.state # "tran") => pc' # "data"]_mmcVars
  <2> SUFFICES ASSUME [MmcNext]_mmcVars, pc = "move", card.state # "tran", pc' = "data"
               PROVE  FALSE
    OBVIOUS
  <2>1. MoveData
    BY DEF MmcNext, Driver, mmcVars, Initialize, Call, InitStep, SelectCard, Switch,
       BeforeWidth, SetBusWidth, SendStatus, SetBlocklen, Step, DataEnds, SwitchEnds, Stop,
       ProgEnds, Hang, PowerUp, Pull, PutIn
  <2> DEFINE a == Move(card, Argument(call.addr))
  <2>2. PICK o \in Outcomes(a) : Answered(o.resp) \/ Return("error")
    BY <2>1 DEF MoveData
  <2>3. a.resp = "none"
    BY DEF Move, Ignore
  <2> HIDE DEF a
  <2>4. o.resp = "none"
    BY <2>3 DEF Outcomes
  <2> QED BY <2>2, <2>4 DEF Answered, Return
<1> QED BY <1>1, PTL DEF MmcSpec, LostCardIsNoticed
=============================================================================
