----------------------------- MODULE Aggregate -----------------------------
(***************************************************************************)
(* What one batch of call records becomes: Aggregator::fold sums it up by  *)
(* subscriber, operator and pair, Totals::add over the whole batch, the    *)
(* writers turn the sums into increments of the fields of Redis hashes and *)
(* the scores of its boards.                                               *)
(*                                                                         *)
(* A cell is one number of the store: <<kind, key, field, of>>, where "of" *)
(* is the peer of a link or the member of a board.  Sums are natural       *)
(* numbers: what a 64 bit counter does at its end is left out.             *)
(***************************************************************************)
EXTENDS Naturals, Sequences, FiniteSets, SequencesExt

CONSTANT MsinDivisor   \* kMsinDivisor: what is left of an IMSI is the operator

ASSUME DivisorAssumption == MsinDivisor \in Nat \ {0}

Sub(msisdn, field) == <<"sub", msisdn, field, 0>>
Op(mccmnc, field) == <<"op", mccmnc, field, 0>>
Link(owner, peer, metric) == <<"link", owner, metric, peer>>
Total(field) == <<"total", 0, field, 0>>
Score(board, member) == <<"top", 0, board, member>>

Plus(cell, by) == [cell |-> cell, by |-> by]

UsageTypes == {"MOC", "MTC", "SMS_MO", "SMS_MT", "D", "U", "B", "X"}

(* What is read of a CdrRecord; an absent second party is 0.                *)
CallRecord == [usageType : UsageTypes,
               subscriberMSISDN : Nat, subscriberImsi : Nat, secondPartyMSISDN : Nat,
               duration : Nat, bytesReceived : Nat, bytesTransmitted : Nat]

Operator(r) == r.subscriberImsi \div MsinDivisor

-----------------------------------------------------------------------------
TrafficFallsThrough(r) ==
    CASE r.usageType = "MOC"    -> <<<<"voice_out", r.duration>>, <<"voice_in", r.duration>>>>
      [] r.usageType = "MTC"    -> <<<<"voice_in", r.duration>>>>
      [] r.usageType = "SMS_MO" -> <<<<"sms_out", 1>>>>
      [] r.usageType = "SMS_MT" -> <<<<"sms_in", 1>>>>
      [] OTHER                  -> <<>>

(* The traffic both a subscriber and its operator are summed up by.         *)
Traffic(r) ==
    CASE r.usageType = "MOC"    -> <<<<"voice_out", r.duration>>>>
      [] r.usageType = "MTC"    -> <<<<"voice_in", r.duration>>>>
      [] r.usageType = "SMS_MO" -> <<<<"sms_out", 1>>>>
      [] r.usageType = "SMS_MT" -> <<<<"sms_in", 1>>>>
      [] OTHER                  -> <<>>

(* What a subscriber alone is summed up by.                                 *)
Other(r) ==
    CASE r.usageType = "D" -> <<<<"data_rx", r.bytesReceived>>, <<"data_tx", r.bytesTransmitted>>>>
      [] r.usageType = "U" -> <<<<"noans", 1>>>>
      [] r.usageType = "B" -> <<<<"busy", 1>>>>
      [] r.usageType = "X" -> <<<<"failed", 1>>>>
      [] OTHER             -> <<>>

(* Aggregator::addLink: the link is kept from both ends, which for a call   *)
(* to oneself are the same entry, added to twice.                           *)
OneWay(a, b, dur, sms, cnt) ==
    <<Plus(Link(a, b, "dur"), dur), Plus(Link(a, b, "sms"), sms), Plus(Link(a, b, "cnt"), cnt)>>

AddLink(a, b, dur, sms, cnt) ==
    IF b = 0 THEN <<>> ELSE OneWay(a, b, dur, sms, cnt) \o OneWay(b, a, dur, sms, cnt)

LinkOf(r) ==
    CASE r.usageType \in {"MOC", "MTC"} ->
            AddLink(r.subscriberMSISDN, r.secondPartyMSISDN, r.duration, 0, 1)
      [] r.usageType \in {"SMS_MO", "SMS_MT"} ->
            AddLink(r.subscriberMSISDN, r.secondPartyMSISDN, 0, 1, 0)
      [] OTHER -> <<>>

(* One turn of the loop of Aggregator::fold: a record without a subscriber  *)
(* is skipped, an IMSI too short to hold an operator counts for none.       *)
FoldRecord(r) ==
    LET sub == [i \in DOMAIN (Traffic(r) \o Other(r)) |->
                    LET t == (Traffic(r) \o Other(r))[i] IN Plus(Sub(r.subscriberMSISDN, t[1]), t[2])]
        op  == [i \in DOMAIN Traffic(r) |-> Plus(Op(Operator(r), Traffic(r)[i][1]), Traffic(r)[i][2])]
    IN  IF r.subscriberMSISDN = 0
        THEN <<>>
        ELSE sub \o (IF Operator(r) = 0 THEN <<>> ELSE op) \o LinkOf(r)

(* Totals::add of one record, without a subscriber too.                     *)
CountOf(usage) ==
    CASE usage = "MOC" -> "moc_cnt" [] usage = "MTC" -> "mtc_cnt"
      [] usage = "SMS_MO" -> "sms_mo_cnt" [] usage = "SMS_MT" -> "sms_mt_cnt"
      [] usage = "D" -> "data_cnt" [] usage = "U" -> "noans_cnt"
      [] usage = "B" -> "busy_cnt" [] usage = "X" -> "failed_cnt"

TotalsRecord(r) ==
    <<Plus(Total("records"), 1), Plus(Total(CountOf(r.usageType)), 1)>> \o
    CASE r.usageType = "MOC" -> <<Plus(Total("moc_dur"), r.duration)>>
      [] r.usageType = "MTC" -> <<Plus(Total("mtc_dur"), r.duration)>>
      [] r.usageType = "D"   -> <<Plus(Total("data_dur"), r.duration),
                                  Plus(Total("data_rx"), r.bytesReceived),
                                  Plus(Total("data_tx"), r.bytesTransmitted)>>
      [] OTHER -> <<>>

-----------------------------------------------------------------------------
SumOver(weight, S) == MapThenSumSet(LAMBDA x : weight[x], S)

(* Sums by cell: a cell nothing was added to is not in the domain, and one  *)
(* of which nothing but zeros were added holds a zero, like an entry of the *)
(* unordered maps.                                                          *)
Summed(additions) ==
    [c \in {x.cell : x \in ToSet(additions)} |->
        SumOver([i \in DOMAIN additions |-> IF additions[i].cell = c THEN additions[i].by ELSE 0],
                DOMAIN additions)]

(* Aggregator::fold and Totals::add of a batch. *)
Fold(batch) == Summed(FlattenSeq([i \in DOMAIN batch |-> FoldRecord(batch[i])]))
TotalsOf(batch) == Summed(FlattenSeq([i \in DOMAIN batch |-> TotalsRecord(batch[i])]))

(* The value of a cell, 0 when there is none: an absent hash field.         *)
At(cells, c) == IF c \in DOMAIN cells THEN cells[c] ELSE 0

-----------------------------------------------------------------------------
(* RankWriter::write: one score per board and member of the delta, the sum  *)
(* of the fields the board ranks by.                                        *)
SubBoards == {"voice", "sms", "data", "fail"}
OpBoards == {"op-voice", "op-sms"}
BoardNames == SubBoards \cup OpBoards

RanksWithoutFailed(board) ==
    CASE board \in {"voice", "op-voice"} -> {"voice_out", "voice_in"}
      [] board \in {"sms", "op-sms"}     -> {"sms_out", "sms_in"}
      [] board = "data"                  -> {"data_rx", "data_tx"}
      [] board = "fail"                  -> {"noans", "busy"}

RanksBy(board) ==
    CASE board \in {"voice", "op-voice"} -> {"voice_out", "voice_in"}
      [] board \in {"sms", "op-sms"}     -> {"sms_out", "sms_in"}
      [] board = "data"                  -> {"data_rx", "data_tx"}
      [] board = "fail"                  -> {"noans", "busy", "failed"}

Members(delta, kind) == {c[2] : c \in {d \in DOMAIN delta : d[1] = kind}}

Boards(delta) ==
    LET kind(board) == IF board \in SubBoards THEN "sub" ELSE "op"
        scores == (SubBoards \X Members(delta, "sub")) \cup (OpBoards \X Members(delta, "op"))
    IN  [c \in {Score(s[1], s[2]) : s \in scores} |->
            SumOver([field \in RanksBy(c[3]) |-> At(delta, <<kind(c[3]), c[4], field, 0>>)],
                    RanksBy(c[3]))]

(* The writers' add(): a zero costs no command.  The order inside one part  *)
(* is that of a hash map, which is any.                                     *)
InAnyOrder(cells) ==
    LET nonzero == {c \in DOMAIN cells : cells[c] # 0}
    IN  FoldSet(LAMBDA c, commands : Append(commands, Plus(c, cells[c])), <<>>, nonzero)

(* consume(), the mark apart: the totals, the boards, the counters.         *)
Commands(batch) ==
    InAnyOrder(TotalsOf(batch)) \o InAnyOrder(Boards(Fold(batch))) \o InAnyOrder(Fold(batch))
=============================================================================
