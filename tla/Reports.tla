------------------------------ MODULE Reports ------------------------------
(***************************************************************************)
(* From batches to answers: AggregateSink consumes batches on several      *)
(* threads, the store lands each of them as BatchLedger promises, and the  *)
(* gateway answers queries over what has landed.  One reader walks a       *)
(* listing page by page, the way the web pages do, while batches land.     *)
(*                                                                         *)
(* The store is one function from cells to numbers (Aggregate); a board is *)
(* read in two commands, every other listing in one.                       *)
(***************************************************************************)
EXTENDS Aggregate, Paging

CONSTANTS Batches,    \* the batches of call records, a sequence of sequences
          Workers,    \* bound: batches on their way to the store at once
          MaxTails,   \* bound: batches that land without their first commands
          Subjects,   \* the listings the reader may walk: <<"top", board>>,
                      \* <<"peers", msisdn>>, <<"dur", msisdn>>, <<"sms", msisdn>>
          PageSize    \* the page size of the browser's settings

ASSUME ReportsAssumption ==
    /\ Batches \in Seq(Seq(CallRecord))
    /\ Workers \in Nat \ {0}
    /\ MaxTails \in Nat
    /\ \A subject \in Subjects : \/ subject \in {"top"} \X BoardNames
                                 \/ subject \in {"peers", "dur", "sms"} \X Nat
    /\ PageSize \in Word \ {0}

(* Who occurs in the batches: subscribers, second parties, operators.       *)
NamesSeen ==
    UNION {UNION {{r.subscriberMSISDN, r.secondPartyMSISDN, Operator(r)} : r \in ToSet(batch)} :
              batch \in ToSet(Batches)}

(* They and a page are few against what Redis can count.                    *)
ASSUME NamesAssumption == 2 * (Cardinality(NamesSeen) + PageSize) <= Width

VARIABLES
    store,    \* what Redis holds: a number per cell that was ever written
    merged,   \* RunTotals of the process
    stage,    \* per batch: new, merged (being written), whole, tail, lost
    reader    \* the walk over one listing

vars == <<store, merged, stage, reader>>

Idle == [phase |-> "idle"]

-----------------------------------------------------------------------------
(* The commands of every batch, and what a sequence of commands makes of    *)
(* the store: HINCRBY and ZINCRBY add to what is there or make it.          *)
CommandsOf == [b \in DOMAIN Batches |-> Commands(Batches[b])]
TotalsOfBatch == [b \in DOMAIN Batches |-> TotalsOf(Batches[b])]

AddAll(old, new) == [c \in DOMAIN old \cup DOMAIN new |-> At(old, c) + At(new, c)]

Init ==
    /\ store = <<>>
    /\ merged = <<>>
    /\ stage = [b \in DOMAIN Batches |-> "new"]
    /\ reader = Idle

InStage(s) == {b \in DOMAIN Batches : stage[b] = s}

MergeUnlessBusy(b) ==
    /\ stage[b] = "new" /\ \A earlier \in 1 .. b - 1 : stage[earlier] # "new"
    /\ Cardinality(InStage("merged")) < Workers
    /\ stage' = [stage EXCEPT ![b] = "merged"]
    /\ merged' = IF InStage("merged") = {} THEN AddAll(merged, TotalsOfBatch[b]) ELSE merged
    /\ UNCHANGED <<store, reader>>

(* Batches are handed out in order.                                         *)
(* consume() up to its first command: the batch is folded, and its totals   *)
(* are in those of the run before anything of it is written.                *)
Merge(b) ==
    /\ stage[b] = "new" /\ \A earlier \in 1 .. b - 1 : stage[earlier] # "new"
    /\ Cardinality(InStage("merged")) < Workers
    /\ stage' = [stage EXCEPT ![b] = "merged"]
    /\ merged' = AddAll(merged, TotalsOfBatch[b])
    /\ UNCHANGED <<store, reader>>

(* A landing that falls between the two commands of a page is noted.        *)
Stirred == IF reader.phase = "idle" THEN reader
           ELSE [reader EXCEPT !.stirred = TRUE, !.split = @ \/ reader.phase = "counted"]

Apply(b, from) ==
    /\ store' = AddAll(store, Summed(SubSeq(CommandsOf[b], from, Len(CommandsOf[b]))))
    /\ reader' = Stirred
    /\ UNCHANGED merged

(* The rest of consume(), as the store keeps it: the batch lands whole,     *)
(* from some later command on, or not at all.                               *)
Land(b) ==
    /\ stage[b] = "merged"
    /\ stage' = [stage EXCEPT ![b] = "whole"]
    /\ Apply(b, 1)

LandTail(b) ==
    /\ stage[b] = "merged"
    /\ Cardinality(InStage("tail")) < MaxTails
    /\ stage' = [stage EXCEPT ![b] = "tail"]
    /\ \E from \in 2 .. Len(CommandsOf[b]) : Apply(b, from)

Lose(b) ==
    /\ stage[b] = "merged"
    /\ stage' = [stage EXCEPT ![b] = "lost"]
    /\ UNCHANGED <<store, merged, reader>>

-----------------------------------------------------------------------------
(* The services.  An empty hash is one that does not exist, 404; field_num  *)
(* reads a field that is not there as 0.                                    *)
Hash(kind, key) == {c \in DOMAIN store : c[1] = kind /\ c[2] = key}

Msisdn(msisdn) ==
    LET num(field) == At(store, Sub(msisdn, field))
    IN  [status |-> IF Hash("sub", msisdn) = {} THEN 404 ELSE 200,
         voice |-> <<num("voice_out"), num("voice_in")>>,
         data  |-> <<num("data_tx"), num("data_rx")>>,
         sms   |-> <<num("sms_out"), num("sms_in")>>,
         fail  |-> <<num("noans"), num("busy"), num("failed")>>]

OpAnswer(mccmnc) ==
    LET num(field) == At(store, Op(mccmnc, field))
    IN  [status |-> IF Hash("op", mccmnc) = {} THEN 404 ELSE 200,
         voice |-> <<num("voice_out"), num("voice_in")>>,
         sms   |-> <<num("sms_out"), num("sms_in")>>]

Metrics == {"dur", "sms", "cnt"}

LinkAnswer(first, second) ==
    [status |-> IF \A metric \in Metrics : Link(first, second, metric) \notin DOMAIN store
                THEN 404 ELSE 200,
     edge   |-> [metric \in Metrics |-> At(store, Link(first, second, metric))]]

(* StatsService::totals reads every field, StatsService::health the keys.   *)
TotalFields ==
    {"records", "moc_cnt", "mtc_cnt", "sms_mo_cnt", "sms_mt_cnt", "data_cnt", "noans_cnt",
     "busy_cnt", "failed_cnt", "moc_dur", "mtc_dur", "data_dur", "data_rx", "data_tx"}

TotalsAnswer == [field \in TotalFields |-> At(store, Total(field))]

(* link_peers cuts the names of the fields back to the peer: each peer once.*)
Peers(owner) == {c[4] : c \in Hash("link", owner)}

-----------------------------------------------------------------------------
(* The listings in the order they go out.  Members are compared as text,    *)
(* which for one-digit names is as numbers.                                 *)

(* S from the first to the last: before is the set of the pairs in order.   *)
InOrder(S, before) ==
    [i \in 1 .. Cardinality(S) |->
        CHOOSE m \in S : Cardinality({x \in S : <<x, m>> \in before}) = i - 1]

(* ZREVRANGE: the highest score first, ties by name, the last one first.    *)
OnBoard(board) == {c[4] : c \in {d \in DOMAIN store : d[1] = "top" /\ d[3] = board}}

Higher(board) ==
    LET score(m) == store[Score(board, m)]
    IN  {p \in OnBoard(board) \X OnBoard(board) :
            \/ score(p[1]) > score(p[2])
            \/ score(p[1]) = score(p[2]) /\ p[1] > p[2]}

Board(board) == InOrder(OnBoard(board), Higher(board))

LighterFirst(owner, sort) ==
    LET w(m) == At(store, Link(owner, m, sort))
    IN  {p \in Peers(owner) \X Peers(owner) : w(p[1]) < w(p[2]) \/ (w(p[1]) = w(p[2]) /\ p[1] < p[2])}

(* order_peers: by one metric, ties by the other, then by name.             *)
Heavier(owner, sort) ==
    LET tie == IF sort = "dur" THEN "sms" ELSE "dur"
        w(m) == At(store, Link(owner, m, sort))
        t(m) == At(store, Link(owner, m, tie))
    IN  {p \in Peers(owner) \X Peers(owner) :
            \/ w(p[1]) > w(p[2])
            \/ w(p[1]) = w(p[2]) /\ t(p[1]) > t(p[2])
            \/ w(p[1]) = w(p[2]) /\ t(p[1]) = t(p[2]) /\ p[1] < p[2]}

ByWeight(owner, sort) == InOrder(Peers(owner), Heavier(owner, sort))

ByName(owner) == InOrder(Peers(owner), {p \in Peers(owner) \X Peers(owner) : p[1] < p[2]})

Listing(subject) ==
    CASE subject[1] = "top"   -> Board(subject[2])
      [] subject[1] = "peers" -> ByName(subject[2])
      [] OTHER                -> ByWeight(subject[2], subject[1])

(* What a member is listed with: its score, the weights of its link, or     *)
(* nothing in the plain listing of peers.                                   *)
ListedWith(subject, m) ==
    CASE subject[1] = "top"   -> <<store[Score(subject[2], m)]>>
      [] subject[1] = "peers" -> <<>>
      [] OTHER                -> <<At(store, Link(subject[2], m, "dur")),
                                   At(store, Link(subject[2], m, "sms"))>>

-----------------------------------------------------------------------------
(* A reader opens a listing; the request it sends names the page size.      *)
Open(subject) ==
    /\ reader.phase = "idle"
    /\ reader' = [phase |-> "ask", subject |-> subject, offset |-> 0, count |-> 0, shown |-> <<>>,
                  at_start |-> [m \in ToSet(Listing(subject)) |-> ListedWith(subject, m)],
                  stirred |-> FALSE, split |-> FALSE]
    /\ UNCHANGED <<store, merged, stage>>

Request == ParseParams(Text(reader.offset), Text(PageSize))

Show(all, page, count) ==
    reader' = [reader EXCEPT !.phase = "shown", !.count = count, !.shown = @ \o page]

(* QueryService::peers and weighted: the whole hash is read and cut.        *)
AskPeers ==
    /\ reader.phase = "ask" /\ reader.subject[1] # "top"
    /\ LET all == Listing(reader.subject)
       IN  Show(all, Page(all, Request.offset, Request.limit), Len(all))
    /\ UNCHANGED <<store, merged, stage>>

(* RedisQuery::top: the size of the board first, then the page.             *)
AskCount ==
    /\ reader.phase = "ask" /\ reader.subject[1] = "top"
    /\ reader' = [reader EXCEPT !.phase = "counted", !.count = Len(Listing(reader.subject))]
    /\ UNCHANGED <<store, merged, stage>>

AskRange ==
    /\ reader.phase = "counted"
    /\ LET all == Listing(reader.subject)
       IN  Show(all, TopPage(all, Request.offset, Request.limit), reader.count)
    /\ UNCHANGED <<store, merged, stage>>

(* The connection is lost in front of the second command: 503, no page, and *)
(* the reader asks for the same page again.                                 *)
RangeFails ==
    /\ reader.phase = "counted"
    /\ reader' = [reader EXCEPT !.phase = "ask"]
    /\ UNCHANGED <<store, merged, stage>>

AtEnd == reader.phase = "shown" /\ reader.offset >= LastOffset(reader.count, PageSize)

(* The "next" button, dead on the last page.                                *)
NextPage ==
    /\ reader.phase = "shown" /\ ~AtEnd
    /\ reader' = [reader EXCEPT !.phase = "ask", !.offset = NextOffset(@, reader.count, PageSize)]
    /\ UNCHANGED <<store, merged, stage>>

Close ==
    /\ AtEnd
    /\ reader' = Idle
    /\ UNCHANGED <<store, merged, stage>>

Next ==
    \/ \E b \in DOMAIN Batches : Merge(b) \/ Land(b) \/ LandTail(b) \/ Lose(b)
    \/ \E subject \in Subjects : Open(subject)
    \/ AskPeers
    \/ AskCount
    \/ AskRange
    \/ RangeFails
    \/ NextPage
    \/ Close

Spec == Init /\ [][Next]_vars
-----------------------------------------------------------------------------
NoTails == InStage("tail") = {}

Sum(kind, field) == SumOver(store, {c \in DOMAIN store : c[1] = kind /\ c[3] = field})

(* A board and the report of its member agree (rank_writer.cpp writes the   *)
(* one, aggregate_writer.cpp the other): a score is the sum of what the     *)
(* member's own page shows.  Boards are queued ahead of the counters, so a  *)
(* batch that lost its first commands leaves a score short and never too    *)
(* high: whoever a board lists is found under its own page.                 *)
SumsTo(score, shown) ==
    LET sum == SumOver(shown, DOMAIN shown)
    IN  score <= sum /\ (NoTails => score = sum)

BoardsMatch ==
    /\ \A m \in Members(store, "sub") :
        /\ SumsTo(At(store, Score("voice", m)), Msisdn(m).voice)
        /\ SumsTo(At(store, Score("sms", m)), Msisdn(m).sms)
        /\ SumsTo(At(store, Score("data", m)), Msisdn(m).data)
        /\ SumsTo(At(store, Score("fail", m)), Msisdn(m).fail)
    /\ \A m \in Members(store, "op") :
        /\ SumsTo(At(store, Score("op-voice", m)), OpAnswer(m).voice)
        /\ SumsTo(At(store, Score("op-sms", m)), OpAnswer(m).sms)

(* A link reads the same from both ends (aggregator.cpp:85-93), also that   *)
(* of a subscriber to itself.                                               *)
LinksMirror ==
    \A c \in DOMAIN store :
        c[1] = "link" => LinkAnswer(c[2], c[4]) = LinkAnswer(c[4], c[2])

(* The sums of a batch cover each other: a record is of one type in the     *)
(* totals, no subscriber field exceeds its total (records without a         *)
(* subscriber are in the totals only), no operator field the subscribers'   *)
(* (an IMSI may name no operator), and each call with two parties is in two *)
(* links, one from either end.                                              *)
TotalsCover ==
    /\ TotalsAnswer["records"] =
           SumOver(TotalsAnswer, {"moc_cnt", "mtc_cnt", "sms_mo_cnt", "sms_mt_cnt", "data_cnt",
                                  "noans_cnt", "busy_cnt", "failed_cnt"})
    /\ \A pair \in {<<"voice_out", "moc_dur">>, <<"voice_in", "mtc_dur">>,
                     <<"sms_out", "sms_mo_cnt">>, <<"sms_in", "sms_mt_cnt">>,
                     <<"data_rx", "data_rx">>, <<"data_tx", "data_tx">>,
                     <<"noans", "noans_cnt">>, <<"busy", "busy_cnt">>,
                     <<"failed", "failed_cnt">>} :
           Sum("op", pair[1]) <= Sum("sub", pair[1]) /\ Sum("sub", pair[1]) <= TotalsAnswer[pair[2]]
    /\ Sum("link", "cnt") <= 2 * (TotalsAnswer["moc_cnt"] + TotalsAnswer["mtc_cnt"])
    /\ Sum("link", "sms") <= 2 * (TotalsAnswer["sms_mo_cnt"] + TotalsAnswer["sms_mt_cnt"])
    /\ Sum("link", "dur") <= 2 * (Sum("sub", "voice_out") + Sum("sub", "voice_in"))

(* Unless a batch lost its first commands, the reports add up: the sums     *)
(* fold() makes by subscriber, operator and pair and those of the totals    *)
(* are made by separate switches over the same records (aggregator.cpp:25,  *)
(* :54, totals.cpp:33).                                                     *)
ReportsAddUp == NoTails => LinksMirror /\ TotalsCover

(* What the process logs when it stops covers what it stored, and is that   *)
(* when nothing is on its way and no batch was lost or torn.                *)
LogCoversStore ==
    \A field \in TotalFields :
        /\ TotalsAnswer[field] <= At(merged, Total(field))
        /\ InStage("merged") \cup InStage("lost") \cup InStage("tail") = {} =>
               TotalsAnswer[field] = At(merged, Total(field))

(* Redis cuts a board as page() would: whatever offset and limit a request  *)
(* names, unless Redis refuses the ranks (redis_query.cpp:155).             *)
Numbers == {Text(n) : n \in 0 .. Width} \cup {Garbage, Absent}

RedisPageIsPage ==
    reader.phase = "counted" =>
        LET all == Board(reader.subject[2])
        IN  \A offset \in Numbers, limit \in Numbers :
                LET request == ParseParams(offset, limit)
                IN  request.status = 200 /\ TopServed(request.offset, request.limit) =>
                        TopPage(all, request.offset, request.limit) =
                            Page(all, request.offset, request.limit)

(* A walk over a listing nothing is added to meanwhile shows it whole, in   *)
(* order and once.                                                          *)
StillWalkIsExact ==
    AtEnd /\ ~reader.stirred => reader.shown = Listing(reader.subject)

(* A walk under ingestion may show a member twice, but misses none whose    *)
(* place did not rise: everybody listed at the start with the weight it has *)
(* now was shown.  Not so when a batch lands between the size of a board    *)
(* and its page (redis_query.cpp:144): the last page is then taken to be    *)
(* nearer than it is.                                                       *)
WalkMissesNoStayer ==
    AtEnd /\ ~reader.split =>
        \A m \in DOMAIN reader.at_start :
            reader.at_start[m] = ListedWith(reader.subject, m) => m \in ToSet(reader.shown)
=============================================================================
