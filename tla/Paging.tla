------------------------------- MODULE Paging -------------------------------
(***************************************************************************)
(* How a listing is cut into pages.  The listings of peers are read whole  *)
(* and cut in the gateway (page()); a board is cut by Redis, which is told *)
(* the first and the last rank as decimal numbers (ZREVRANGE).  The        *)
(* numbers of the request are unsigned and wrap at Width, those of Redis   *)
(* are signed, so a rank of Width/2 and more is refused with an error.     *)
(***************************************************************************)
EXTENDS Naturals, Integers, Sequences

CONSTANTS Width,      \* of std::size_t: 2^64
          Fallback,   \* kTopLimit: the limit of a request that names none
          Cap         \* kTopLimitMax: the largest limit a request is served under

ASSUME WidthAssumption == Width \in Nat \ {0}

(* kTopLimit and kTopLimitMax are small against what Redis can count. *)
ASSUME LimitAssumption ==
    /\ Fallback \in 1 .. Cap
    /\ Cap \in Nat
    /\ 2 * Cap < Width

Word == 0 .. Width - 1

Smaller(a, b) == IF a < b THEN a ELSE b

-----------------------------------------------------------------------------
(* The text of a parameter: named or not, and if it is a number, which one. *)
Text(value) == [named |-> TRUE, count |-> TRUE, value |-> value]
Garbage == [named |-> TRUE, count |-> FALSE, value |-> 0]
Absent == [named |-> FALSE, count |-> FALSE, value |-> 0]

(* count_of: from_chars fails on anything but digits and on a number that   *)
(* does not fit.                                                            *)
IsCount(text) == text.count /\ text.value \in Word

(* parseParams, of a listing: 400 for what is named and is not a count, a   *)
(* fallback for the limit, a clamp over it.  A limit of 0 is a limit.       *)
ParseParams(offset, limit) ==
    [status |-> IF \A text \in {offset, limit} : text.named => IsCount(text) THEN 200 ELSE 400,
     offset |-> IF IsCount(offset) THEN offset.value ELSE 0,
     limit  |-> Smaller(IF limit.named THEN limit.value ELSE Fallback, Cap)]

-----------------------------------------------------------------------------
(* page(): the entries behind the offset, at most limit, all of them for 0. *)
Page(all, offset, limit) ==
    IF offset >= Len(all)
    THEN <<>>
    ELSE LET left == Len(all) - offset
         IN  SubSeq(all, offset + 1, offset + IF limit = 0 THEN left ELSE Smaller(limit, left))

StopBehind(offset, limit) == IF limit = 0 THEN 0 - 1 ELSE (offset + limit) % Width

(* The last rank RedisQuery::top asks for: -1 is the last member.           *)
Stop(offset, limit) == IF limit = 0 THEN 0 - 1 ELSE (offset + limit - 1) % Width

(* ZREVRANGE over the members in the order it lists them: ranks count from  *)
(* 0, negative ones from the end; it refuses what is no signed number.      *)
Signed(rank) == 2 * rank < Width

ZRange(all, start, stop) ==
    LET last == IF stop < 0 THEN Len(all) + stop ELSE stop
    IN  IF start > last \/ start >= Len(all)
        THEN <<>>
        ELSE SubSeq(all, start + 1, Smaller(last, Len(all) - 1) + 1)

(* RedisQuery::top, its second command: an error reply is a failed read,    *)
(* which the service answers with 503.                                      *)
TopServed(offset, limit) == Signed(offset) /\ Signed(Stop(offset, limit))

TopPage(all, offset, limit) == ZRange(all, offset, Stop(offset, limit))

-----------------------------------------------------------------------------
(* The Pager of the web pages: the offset of the last page of count entries,*)
(* and where "next" goes from a page that is not the last.                  *)
LastOffset(count, limit) == IF count = 0 THEN 0 ELSE ((count - 1) \div limit) * limit

NextBehind(offset, count, limit) == Smaller(LastOffset(count, limit), offset + limit + 1)

NextOffset(offset, count, limit) == Smaller(LastOffset(count, limit), offset + limit)

=============================================================================
