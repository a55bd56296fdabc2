----------------------------- MODULE RedisStore -----------------------------
(***************************************************************************)
(* One thread that writes batches to Redis: AggregateSink::consume issues  *)
(* the commands of a batch in a fixed order, RedisStore pipelines them     *)
(* inside one MULTI ... EXEC, RedisConn holds the thread's connection.     *)
(*                                                                         *)
(* All state of the store is thread_local, so the threads of the program   *)
(* meet only in the server, which applies a transaction atomically: one    *)
(* thread is modelled, with a server that may refuse a command, run it and *)
(* fail, drop the connection at any read, or apply a transaction after     *)
(* the client gave it up.                                                  *)
(***************************************************************************)
EXTENDS Naturals, Sequences

CONSTANTS NTotals,      \* non-zero counters of the batch's Totals
          NRanks,       \* non-zero scores of its boards
          NCounters,    \* non-zero counters of its Delta
          Depth,        \* kRedisPipelineDepth
          MaxBatches    \* bound: batches consumed in one behaviour

ASSUME SizeAssumption ==
    /\ NTotals \in Nat \ {0}   \* a consumed batch holds a record
    /\ NRanks \in Nat
    /\ NCounters \in Nat
    /\ MaxBatches \in Nat

ASSUME DepthAssumption == Depth \in Nat \ {0, 1}

VARIABLES
    conn,        \* this thread's context: none, good, or broken (ctx->err is set)
    open_batch,  \* a MULTI was queued that no EXEC closed yet
    queued,      \* commands queued and not drained, as the client counts them
    pending,     \* replies the connection still owes, as the wire counts them
    txn,         \* commands behind the MULTI the server was or will be sent
    dirty,       \* the server refused one of them: EXEC will abort
    pc,          \* where the thread is: ready, send (a command is next), drain
    batch,       \* batches begun
    marked,      \* the batch names its source, so it carries a mark
    pos,         \* the command of the batch that is issued next
    ok,          \* what the calls of this consume() returned, conjoined
    ledger,      \* transactions the server applied, in that order
    late,        \* transactions given up by the client that the server may still apply
    progress,    \* the server's progress field: the batch last marked, 0 if none
    answer       \* what resume_at last returned

client == <<conn, open_batch, queued, pending, txn, dirty>>
sink   == <<pc, batch, marked, pos, ok>>
server == <<ledger, late, progress>>
vars   == <<client, sink, server, answer>>

-----------------------------------------------------------------------------
(* The order consume() issues a batch in: run totals, mark, boards, delta. *)

N == NTotals + 1 + NRanks + NCounters

MarkLast == N
MarkAt == NTotals + 1

RankAt == {i \in 1 .. N : i > MarkAt /\ i <= MarkAt + NRanks}

(* What a batch writes after its run totals, the mark apart. *)
BoardsAndCounters == {i \in 1 .. N : i > NTotals /\ i # MarkAt}

After(p) == IF p + 1 = MarkAt /\ ~marked THEN p + 2 ELSE p + 1

Commands(m) == {i \in 1 .. N : i = MarkAt => m}

-----------------------------------------------------------------------------
Entry(failed) == [batch |-> batch, cmds |-> txn, failed |-> failed]

Applied(old, e) == IF MarkAt \in e.cmds \ e.failed THEN e.batch ELSE old

Apply(e) ==
    /\ ledger' = Append(ledger, e)
    /\ progress' = Applied(progress, e)

Entries == [batch : 1 .. MaxBatches, cmds : SUBSET (1 .. N), failed : SUBSET (1 .. N)]

Init ==
    /\ conn = "none" /\ open_batch = FALSE /\ queued = 0 /\ pending = 0
    /\ txn = {} /\ dirty = FALSE
    /\ pc = "ready" /\ batch = 0 /\ marked = FALSE /\ pos = 1 /\ ok = TRUE
    /\ ledger = <<>> /\ late = {} /\ progress = 0
    /\ answer = 0

-----------------------------------------------------------------------------
(* RedisConn::get: a good context is kept; any other is dropped and a       *)
(* connect is tried, which fails while the server is away, and is not even  *)
(* tried until the backoff has passed.                                      *)
Get == IF conn = "good" THEN {"good"} ELSE {"good", "none"}

(* AggregateSink::consume begins; a rabbit batch names no source. *)
Consume(m) ==
    /\ pc = "ready" /\ batch < MaxBatches
    /\ pc' = "send" /\ batch' = batch + 1 /\ marked' = m /\ pos' = 1 /\ ok' = TRUE
    /\ UNCHANGED <<client, server, answer>>

(* batch(): the first command on a connection goes out behind a MULTI. *)
FirstOnly(inBatch) == pos = 1
NeedsMulti(inBatch) == ~inBatch

NeverFull(count) == FALSE
Full(count) == count >= Depth

(* batch(), then the append: what was queued on a broken context is         *)
(* forgotten with it, a command without a connection is skipped.  A command *)
(* that reaches a server outside any MULTI is applied on its own.           *)
Queue(drains) ==
    LET kept    == conn = "good"
        inBatch == conn # "broken" /\ open_batch
        multi   == NeedsMulti(inBatch)
        added   == IF multi THEN 2 ELSE 1
        inMulti == multi \/ (kept /\ txn # {})
    IN  /\ pc = "send"
        /\ pos' = After(pos)
        /\ \E c \in Get :
            /\ conn' = c
            /\ IF c = "good"
               THEN /\ queued' = (IF conn = "broken" THEN 0 ELSE queued) + added
                    /\ pending' = (IF kept THEN pending ELSE 0) + added
                    /\ open_batch' = TRUE
                    /\ txn' = IF inMulti THEN (IF kept THEN txn ELSE {}) \cup {pos} ELSE {}
                    /\ dirty' = (kept /\ dirty)
                    /\ pc' = IF drains /\ Full(queued') THEN "drain" ELSE "send"
                    /\ ok' = ok
                    /\ IF inMulti THEN UNCHANGED <<ledger, progress>>
                       ELSE Apply([batch |-> batch, cmds |-> {pos}, failed |-> {}])
               ELSE /\ queued' = (IF conn = "broken" THEN 0 ELSE queued)
                    /\ pending' = 0
                    /\ open_batch' = inBatch
                    /\ txn' = {} /\ dirty' = FALSE /\ ok' = FALSE
                    /\ UNCHANGED <<pc, ledger, progress>>
        /\ UNCHANGED <<batch, marked, late, answer>>

Increment == pos \in 1 .. N \ (RankAt \cup {MarkAt}) /\ Queue(TRUE)
Rank      == pos \in RankAt /\ Queue(TRUE)
Mark      == pos = MarkAt /\ Queue(FALSE)   \* mark() never drains

-----------------------------------------------------------------------------
(* flush(), which ends every consume(): EXEC closes an open batch and the   *)
(* replies are drained; with no open batch there is nothing left to drain.  *)
ReplyUncounted(count) == count
WithExec(count) == count + 1

Flush ==
    /\ pc = "send" /\ pos > N
    /\ open_batch' = FALSE
    /\ IF open_batch
       THEN IF conn = "good"
            THEN /\ queued' = WithExec(queued) /\ pending' = pending + 1
                 /\ pc' = "drain" /\ ok' = ok
            ELSE /\ queued' = 0 /\ pc' = "ready" /\ ok' = FALSE
                 /\ UNCHANGED pending
       ELSE /\ pc' = IF queued = 0 THEN "ready" ELSE "drain"
            /\ UNCHANGED <<queued, pending, ok>>
    /\ UNCHANGED <<conn, txn, dirty, batch, marked, pos, server, answer>>

(* drain() in mid-batch: one +QUEUED per command, or an error for a command *)
(* the server refuses, after which the batch stays open but cannot commit.  *)
DrainQueued ==
    /\ pc = "drain" /\ conn = "good" /\ open_batch
    /\ \E refused \in BOOLEAN : dirty' = (dirty \/ refused) /\ ok' = (ok /\ ~refused)
    /\ queued' = 0 /\ pending' = pending - queued
    /\ pc' = "send"
    /\ UNCHANGED <<conn, open_batch, txn, batch, marked, pos, server, answer>>

(* drain() behind the EXEC.  A refused command aborts the transaction;      *)
(* otherwise it is applied, and the commands that fail while it runs say so *)
(* only inside the reply of the EXEC, which drain() does not look into.     *)
DrainExec ==
    /\ pc = "drain" /\ conn = "good" /\ ~open_batch
    /\ \/ /\ ok' = FALSE
          /\ UNCHANGED <<ledger, progress>>
       \/ /\ ~dirty
          /\ ok' = ok
          /\ \E failed \in SUBSET txn : Apply(Entry(failed))
    /\ queued' = 0 /\ pending' = pending - queued
    /\ txn' = {} /\ dirty' = FALSE
    /\ pc' = "ready"
    /\ UNCHANGED <<conn, open_batch, batch, marked, pos, late, answer>>

(* What may have become of the transaction when the connection breaks: the  *)
(* server never saw the EXEC, or applied it, or will once it gets to it.    *)
Outcome ==
    \/ UNCHANGED <<ledger, late, progress>>
    \/ /\ ~open_batch /\ ~dirty
       /\ Apply(Entry({})) /\ UNCHANGED late
    \/ /\ ~open_batch /\ ~dirty
       /\ late' = late \cup {Entry({})} /\ UNCHANGED <<ledger, progress>>

(* drain() on a connection that breaks or times out under it: the failure   *)
(* is returned, the commands before it are lost, the batch goes on.         *)
Unreported == ok' = ok
Reported == ok' = FALSE

SendAgain == pc' = "send" /\ pos' = IF open_batch THEN pos ELSE 1
GoOn == pc' = (IF open_batch THEN "send" ELSE "ready") /\ pos' = pos

DrainBreak ==
    /\ pc = "drain" /\ conn = "good"
    /\ conn' = "broken" /\ open_batch' = FALSE /\ queued' = 0 /\ pending' = 0
    /\ txn' = {} /\ dirty' = FALSE
    /\ Reported /\ GoOn
    /\ Outcome
    /\ UNCHANGED <<batch, marked, answer>>

(* The server gets to a transaction its client no longer waits for. *)
LateCommit ==
    \E e \in late :
        /\ Apply(e)
        /\ late' = late \ {e}
        /\ UNCHANGED <<client, sink, answer>>

-----------------------------------------------------------------------------
(* resume_at(), called between batches: 0 without a connection, on a lost   *)
(* connection and on an error, else the first reply the connection owes.    *)
ResumeAt ==
    /\ pc = "ready"
    /\ \E c \in Get :
        \/ c = "none" /\ conn' = c /\ answer' = 0 /\ pending' = 0
        \/ c = "good" /\ conn' = "none" /\ answer' = 0 /\ pending' = 0
        \/ /\ c = "good" /\ conn' = c
           /\ pending' = IF conn = "good" THEN pending ELSE 0
           /\ \E a \in {0, progress} : answer' = IF pending' = 0 THEN a ELSE 0
    /\ UNCHANGED <<open_batch, queued, txn, dirty, sink, server>>

Next ==
    \/ \E m \in BOOLEAN : Consume(m)
    \/ Increment
    \/ Rank
    \/ Mark
    \/ Flush
    \/ DrainQueued
    \/ DrainExec
    \/ DrainBreak
    \/ LateCommit
    \/ ResumeAt

Spec == Init /\ [][Next]_vars

-----------------------------------------------------------------------------
ClientOK ==
    /\ conn \in {"none", "good", "broken"}
    /\ open_batch \in BOOLEAN /\ dirty \in BOOLEAN
    /\ queued \in 0 .. Depth + 1
    /\ pending \in Nat
    /\ txn \in SUBSET (1 .. N)

ServerOK ==
    /\ ledger \in Seq(Entries)
    /\ late \in SUBSET Entries
    /\ progress \in 0 .. MaxBatches /\ answer \in 0 .. MaxBatches

(* The types, and the size of the pipeline: queueing drains it at Depth, so *)
(* it never holds more than Depth commands and one that does not drain (the *)
(* mark) or closes the batch (the EXEC).                                    *)
TypeOK ==
    /\ ClientOK
    /\ pc \in {"ready", "send", "drain"}
    /\ batch \in 0 .. MaxBatches
    /\ marked \in BOOLEAN /\ ok \in BOOLEAN
    /\ pos \in 1 .. N + 1
    /\ ServerOK

(* Reply alignment (redis_store.cpp:105, "no reply may sit ahead of this    *)
(* one"): on a connection in use the client counts exactly the replies the  *)
(* wire owes it, its open_batch flag says whether the server has a MULTI    *)
(* open on that connection, and between two batches nothing is owed.        *)
Aligned ==
    /\ conn = "good" => pending = queued
    /\ conn # "good" => queued = 0
    /\ open_batch => conn = "good" /\ txn # {}
    /\ pc = "ready" => queued = 0 /\ ~open_batch

(* No command of a batch is applied twice, whatever broke while it was      *)
(* being written: a transaction the server may still apply late shares no   *)
(* command with one it has applied (HINCRBY is not idempotent).             *)
AtMostOnce ==
    /\ \A i, j \in DOMAIN ledger :
           i # j /\ ledger[i].batch = ledger[j].batch => ledger[i].cmds \cap ledger[j].cmds = {}
    /\ \A i \in DOMAIN ledger, e \in late :
           ledger[i].batch = e.batch => ledger[i].cmds \cap e.cmds = {}

(* What the mark is for: a progress field that names a batch is backed by   *)
(* every board and counter of that batch, applied in the same transaction,  *)
(* so a reader that resumes behind it skips nothing that is not counted.    *)
(* It rests on consume() queueing the mark ahead of the boards and          *)
(* counters; a server that fails single commands of an EXEC is left aside.  *)
ProgressIsBacked ==
    progress # 0 => \E i \in DOMAIN ledger :
        ledger[i].batch = progress /\ BoardsAndCounters \subseteq ledger[i].cmds

(* A consume() none of whose calls reported a failure has put every command *)
(* of its batch in one transaction the server ran.                          *)
SuccessIsLanded ==
    pc = "ready" /\ batch > 0 /\ ok =>
        \E i \in DOMAIN ledger :
            ledger[i].batch = batch /\ ledger[i].cmds = Commands(marked)

(* The design's promise of the transaction (docs/HL_Design.md:149-151): a   *)
(* batch, its boards and the progress land together or not at all.          *)
AllOrNothing ==
    \A i \in DOMAIN ledger :
        \E m \in BOOLEAN : ledger[i].cmds = Commands(m)

(* The store keeps the weaker promise: a batch lands at most once and as    *)
(* everything it issued from some command on.                               *)
Landed(b) == UNION {ledger[i].cmds : i \in {j \in DOMAIN ledger : ledger[j].batch = b}}

Promise == INSTANCE BatchLedger WITH landed <- [b \in 1 .. MaxBatches |-> Landed(b)]

ImplementsPromise == Promise!Spec
=============================================================================
