-------------------------- MODULE RedisStoreProofs --------------------------
(***************************************************************************)
(* Proofs about RedisStore, for every size of batch, depth of pipeline and *)
(* number of batches.                                                      *)
(***************************************************************************)
EXTENDS RedisStore, TLAPS

(* The commands of a batch from the k-th to the one before p. *)
Chunk(k, p, m) == {i \in k .. N : i < p /\ (i = MarkAt => m)}

(* The open transaction is what the batch issued from some command on;      *)
(* when no call has failed yet, from the first.                             *)
TxnShape ==
    /\ pos = MarkAt => marked
    /\ open_batch \/ pc = "drain" =>
          \E k \in 1 .. N : k < pos /\ txn = Chunk(k, pos, marked) /\ (ok => k = 1)
    /\ ~open_batch /\ pc # "drain" => txn = {}
    /\ pc = "send" /\ ok /\ pos > 1 => open_batch
    /\ pc = "drain" /\ ~open_batch => pos > N

(* How full the pipeline is where the next command is queued. *)
Room ==
    /\ pc = "send" => queued < Depth \/ (queued = Depth /\ pos = MarkAt + 1)
    /\ pc = "ready" => queued = 0
    /\ pc = "send" /\ ~open_batch => queued = 0

Reachable(e) == \E k \in 1 .. N, m \in BOOLEAN : e.cmds = Promise!From(k, m)

(* Applied and abandoned transactions belong to batches already given up or *)
(* finished, one to a batch.                                                *)
Transactions ==
    /\ \A i \in DOMAIN ledger : ledger[i] \in Entries /\ Reachable(ledger[i])
    /\ \A e \in late : Reachable(e)
    /\ \A i \in DOMAIN ledger : ledger[i].batch <= batch /\ (pc # "ready" => ledger[i].batch < batch)
    /\ \A e \in late : e.batch <= batch /\ (pc # "ready" => e.batch < batch)
    /\ \A i, j \in DOMAIN ledger : i # j => ledger[i].batch # ledger[j].batch
    /\ \A i \in DOMAIN ledger, e \in late : ledger[i].batch # e.batch
    /\ \A e, f \in late : e # f => e.batch # f.batch
    /\ pc # "ready" => batch > 0

(* The inductive invariant: the invariants the runs check, and what they rest on. *)
IInv == TypeOK /\ Aligned /\ TxnShape /\ Room /\ Transactions /\ ProgressIsBacked /\ SuccessIsLanded

-----------------------------------------------------------------------------
(* The mark sits inside the batch, behind a total. *)
LEMMA Layout == N \in Nat /\ MarkAt \in 2 .. N /\ N >= 2
  BY SizeAssumption DEF N, MarkAt

(* The pipeline is deep enough for a MULTI and a command. *)
LEMMA DepthFact == Depth \in Nat /\ Depth >= 2
  BY DepthAssumption

(* The next command to issue is within the batch, or just behind it, and is *)
(* the mark only when the batch is marked (consume(), aggregate_sink.cpp:50). *)
LEMMA AfterStays ==
  ASSUME TypeOK, pos \in 1 .. N
  PROVE  /\ After(pos) \in 1 .. N + 1
         /\ After(pos) > pos
         /\ After(pos) = MarkAt => marked
  BY Layout DEF After, TypeOK, ClientOK, ServerOK

(* A command joins the chunk the transaction holds. *)
LEMMA ChunkGrows ==
  ASSUME TypeOK, NEW k \in 1 .. N, pos \in 1 .. N, pos = MarkAt => marked, k <= pos
  PROVE  Chunk(k, pos, marked) \cup {pos} = Chunk(k, After(pos), marked)
  BY Layout DEF Chunk, After, TypeOK, ClientOK, ServerOK

(* A transaction starts with the command at hand. *)
LEMMA ChunkStarts ==
  ASSUME TypeOK, pos \in 1 .. N, pos = MarkAt => marked
  PROVE  {pos} = Chunk(pos, After(pos), marked)
  BY Layout DEF Chunk, After, TypeOK, ClientOK, ServerOK

(* Behind the last command the chunk is everything from k on. *)
LEMMA ChunkEnds ==
  ASSUME TypeOK, NEW k \in 1 .. N, pos > N
  PROVE  Chunk(k, pos, marked) = Promise!From(k, marked)
  BY Layout DEF Chunk, TypeOK, ClientOK, ServerOK, Promise!From

(* Appending to the ledger, spelled out. *)
LEMMA Appended ==
  ASSUME ledger \in Seq(Entries), NEW e \in Entries, ledger' = Append(ledger, e)
  PROVE  /\ ledger' \in Seq(Entries)
         /\ DOMAIN ledger = 1 .. Len(ledger) /\ Len(ledger) \in Nat
         /\ DOMAIN ledger' = 1 .. Len(ledger) + 1
         /\ \A i \in DOMAIN ledger : ledger'[i] = ledger[i]
         /\ ledger'[Len(ledger) + 1] = e
  OBVIOUS

LEMMA InitIInv == Init => IInv
<1> SUFFICES ASSUME Init PROVE IInv
  OBVIOUS
<1> USE Layout, DepthFact, SizeAssumption DEF Init
<1>1. TypeOK
  <2>1. queued \in 0 .. Depth + 1 /\ pending \in Nat
    OBVIOUS
  <2>2. batch \in 0 .. MaxBatches /\ progress \in 0 .. MaxBatches /\ answer \in 0 .. MaxBatches
    OBVIOUS
  <2>3. pos \in 1 .. N + 1
    OBVIOUS
  <2>4. ledger \in Seq(Entries) /\ late \in SUBSET Entries /\ txn \in SUBSET (1 .. N)
    OBVIOUS
  <2> QED
    BY <2>1, <2>2, <2>3, <2>4 DEF TypeOK, ClientOK, ServerOK
<1>2. Aligned /\ TxnShape /\ Room
  BY DEF Aligned, TxnShape, Room
<1>3. Transactions
  BY DEF Transactions
<1>4. ProgressIsBacked /\ SuccessIsLanded
  BY DEF ProgressIsBacked, SuccessIsLanded
<1> QED
  BY <1>1, <1>2, <1>3, <1>4 DEF IInv

-----------------------------------------------------------------------------
(* Steps that leave the ledger, the late transactions and the progress as   *)
(* they are, and stay within the batch, keep what is said of them.          *)
LEMMA ServerKept ==
  ASSUME IInv, UNCHANGED server, UNCHANGED <<batch, marked>>,
         pc # "ready", pc' # "ready"
  PROVE  Transactions' /\ ProgressIsBacked' /\ SuccessIsLanded'
<1>1. Transactions'
  BY DEF IInv, Transactions, server, Reachable, Promise!From, Entries
<1>2. ProgressIsBacked'
  BY DEF IInv, ProgressIsBacked, server
<1>3. SuccessIsLanded'
  BY DEF SuccessIsLanded
<1> QED
  BY <1>1, <1>2, <1>3

(* batch() and the append that follows it keep the invariant: the command   *)
(* joins the open transaction, opens one behind its own MULTI, or is        *)
(* skipped for want of a connection.                                        *)
LEMMA QueueStep ==
  ASSUME IInv, NEW drains \in BOOLEAN, drains <=> pos # MarkAt, pos \in 1 .. N, Queue(drains)
  PROVE  IInv'
<1> USE Layout, DepthFact
<1> DEFINE good == conn' = "good"
<1>1. /\ pc = "send" /\ (pos = MarkAt => marked)
      /\ pos' = After(pos) /\ UNCHANGED <<batch, marked, late, answer>>
      /\ conn = "good" => pending = queued
      /\ conn # "good" => queued = 0 /\ ~open_batch
      /\ ~open_batch => queued = 0 /\ txn = {}
      /\ TypeOK
  BY DEF IInv, Aligned, Room, TxnShape, Queue
<1>2. pos' \in 1 .. N + 1 /\ pos' > pos /\ (pos' = MarkAt => marked) /\ pos \in Nat /\ N \in Nat
  BY <1>1, AfterStays
<1>3. CASE good /\ open_batch
  <2>1. /\ conn = "good" /\ queued' = queued + 1 /\ pending' = pending + 1 /\ open_batch' = TRUE
        /\ txn' = txn \cup {pos} /\ dirty' = dirty /\ ok' = ok /\ UNCHANGED <<ledger, progress>>
        /\ pc' = IF drains /\ queued' >= Depth THEN "drain" ELSE "send"
    <3>1. conn = "good" /\ open_batch = TRUE /\ txn # {} /\ queued \in Nat /\ dirty \in BOOLEAN
      BY <1>1, <1>3 DEF IInv, Aligned, TypeOK, ClientOK, ServerOK
    <3> QED
      BY <1>1, <1>3, <3>1 DEF Queue, Get, NeedsMulti, Full
  <2>2. PICK k \in 1 .. N : k < pos /\ txn = Chunk(k, pos, marked) /\ (ok => k = 1)
    BY <1>3 DEF IInv, TxnShape
  <2>3. txn' = Chunk(k, pos', marked) /\ k < pos'
    BY <1>1, <1>2, <2>1, <2>2, ChunkGrows DEF TypeOK, ClientOK, ServerOK
  <2>4. queued < Depth \/ (queued = Depth /\ pos = MarkAt + 1)
    BY <1>1 DEF IInv, Room
  <2>5. TypeOK'
    <3>1. queued' \in 0 .. Depth + 1
      BY <1>1, <2>1, <2>4 DEF TypeOK, ClientOK, ServerOK
    <3>2. pending' \in Nat /\ txn' \in SUBSET (1 .. N) /\ pc' \in {"ready", "send", "drain"}
      BY <1>1, <2>1 DEF TypeOK, ClientOK, ServerOK
    <3> QED
      BY <1>1, <1>2, <1>3, <2>1, <3>1, <3>2 DEF TypeOK, ClientOK, ServerOK
  <2>6. Aligned'
    BY <1>1, <1>3, <2>1 DEF Aligned, TypeOK, ClientOK, ServerOK
  <2>7. TxnShape'
    <3>1. txn' = Chunk(k, pos, marked)'
      BY <1>1, <2>3 DEF Chunk
    <3> QED
      BY <1>1, <1>2, <2>1, <2>2, <2>3, <3>1 DEF TxnShape
  <2>8. Room'
    BY <1>1, <2>1, <2>4 DEF Room, After, TypeOK, ClientOK, ServerOK
  <2>9. Transactions' /\ ProgressIsBacked' /\ SuccessIsLanded'
    BY <1>1, <2>1, ServerKept DEF server
  <2> QED
    BY <2>5, <2>6, <2>7, <2>8, <2>9 DEF IInv
<1>4. CASE good /\ ~open_batch
  <2>1. /\ queued' = 2 /\ pending' = 2 /\ open_batch' = TRUE
        /\ txn' = {pos} /\ dirty' \in BOOLEAN /\ ok' = ok /\ UNCHANGED <<ledger, progress>>
        /\ pc' = IF drains /\ queued' >= Depth THEN "drain" ELSE "send"
    <3>1. open_batch = FALSE /\ txn = {} /\ queued = 0 /\ pending \in Nat
          /\ (conn = "good" => pending = 0) /\ conn \in {"none", "good", "broken"} /\ dirty \in BOOLEAN
      BY <1>1, <1>4 DEF TypeOK, ClientOK, ServerOK
    <3> QED
      BY <1>1, <1>4, <3>1 DEF Queue, Get, NeedsMulti, Full
  <2>2. txn' = Chunk(pos, pos', marked)
    BY <1>1, <2>1, ChunkStarts
  <2>3. ok => pos = 1
    BY <1>1, <1>2, <1>4 DEF IInv, TxnShape, TypeOK, ClientOK, ServerOK
  <2>5. TypeOK'
    BY <1>1, <1>2, <1>4, <2>1 DEF TypeOK, ClientOK, ServerOK
  <2>6. Aligned'
    BY <1>1, <1>4, <2>1 DEF Aligned, TypeOK, ClientOK, ServerOK
  <2>7. TxnShape'
    <3>1. txn' = Chunk(pos, pos', marked')
      BY <1>1, <2>2
    <3> QED
      BY <1>1, <1>2, <2>1, <2>3, <3>1 DEF TxnShape, Chunk
  <2>8. Room'
    BY <1>1, <2>1 DEF Room, After, TypeOK, ClientOK, ServerOK
  <2>9. Transactions' /\ ProgressIsBacked' /\ SuccessIsLanded'
    BY <1>1, <2>1, ServerKept DEF server
  <2> QED
    BY <2>5, <2>6, <2>7, <2>8, <2>9 DEF IInv
<1>5. CASE ~good
  <2>1. /\ conn # "good" /\ conn' = "none" /\ queued' = 0 /\ pending' = 0 /\ open_batch' = FALSE
        /\ txn' = {} /\ dirty' = FALSE /\ ok' = FALSE /\ UNCHANGED <<pc, ledger, progress>>
    BY <1>1, <1>5 DEF Queue, Get
  <2>5. TypeOK'
    BY <1>1, <1>2, <2>1 DEF TypeOK, ClientOK, ServerOK
  <2>6. Aligned' /\ Room'
    BY <1>1, <2>1 DEF Aligned, Room, TypeOK, ClientOK, ServerOK
  <2>7. TxnShape'
    BY <1>1, <1>2, <2>1 DEF TxnShape
  <2>9. Transactions' /\ ProgressIsBacked' /\ SuccessIsLanded'
    BY <1>1, <2>1, ServerKept DEF server
  <2> QED
    BY <2>5, <2>6, <2>7, <2>9 DEF IInv
<1> QED
  BY <1>3, <1>4, <1>5

-----------------------------------------------------------------------------
(* A transaction of a batch that has none in the ledger is applied.  The    *)
(* mark it may carry names a batch whose boards and counters come with it,  *)
(* because they were issued behind the mark.                                *)
LEMMA ApplyStep ==
  ASSUME IInv, NEW e \in Entries, Reachable(e), Apply(e), UNCHANGED <<batch, marked>>,
         late' \subseteq late, \A i \in DOMAIN ledger : ledger[i].batch # e.batch,
         \A f \in late' : f.batch # e.batch,
         e.batch <= batch, pc' # "ready" => pc # "ready" /\ e.batch < batch
  PROVE  Transactions' /\ ProgressIsBacked' /\ progress' \in 0 .. MaxBatches
<1> USE Layout, SizeAssumption
<1>0. /\ ledger \in Seq(Entries) /\ late \subseteq Entries /\ progress \in 0 .. MaxBatches
      /\ batch \in 0 .. MaxBatches
  BY DEF IInv, TypeOK, ClientOK, ServerOK
<1>1. ledger' = Append(ledger, e) /\ progress' = Applied(progress, e)
  BY DEF Apply
<1>2. /\ ledger' \in Seq(Entries)
      /\ DOMAIN ledger = 1 .. Len(ledger) /\ Len(ledger) \in Nat
      /\ DOMAIN ledger' = 1 .. Len(ledger) + 1
      /\ \A i \in DOMAIN ledger : ledger'[i] = ledger[i]
      /\ ledger'[Len(ledger) + 1] = e
  BY <1>0, <1>1, Appended
<1>3. e.batch \in 1 .. MaxBatches /\ e.cmds \subseteq 1 .. N
  BY DEF Entries
<1>4. \A i \in DOMAIN ledger' : i \in DOMAIN ledger \/ i = Len(ledger) + 1
  BY <1>2
<1>5. Transactions'
  <2>1. \A i \in DOMAIN ledger' : ledger'[i] \in Entries /\ Reachable(ledger'[i])
    BY <1>2, <1>4 DEF IInv, Transactions
  <2>2. \A f \in late' : Reachable(f)
    BY DEF IInv, Transactions
  <2>3. \A i \in DOMAIN ledger' :
           ledger'[i].batch <= batch' /\ (pc' # "ready" => ledger'[i].batch < batch')
    BY <1>2, <1>4 DEF IInv, Transactions
  <2>4. \A f \in late' : f.batch <= batch' /\ (pc' # "ready" => f.batch < batch')
    BY DEF IInv, Transactions
  <2>5. \A i, j \in DOMAIN ledger' : i # j => ledger'[i].batch # ledger'[j].batch
    BY <1>2, <1>4 DEF IInv, Transactions
  <2>6. \A i \in DOMAIN ledger', f \in late' : ledger'[i].batch # f.batch
    BY <1>2, <1>4 DEF IInv, Transactions
  <2>7. \A d, f \in late' : d # f => d.batch # f.batch
    BY DEF IInv, Transactions
  <2>8. pc' # "ready" => batch' > 0
    BY <1>0, <1>3
  <2> QED
    BY <2>1, <2>2, <2>3, <2>4, <2>5, <2>6, <2>7, <2>8 DEF Transactions, Reachable, Promise!From
<1>6. ProgressIsBacked'
  <2>1. CASE MarkAt \in e.cmds \ e.failed
    <3>1. PICK k \in 1 .. N, m \in BOOLEAN : e.cmds = Promise!From(k, m)
      BY DEF Reachable
    <3>2. k <= MarkAt
      BY <2>1, <3>1 DEF Promise!From
    <3>3. BoardsAndCounters \subseteq e.cmds
      BY <3>1, <3>2, SizeAssumption DEF BoardsAndCounters, Promise!From, MarkAt
    <3> QED
      BY <1>1, <1>2, <2>1, <3>3 DEF ProgressIsBacked, Applied
  <2>2. CASE MarkAt \notin e.cmds \ e.failed
    <3>1. progress' = progress
      BY <1>1, <2>2 DEF Applied
    <3> QED
      BY <1>2, <3>1 DEF IInv, ProgressIsBacked
  <2> QED
    BY <2>1, <2>2
<1>7. progress' \in 0 .. MaxBatches
  BY <1>0, <1>1, <1>3 DEF Applied
<1> QED
  BY <1>5, <1>6, <1>7

(* The transaction EXEC closes is everything issued from some command on,   *)
(* the whole batch when no call failed, and the first of its batch.         *)
LEMMA ClosedTxn ==
  ASSUME IInv, pc = "drain", ~open_batch, NEW failed \in SUBSET (1 .. N)
  PROVE  /\ Entry(failed) \in Entries /\ Reachable(Entry(failed))
         /\ Entry(failed).batch = batch
         /\ ok => Entry(failed).cmds = Commands(marked)
         /\ \A i \in DOMAIN ledger : ledger[i].batch # batch
         /\ \A f \in late : f.batch # batch
<1> USE Layout
<1>1. PICK k \in 1 .. N : k < pos /\ txn = Chunk(k, pos, marked) /\ (ok => k = 1)
  BY DEF IInv, TxnShape
<1>2. txn = Promise!From(k, marked) /\ marked \in BOOLEAN
  BY <1>1, ChunkEnds DEF IInv, TxnShape, TypeOK, ClientOK, ServerOK
<1>3. batch \in 1 .. MaxBatches /\ txn \in SUBSET (1 .. N)
  BY DEF IInv, Transactions, TypeOK, ClientOK, ServerOK
<1>4. Entry(failed) \in Entries /\ Reachable(Entry(failed)) /\ Entry(failed).batch = batch
  BY <1>2, <1>3 DEF Entry, Entries, Reachable
<1>5. ok => Entry(failed).cmds = Commands(marked)
  BY <1>1, <1>2 DEF Entry, Commands, Promise!From
<1>6. \A i \in DOMAIN ledger : ledger[i].batch # batch
  <2>1. \A i \in DOMAIN ledger : ledger[i].batch < batch /\ ledger[i].batch \in Nat
    BY DEF IInv, Transactions, Entries
  <2> QED
    BY <1>3, <2>1
<1>7. \A f \in late : f.batch # batch
  <2>1. \A f \in late : f.batch < batch /\ f.batch \in Nat
    BY DEF IInv, Transactions, Entries, TypeOK, ClientOK, ServerOK
  <2> QED
    BY <1>3, <2>1
<1> QED
  BY <1>4, <1>5, <1>6, <1>7

-----------------------------------------------------------------------------
(* AggregateSink::consume starts on an empty pipeline. *)
LEMMA ConsumeStep ==
  ASSUME IInv, NEW m \in BOOLEAN, Consume(m)
  PROVE  IInv'
<1> USE Layout, DepthFact, SizeAssumption DEF Consume, client, server
<1>1. TypeOK'
  BY DEF IInv, TypeOK, ClientOK, ServerOK
<1>2. Aligned' /\ Room'
  BY DEF IInv, Aligned, Room, TypeOK, ClientOK, ServerOK
<1>3. TxnShape'
  BY DEF IInv, TxnShape, Aligned
<1>4. Transactions'
  <2>1. /\ \A i \in DOMAIN ledger : ledger[i].batch \in Nat
        /\ \A e \in late : e.batch \in Nat
        /\ batch \in Nat
    BY DEF IInv, Transactions, TypeOK, ClientOK, ServerOK, Entries
  <2> QED
    BY <2>1 DEF IInv, Transactions, Reachable, Promise!From
<1>5. ProgressIsBacked' /\ SuccessIsLanded'
  BY DEF IInv, ProgressIsBacked, SuccessIsLanded
<1> QED
  BY <1>1, <1>2, <1>3, <1>4, <1>5 DEF IInv

(* flush() counts the reply of its EXEC, or finds nothing queued: then the  *)
(* thread has no connection and every command behind the break was lost.    *)
LEMMA FlushStep ==
  ASSUME IInv, Flush
  PROVE  IInv'
<1> USE Layout, DepthFact, SizeAssumption
<1>1. /\ pc = "send" /\ pos > N /\ pos \in 1 .. N + 1 /\ open_batch' = FALSE
      /\ UNCHANGED <<conn, txn, dirty, batch, marked, pos, ledger, late, progress, answer>>
      /\ queued < Depth \/ (queued = Depth /\ pos = MarkAt + 1)
      /\ TypeOK
  BY DEF IInv, Room, TypeOK, ClientOK, ServerOK, Flush, server
<1>2. CASE open_batch
  <2>1. conn = "good" /\ pending = queued /\ txn # {}
    BY <1>2 DEF IInv, Aligned
  <2>2. queued' = queued + 1 /\ pending' = pending + 1 /\ pc' = "drain" /\ ok' = ok
    BY <1>2, <2>1 DEF Flush, WithExec
  <2>3. queued' \in 0 .. Depth + 1
    BY <1>1, <2>2 DEF TypeOK, ClientOK, ServerOK
  <2>4. TypeOK'
    <3>1. pending' \in Nat /\ pc' \in {"ready", "send", "drain"} /\ ok' \in BOOLEAN
      BY <1>1, <2>2 DEF TypeOK, ClientOK, ServerOK
    <3>2. ledger' \in Seq(Entries) /\ late' \in SUBSET Entries
      BY <1>1 DEF TypeOK, ClientOK, ServerOK
    <3> QED
      BY <1>1, <2>3, <3>1, <3>2 DEF TypeOK, ClientOK, ServerOK
  <2>5. Aligned' /\ Room'
    BY <1>1, <2>1, <2>2 DEF Aligned, Room, TypeOK, ClientOK, ServerOK
  <2>6. TxnShape'
    BY <1>1, <1>2, <2>2 DEF IInv, TxnShape, Chunk
  <2>7. Transactions' /\ ProgressIsBacked' /\ SuccessIsLanded'
    BY <1>1, <2>2, ServerKept DEF server
  <2> QED
    BY <2>4, <2>5, <2>6, <2>7 DEF IInv
<1>3. CASE ~open_batch
  <2>1. queued = 0 /\ ok = FALSE
    BY <1>1, <1>3 DEF IInv, Room, TxnShape, TypeOK, ClientOK, ServerOK
  <2>2. queued' = 0 /\ pending' = pending /\ pc' = "ready" /\ ok' = FALSE
    BY <1>3, <2>1 DEF Flush
  <2>3. TypeOK'
    <3>1. queued' \in 0 .. Depth + 1 /\ pending' \in Nat
      BY <1>1, <2>2 DEF TypeOK, ClientOK, ServerOK
    <3>2. ledger' \in Seq(Entries) /\ late' \in SUBSET Entries
      BY <1>1 DEF TypeOK, ClientOK, ServerOK
    <3> QED
      BY <1>1, <2>2, <3>1, <3>2 DEF TypeOK, ClientOK, ServerOK
  <2>4. Aligned' /\ Room'
    BY <1>1, <2>1, <2>2 DEF IInv, Aligned, Room
  <2>5. TxnShape'
    BY <1>1, <1>3, <2>2 DEF IInv, TxnShape
  <2>6. Transactions' /\ ProgressIsBacked' /\ SuccessIsLanded'
    BY <1>1, <2>2 DEF IInv, Transactions, ProgressIsBacked, SuccessIsLanded, Reachable, Promise!From
  <2> QED
    BY <2>3, <2>4, <2>5, <2>6 DEF IInv
<1> QED
  BY <1>2, <1>3

(* drain() in mid-batch empties the pipeline and leaves the batch open. *)
LEMMA DrainQueuedStep ==
  ASSUME IInv, DrainQueued
  PROVE  IInv'
<1> USE Layout, DepthFact DEF DrainQueued
<1>1. pending = queued /\ pos \in 1 .. N + 1
  BY DEF IInv, Aligned, TypeOK, ClientOK, ServerOK
<1>2. ok' \in BOOLEAN /\ (ok' => ok) /\ dirty' \in BOOLEAN
  BY DEF IInv, TypeOK, ClientOK, ServerOK
<1>3. TypeOK'
  BY <1>1, <1>2 DEF IInv, TypeOK, ClientOK, ServerOK, server
<1>4. Aligned' /\ Room'
  BY <1>1 DEF IInv, Aligned, Room, TypeOK, ClientOK, ServerOK
<1>5. TxnShape'
  <2>1. PICK k \in 1 .. N : k < pos /\ txn = Chunk(k, pos, marked) /\ (ok => k = 1)
    BY DEF IInv, TxnShape
  <2> QED
    BY <1>2, <2>1 DEF IInv, TxnShape, Chunk
<1>6. Transactions' /\ ProgressIsBacked' /\ SuccessIsLanded'
  BY ServerKept
<1> QED
  BY <1>3, <1>4, <1>5, <1>6 DEF IInv

(* drain() behind the EXEC: applied, or aborted and reported. *)
LEMMA DrainExecStep ==
  ASSUME IInv, DrainExec
  PROVE  IInv'
<1> USE Layout, DepthFact, SizeAssumption
<1>1. /\ pc = "drain" /\ conn = "good" /\ ~open_batch /\ pending = queued
      /\ queued' = 0 /\ pending' = 0 /\ txn' = {} /\ dirty' = FALSE /\ pc' = "ready"
      /\ UNCHANGED <<conn, open_batch, batch, marked, pos, late, answer>>
      /\ TypeOK
  BY DEF IInv, Aligned, DrainExec, TypeOK, ClientOK, ServerOK
<1>2. Aligned' /\ Room'
  BY <1>1 DEF Aligned, Room, TypeOK, ClientOK, ServerOK
<1>3. TxnShape'
  BY <1>1 DEF IInv, TxnShape
<1>c. ClientOK'
  <2>1. conn' \in {"none", "good", "broken"} /\ txn' \in SUBSET (1 .. N)
    BY <1>1 DEF TypeOK, ClientOK
  <2>2. open_batch' \in BOOLEAN /\ dirty' \in BOOLEAN
    BY <1>1 DEF TypeOK, ClientOK
  <2>3. queued' \in 0 .. Depth + 1 /\ pending' \in Nat
    BY <1>1
  <2> QED
    BY <2>1, <2>2, <2>3 DEF ClientOK
<1>4. ASSUME ok' = FALSE, UNCHANGED <<ledger, progress>>
      PROVE  IInv'
  <2>1. TypeOK'
    <3>1. ledger' \in Seq(Entries) /\ late' \in SUBSET Entries
      BY <1>1, <1>4 DEF TypeOK, ClientOK, ServerOK
    <3>2. ServerOK'
      BY <1>1, <1>4, <3>1 DEF TypeOK, ServerOK
    <3> QED
      BY <1>1, <1>4, <1>c, <3>2 DEF TypeOK
  <2>2. Transactions' /\ ProgressIsBacked' /\ SuccessIsLanded'
    BY <1>1, <1>4 DEF IInv, Transactions, ProgressIsBacked, SuccessIsLanded, Reachable, Promise!From
  <2> QED
    BY <1>2, <1>3, <2>1, <2>2 DEF IInv
<1>5. ASSUME ok' = ok, NEW failed \in SUBSET txn, Apply(Entry(failed))
      PROVE  IInv'
  <2> DEFINE e == Entry(failed)
  <2>1. /\ e \in Entries /\ Reachable(e) /\ e.batch = batch
        /\ ok => e.cmds = Commands(marked)
        /\ \A i \in DOMAIN ledger : ledger[i].batch # batch
        /\ \A f \in late : f.batch # batch
    BY <1>1, ClosedTxn DEF TypeOK, ClientOK, ServerOK
  <2>2. Transactions' /\ ProgressIsBacked' /\ progress' \in 0 .. MaxBatches
    <3> HIDE DEF e
    <3>1. Apply(e) /\ e.batch <= batch
      BY <1>1, <1>5, <2>1 DEF e, TypeOK, ClientOK, ServerOK
    <3> QED
      BY <1>1, <2>1, <3>1, ApplyStep
  <2>3. ledger' \in Seq(Entries) /\ Len(ledger) + 1 \in DOMAIN ledger' /\ ledger'[Len(ledger) + 1] = e
    BY <1>1, <1>5, <2>1 DEF Apply, TypeOK, ClientOK, ServerOK
  <2>4. TypeOK'
    <3>1. ServerOK'
      BY <1>1, <1>5, <2>2, <2>3 DEF TypeOK, ServerOK
    <3> QED
      BY <1>1, <1>5, <1>c, <3>1 DEF TypeOK
  <2>5. SuccessIsLanded'
    BY <1>1, <1>5, <2>1, <2>3 DEF SuccessIsLanded, Commands
  <2> QED
    BY <1>2, <1>3, <2>2, <2>4, <2>5 DEF IInv
<1> QED
  BY <1>4, <1>5 DEF DrainExec

(* A break loses the transaction, applies it, or leaves it to the server:   *)
(* the client forgets it in every case and queues nothing of it again.      *)
LEMMA DrainBreakStep ==
  ASSUME IInv, DrainBreak
  PROVE  IInv'
<1> USE Layout, DepthFact, SizeAssumption
<1>1. /\ pc = "drain" /\ conn' = "broken" /\ open_batch' = FALSE /\ queued' = 0 /\ pending' = 0
      /\ txn' = {} /\ dirty' = FALSE /\ ok' = FALSE
      /\ pc' = IF open_batch THEN "send" ELSE "ready"
      /\ UNCHANGED <<batch, marked, pos, answer>>
      /\ TypeOK /\ batch \in 0 .. MaxBatches
  BY DEF IInv, DrainBreak, Reported, GoOn, TypeOK, ClientOK, ServerOK
<1>2. Aligned' /\ Room'
  BY <1>1 DEF Aligned, Room, TypeOK, ClientOK, ServerOK
<1>3. TxnShape'
  BY <1>1 DEF IInv, TxnShape
<1>4. SuccessIsLanded'
  BY <1>1 DEF SuccessIsLanded
<1>c. ClientOK'
  <2>1. conn' \in {"none", "good", "broken"} /\ txn' \in SUBSET (1 .. N)
    BY <1>1 DEF TypeOK, ClientOK
  <2>2. open_batch' \in BOOLEAN /\ dirty' \in BOOLEAN
    BY <1>1 DEF TypeOK, ClientOK
  <2>3. queued' \in 0 .. Depth + 1 /\ pending' \in Nat
    BY <1>1
  <2> QED
    BY <2>1, <2>2, <2>3 DEF ClientOK
<1>5. ASSUME UNCHANGED <<ledger, late, progress>>
      PROVE  IInv'
  <2>1. TypeOK'
    <3>1. ledger' \in Seq(Entries) /\ late' \in SUBSET Entries
      BY <1>1, <1>5 DEF TypeOK, ClientOK, ServerOK
    <3>2. ServerOK'
      BY <1>1, <1>5, <3>1 DEF TypeOK, ServerOK
    <3> QED
      BY <1>1, <1>c, <3>2 DEF TypeOK
  <2>2. Transactions' /\ ProgressIsBacked'
    BY <1>1, <1>5 DEF IInv, Transactions, ProgressIsBacked, Reachable, Promise!From
  <2> QED
    BY <1>2, <1>3, <1>4, <2>1, <2>2 DEF IInv
<1>6. ASSUME ~open_batch, Apply(Entry({})), UNCHANGED late
      PROVE  IInv'
  <2> DEFINE e == Entry({})
  <2>1. /\ e \in Entries /\ Reachable(e) /\ e.batch = batch
        /\ \A i \in DOMAIN ledger : ledger[i].batch # batch
        /\ \A f \in late : f.batch # batch
    BY <1>1, <1>6, ClosedTxn
  <2>2. Transactions' /\ ProgressIsBacked' /\ progress' \in 0 .. MaxBatches
    <3> HIDE DEF e
    <3>1. Apply(e) /\ e.batch <= batch
      BY <1>1, <1>6, <2>1 DEF e
    <3> QED
      BY <1>1, <1>6, <2>1, <3>1, ApplyStep
  <2>3. ledger' \in Seq(Entries)
    BY <1>1, <1>6, <2>1 DEF Apply, TypeOK, ClientOK, ServerOK
  <2>4. TypeOK'
    <3>1. ServerOK'
      BY <1>1, <1>6, <2>2, <2>3 DEF TypeOK, ServerOK
    <3> QED
      BY <1>1, <1>c, <3>1 DEF TypeOK
  <2> QED
    BY <1>2, <1>3, <1>4, <2>2, <2>4 DEF IInv
<1>7. ASSUME ~open_batch, late' = late \cup {Entry({})}, UNCHANGED <<ledger, progress>>
      PROVE  IInv'
  <2> DEFINE e == Entry({})
  <2>1. /\ e \in Entries /\ Reachable(e) /\ e.batch = batch
        /\ \A i \in DOMAIN ledger : ledger[i].batch # batch
        /\ \A f \in late : f.batch # batch
    BY <1>1, <1>7, ClosedTxn
  <2> HIDE DEF e
  <2>2. late' = late \cup {e}
    BY <1>7 DEF e
  <2>3. TypeOK'
    <3>1. ledger' \in Seq(Entries) /\ late' \in SUBSET Entries
      BY <1>1, <1>7, <2>1, <2>2 DEF TypeOK, ClientOK, ServerOK
    <3>2. ServerOK'
      BY <1>1, <1>7, <3>1 DEF TypeOK, ServerOK
    <3> QED
      BY <1>1, <1>c, <3>2 DEF TypeOK
  <2>4. Transactions'
    BY <1>1, <1>7, <2>1, <2>2 DEF IInv, Transactions, Reachable, Promise!From
  <2>5. ProgressIsBacked'
    BY <1>7 DEF IInv, ProgressIsBacked
  <2> QED
    BY <1>2, <1>3, <1>4, <2>3, <2>4, <2>5 DEF IInv
<1> QED
  BY <1>5, <1>6, <1>7 DEF DrainBreak, Outcome

(* An abandoned transaction that the server gets to after all. *)
LEMMA LateCommitStep ==
  ASSUME IInv, LateCommit
  PROVE  IInv'
<1> USE Layout, DepthFact, SizeAssumption
<1>1. PICK e \in late : Apply(e) /\ late' = late \ {e} /\ UNCHANGED <<client, sink, answer>>
  BY DEF LateCommit
<1>2. /\ e \in Entries /\ Reachable(e) /\ TypeOK
      /\ e.batch <= batch /\ (pc # "ready" => e.batch < batch)
      /\ \A i \in DOMAIN ledger : ledger[i].batch # e.batch
      /\ \A f \in late : f # e => f.batch # e.batch
  BY DEF IInv, Transactions, TypeOK, ServerOK
<1>3. Transactions' /\ ProgressIsBacked' /\ progress' \in 0 .. MaxBatches
  BY <1>1, <1>2, ApplyStep DEF client, sink
<1>4. /\ ledger' \in Seq(Entries) /\ DOMAIN ledger \subseteq DOMAIN ledger'
      /\ \A i \in DOMAIN ledger : ledger'[i] = ledger[i]
  BY <1>1, <1>2, Appended DEF Apply, TypeOK, ServerOK
<1>5. ClientOK' /\ Aligned' /\ Room'
  BY <1>1 DEF IInv, TypeOK, ClientOK, Aligned, Room, client, sink
<1>6. TypeOK'
  <2>1. ServerOK'
    BY <1>1, <1>2, <1>3, <1>4 DEF TypeOK, ServerOK
  <2> QED
    BY <1>1, <1>2, <1>5, <2>1 DEF TypeOK, sink
<1>7. TxnShape'
  BY <1>1 DEF IInv, TxnShape, Chunk, client, sink
<1>8. SuccessIsLanded'
  BY <1>1, <1>4 DEF IInv, SuccessIsLanded, Commands, sink
<1> QED
  BY <1>3, <1>5, <1>6, <1>7, <1>8 DEF IInv

(* resume_at() reads its own reply, since nothing is owed before it. *)
LEMMA ResumeAtStep ==
  ASSUME IInv, ResumeAt
  PROVE  IInv'
<1> USE Layout, DepthFact, SizeAssumption
<1>1. /\ pc = "ready" /\ queued = 0 /\ (conn = "good" => pending = 0) /\ TypeOK
      /\ UNCHANGED <<open_batch, queued, txn, dirty, sink, server>>
  BY DEF IInv, Aligned, ResumeAt
<1>2. conn' \in {"none", "good"} /\ pending' = 0 /\ answer' \in {0, progress}
  BY <1>1 DEF ResumeAt, Get
<1>3. ClientOK' /\ ServerOK'
  BY <1>1, <1>2 DEF TypeOK, ClientOK, ServerOK, server
<1>4. TypeOK'
  BY <1>1, <1>3 DEF TypeOK, sink
<1>5. Aligned' /\ Room'
  BY <1>1, <1>2 DEF IInv, Aligned, Room, sink
<1>6. TxnShape'
  BY <1>1, <1>2 DEF IInv, TxnShape, Chunk, sink
<1>7. Transactions' /\ ProgressIsBacked' /\ SuccessIsLanded'
  BY <1>1 DEF IInv, Transactions, ProgressIsBacked, SuccessIsLanded, Reachable, Promise!From,
              Commands, sink, server
<1> QED
  BY <1>4, <1>5, <1>6, <1>7 DEF IInv

(* Every step keeps the invariant. *)
LEMMA NextIInv == IInv /\ [Next]_vars => IInv'
<1> SUFFICES ASSUME IInv, [Next]_vars PROVE IInv'
  OBVIOUS
<1>1. ASSUME NEW m \in BOOLEAN, Consume(m) PROVE IInv'
  BY <1>1, ConsumeStep
<1>2. CASE Increment
  <2>1. pos \in 1 .. N /\ pos # MarkAt /\ Queue(TRUE)
    BY <1>2 DEF Increment
  <2> QED
    BY <2>1, QueueStep
<1>3. CASE Rank
  <2>1. pos \in RankAt /\ Queue(TRUE)
    BY <1>3 DEF Rank
  <2>2. pos \in 1 .. N /\ pos # MarkAt
    BY <2>1, Layout DEF RankAt
  <2> QED
    BY <2>1, <2>2, QueueStep
<1>4. CASE Mark
  <2>1. pos = MarkAt /\ Queue(FALSE)
    BY <1>4 DEF Mark
  <2>2. pos \in 1 .. N
    BY <2>1, Layout
  <2> QED
    BY <2>1, <2>2, QueueStep
<1>5. CASE Flush
  BY <1>5, FlushStep
<1>6. CASE DrainQueued
  BY <1>6, DrainQueuedStep
<1>7. CASE DrainExec
  BY <1>7, DrainExecStep
<1>8. CASE DrainBreak
  BY <1>8, DrainBreakStep
<1>9. CASE LateCommit
  BY <1>9, LateCommitStep
<1>10. CASE ResumeAt
  BY <1>10, ResumeAtStep
<1>11. CASE UNCHANGED vars
  <2>1. /\ UNCHANGED <<conn, open_batch, queued, pending, txn, dirty>>
        /\ UNCHANGED <<pc, batch, marked, pos, ok>>
        /\ UNCHANGED <<ledger, late, progress, answer>>
    BY <1>11 DEF vars, client, sink, server
  <2>2. TypeOK'
    BY <2>1 DEF IInv, TypeOK, ClientOK, ServerOK
  <2>3. Aligned' /\ Room'
    BY <2>1 DEF IInv, Aligned, Room
  <2>4. TxnShape'
    BY <2>1 DEF IInv, TxnShape, Chunk
  <2>5. Transactions' /\ ProgressIsBacked' /\ SuccessIsLanded'
    BY <2>1 DEF IInv, Transactions, ProgressIsBacked, SuccessIsLanded, Reachable, Promise!From,
                Commands
  <2> QED
    BY <2>2, <2>3, <2>4, <2>5 DEF IInv
<1> QED
  BY <1>1, <1>2, <1>3, <1>4, <1>5, <1>6, <1>7, <1>8, <1>9, <1>10, <1>11 DEF Next

-----------------------------------------------------------------------------
(* The inductive invariant holds of every behaviour of the store. *)
THEOREM Invariance == Spec => []IInv
  BY InitIInv, NextIInv, PTL DEF Spec

(* The pipeline is bounded by its depth and the types hold                  *)
(* (redis_store.cpp:48-101 with kRedisPipelineDepth).                       *)
THEOREM TypeCorrect == Spec => []TypeOK
<1>1. IInv => TypeOK
  BY DEF IInv
<1> QED
  BY <1>1, Invariance, PTL

(* The client counts exactly the replies it is owed, over every break and   *)
(* reconnect (drain(), flush(), resume_at()).                               *)
THEOREM ReplyAlignment == Spec => []Aligned
<1>1. IInv => Aligned
  BY DEF IInv
<1> QED
  BY <1>1, Invariance, PTL

(* No command is applied twice, late transactions included. *)
THEOREM AppliedAtMostOnce == Spec => []AtMostOnce
<1>1. IInv => AtMostOnce
  BY DEF IInv, Transactions, AtMostOnce
<1> QED
  BY <1>1, Invariance, PTL

(* A mark the server holds is backed by the boards and counters of its batch. *)
THEOREM MarkIsBacked == Spec => []ProgressIsBacked
<1>1. IInv => ProgressIsBacked
  BY DEF IInv
<1> QED
  BY <1>1, Invariance, PTL

(* A consume() that reports no failure has its batch applied as a whole. *)
THEOREM ReportedSuccess == Spec => []SuccessIsLanded
<1>1. IInv => SuccessIsLanded
  BY DEF IInv
<1> QED
  BY <1>1, Invariance, PTL

-----------------------------------------------------------------------------
(* The ledger only grows, one transaction at a time. *)
LEMMA LedgerGrows ==
  ASSUME [Next]_vars
  PROVE  ledger' = ledger \/ \E e : ledger' = Append(ledger, e)
<1>1. ASSUME NEW drains \in BOOLEAN, Queue(drains)
      PROVE  ledger' = ledger \/ \E e : ledger' = Append(ledger, e)
  BY <1>1 DEF Queue, Apply
<1>2. CASE DrainExec
  BY <1>2 DEF DrainExec, Apply
<1>3. CASE DrainBreak
  BY <1>3 DEF DrainBreak, Outcome, Apply
<1>4. CASE LateCommit
  BY <1>4 DEF LateCommit, Apply
<1>5. CASE (\E m \in BOOLEAN : Consume(m)) \/ Flush \/ DrainQueued \/ ResumeAt \/ UNCHANGED vars
  BY <1>5 DEF Consume, Flush, DrainQueued, ResumeAt, vars, server
<1> QED
  BY <1>1, <1>2, <1>3, <1>4, <1>5 DEF Next, Increment, Rank, Mark

(* What an appended transaction does to the batches: its own batch, which   *)
(* had nothing, gets its commands; the others keep what they had.           *)
LEMMA LandedStep ==
  ASSUME IInv, IInv', NEW e, ledger' = Append(ledger, e)
  PROVE  /\ e \in Entries /\ Reachable(e)
         /\ Landed(e.batch) = {}
         /\ \A b \in 1 .. MaxBatches : Landed(b)' = IF b = e.batch THEN e.cmds ELSE Landed(b)
<1>1. /\ ledger \in Seq(Entries) /\ ledger' \in Seq(Entries)
      /\ DOMAIN ledger = 1 .. Len(ledger) /\ Len(ledger) \in Nat
      /\ DOMAIN ledger' = 1 .. Len(ledger) + 1
      /\ \A i \in DOMAIN ledger : ledger'[i] = ledger[i]
      /\ ledger'[Len(ledger) + 1] = e
  BY DEF IInv, TypeOK, ServerOK
<1>2. e \in Entries /\ Reachable(e)
  <2>1. \A i \in DOMAIN ledger' : ledger'[i] \in Entries /\ Reachable(ledger'[i])
    BY DEF IInv, Transactions, Reachable, Promise!From
  <2> QED
    BY <1>1, <2>1
<1>3. \A i \in DOMAIN ledger : ledger[i].batch # e.batch
  <2>1. \A i, j \in DOMAIN ledger' : i # j => ledger'[i].batch # ledger'[j].batch
    BY DEF IInv, Transactions
  <2> QED
    BY <1>1, <2>1
<1>4. Landed(e.batch) = {}
  BY <1>3 DEF Landed
<1>5. ASSUME NEW b \in 1 .. MaxBatches
      PROVE  Landed(b)' = IF b = e.batch THEN e.cmds ELSE Landed(b)
  <2>1. CASE b = e.batch
    <3>1. {j \in DOMAIN ledger' : ledger'[j].batch = b} = {Len(ledger) + 1}
      BY <1>1, <1>3, <2>1
    <3> QED
      BY <1>1, <2>1, <3>1 DEF Landed
  <2>2. CASE b # e.batch
    <3>1. {j \in DOMAIN ledger' : ledger'[j].batch = b} = {j \in DOMAIN ledger : ledger[j].batch = b}
      BY <1>1, <2>2
    <3>2. {ledger'[i].cmds : i \in {j \in DOMAIN ledger' : ledger'[j].batch = b}}
             = {ledger[i].cmds : i \in {j \in DOMAIN ledger : ledger[j].batch = b}}
      BY <1>1, <3>1
    <3> QED
      BY <2>2, <3>2 DEF Landed
  <2> QED
    BY <2>1, <2>2
<1> QED
  BY <1>2, <1>4, <1>5

(* The store implements the ledger: every step lands one batch that had     *)
(* not landed, as everything it issued from some command on, or nothing.    *)
THEOREM Implements == Spec => ImplementsPromise
<1> DEFINE landed == [b \in 1 .. MaxBatches |-> Landed(b)]
<1>1. Init => Promise!Init
  <2> SUFFICES ASSUME Init PROVE landed = [b \in Promise!Batches |-> {}]
    BY DEF Promise!Init
  <2>1. ledger = <<>>
    BY DEF Init
  <2>2. \A b : Landed(b) = {}
    BY <2>1 DEF Landed
  <2> QED
    BY <2>2 DEF Promise!Batches
<1>2. IInv /\ IInv' /\ [Next]_vars => [Promise!Next]_landed
  <2> SUFFICES ASSUME IInv, IInv', [Next]_vars PROVE Promise!Next \/ UNCHANGED landed
    OBVIOUS
  <2>1. CASE ledger' = ledger
    BY <2>1 DEF Landed
  <2>2. ASSUME NEW e, ledger' = Append(ledger, e)
        PROVE  Promise!Next
    <3>1. /\ e \in Entries /\ Reachable(e) /\ Landed(e.batch) = {}
          /\ \A b \in 1 .. MaxBatches : Landed(b)' = IF b = e.batch THEN e.cmds ELSE Landed(b)
      BY <2>2, LandedStep
    <3>2. PICK k \in 1 .. N, m \in BOOLEAN : e.cmds = Promise!From(k, m)
      BY <3>1 DEF Reachable
    <3>3. e.batch \in Promise!Batches
      BY <3>1 DEF Entries, Promise!Batches
    <3>4. landed' = [landed EXCEPT ![e.batch] = Promise!From(k, m)]
      BY <3>1, <3>2, <3>3 DEF Promise!Batches
    <3>5. Promise!Land(e.batch, k, m)
      BY <3>1, <3>3, <3>4 DEF Promise!Land, Promise!Batches
    <3> QED
      BY <3>3, <3>5 DEF Promise!Next
  <2> QED
    BY <2>1, <2>2, LedgerGrows
<1> QED
  BY <1>1, <1>2, Invariance, PTL DEF Spec, ImplementsPromise, Promise!Spec
=============================================================================
