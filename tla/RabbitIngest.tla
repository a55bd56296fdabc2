---------------------------- MODULE RabbitIngest ----------------------------
(***************************************************************************)
(* Queue ingestion: the consumer threads of RabbitIngestor, each with one  *)
(* RabbitConn and a RabbitSource per connection, over one queue of the     *)
(* broker.  A batch goes to the sink first and is acked then, by the tag   *)
(* of its last message; what a connection leaves unacked is redelivered.   *)
(*                                                                         *)
(* Delivery tags are positions in what the broker sent on a channel.  Only *)
(* the order of events is modelled: how long a poll or a backoff takes is  *)
(* left out, so is the first-failure logging that hangs on it.             *)
(***************************************************************************)
EXTENDS Naturals, Sequences, FiniteSets

CONSTANTS Consumers,    \* cfg.rabbit.consumers
          Messages,     \* bound: the messages of one behaviour
          Rejected,     \* those the parser refuses
          BatchSize,    \* kRabbitBatchSize
          MaxDrops,     \* bound: connections lost, a kill included
          MaxStarts,    \* bound: starts of the ingestor; the last one runs on
          StoreFails    \* whether the sink may fail to write a batch

ASSUME RabbitAssumption ==
    /\ IsFiniteSet(Consumers)
    /\ Rejected \in SUBSET Messages
    /\ BatchSize \in Nat \ {0}
    /\ MaxDrops \in Nat /\ MaxStarts \in Nat /\ StoreFails \in BOOLEAN

Prefetch == 2 * BatchSize

VARIABLES
    ready,     \* messages in the queue that are with no consumer
    settled,   \* messages the broker has dropped on an ack
    link,      \* per consumer: the broker has its channel open
    chan,      \* what the broker sent on its latest channel, by delivery tag
    cleared,   \* up to which tag the broker has seen acks there
    acked,     \* up to which tag the client has written acks there
    main,      \* the ingestor: stopped, running, stopping
    starts, drops,
    pc,        \* per thread: gone, check, open, backoff, loop, read, sink, ack
    last_tag,  \* m_last_tag of the source: the last delivery read off the channel
    batch,     \* out: the records of the batch
    counted    \* per message: how often its record was counted

broker == <<ready, settled, cleared>>
thread == <<pc, last_tag, batch>>
vars   == <<broker, link, chan, acked, main, starts, drops, thread, counted>>

Init ==
    /\ ready = Messages /\ settled = {}
    /\ link = [c \in Consumers |-> FALSE] /\ chan = [c \in Consumers |-> <<>>]
    /\ cleared = [c \in Consumers |-> 0] /\ acked = [c \in Consumers |-> 0]
    /\ main = "stopped" /\ starts = 0 /\ drops = 0
    /\ pc = [c \in Consumers |-> "gone"]
    /\ last_tag = [c \in Consumers |-> 0]
    /\ batch = [c \in Consumers |-> <<>>]
    /\ counted = [m \in Messages |-> 0]

-----------------------------------------------------------------------------
(* The broker. *)

(* The messages on c's channel with a tag in a set. *)
Tagged(c, tags) == {chan[c][i] : i \in tags \cap DOMAIN chan[c]}

(* No more than the prefetch is out unacked on a channel. *)
Deliver(c, m) ==
    /\ link[c] /\ m \in ready /\ Len(chan[c]) - cleared[c] < Prefetch
    /\ ready' = ready \ {m} /\ chan' = [chan EXCEPT ![c] = Append(@, m)]
    /\ UNCHANGED <<settled, cleared, link, acked, main, starts, drops, thread, counted>>

TakeAck(c) ==
    /\ link[c] /\ acked[c] > cleared[c]
    /\ settled' = settled \cup Tagged(c, cleared[c] + 1 .. acked[c])
    /\ cleared' = [cleared EXCEPT ![c] = acked[c]]
    /\ UNCHANGED <<ready, link, chan, acked, main, starts, drops, thread, counted>>

Open(cs) == {c \in cs : link[c]}
Unacked(cs) == UNION {Tagged(c, cleared[c] + 1 .. Len(chan[c])) : c \in Open(cs)}

(* Connections that break: acks still on the wire are lost. *)
Cut(cs) ==
    /\ ready' = ready \cup Unacked(cs)
    /\ link' = [c \in Consumers |-> link[c] /\ c \notin cs]
    /\ UNCHANGED <<settled, cleared>>

(* Connections that are closed: the broker has read every ack before. *)
Close(cs) ==
    LET read == UNION {Tagged(c, cleared[c] + 1 .. acked[c]) : c \in Open(cs)}
    IN  /\ settled' = settled \cup read
        /\ ready' = ready \cup (Unacked(cs) \ read)
        /\ cleared' = [c \in Consumers |-> IF c \in Open(cs) THEN acked[c] ELSE cleared[c]]
        /\ link' = [c \in Consumers |-> link[c] /\ c \notin cs]

Drop(c) ==
    /\ link[c] /\ drops < MaxDrops
    /\ drops' = drops + 1
    /\ Cut({c})
    /\ UNCHANGED <<chan, acked, main, starts, thread, counted>>

-----------------------------------------------------------------------------
Goto(c, where) == pc' = [pc EXCEPT ![c] = where]

(* The outer loop of consume(). *)
Check(c) ==
    /\ pc[c] = "check"
    /\ Goto(c, IF main = "stopping" THEN "gone" ELSE "open")
    /\ UNCHANGED <<broker, link, chan, acked, main, starts, drops, last_tag, batch, counted>>

(* open() succeeds: a new channel, on which the tags restart, and a new     *)
(* source.  What was open before has failed, so closing it changes nothing. *)
Connect(c) ==
    /\ pc[c] = "open" /\ ~link[c]
    /\ link' = [link EXCEPT ![c] = TRUE]
    /\ chan' = [chan EXCEPT ![c] = <<>>]
    /\ cleared' = [cleared EXCEPT ![c] = 0] /\ acked' = [acked EXCEPT ![c] = 0]
    /\ last_tag' = [last_tag EXCEPT ![c] = 0]
    /\ Goto(c, "loop")
    /\ UNCHANGED <<ready, settled, main, starts, drops, batch, counted>>

ConnectFails(c) ==
    /\ pc[c] = "open" /\ ~link[c]
    /\ Goto(c, "backoff")
    /\ UNCHANGED <<broker, link, chan, acked, main, starts, drops, last_tag, batch, counted>>

(* backoff() ends after its delay, or within a slice of a stop. *)
Backoff(c) ==
    /\ pc[c] = "backoff"
    /\ Goto(c, "check")
    /\ UNCHANGED <<broker, link, chan, acked, main, starts, drops, last_tag, batch, counted>>

ReadOn == FALSE
StopSeen == main = "stopping"

(* The inner loop; next() starts by clearing the batch. *)
Loop(c) ==
    /\ pc[c] = "loop"
    /\ IF StopSeen THEN Goto(c, "check") /\ UNCHANGED batch
       ELSE Goto(c, "read") /\ batch' = [batch EXCEPT ![c] = <<>>]
    /\ UNCHANGED <<broker, link, chan, acked, main, starts, drops, last_tag, counted>>

FullLate(c) == Len(batch[c]) > BatchSize
Full(c) == Len(batch[c]) = BatchSize

(* next() takes one delivery; a refused one is counted and dropped. *)
Take(c) ==
    LET m == chan[c][last_tag[c] + 1]
    IN  /\ pc[c] = "read" /\ ~Full(c) /\ last_tag[c] < Len(chan[c])
        /\ last_tag' = [last_tag EXCEPT ![c] = @ + 1]
        /\ batch' = IF m \in Rejected THEN batch ELSE [batch EXCEPT ![c] = Append(@, m)]
        /\ UNCHANGED <<broker, link, chan, acked, main, starts, drops, pc, counted>>

(* The batch is full, or nothing arrived within kPollMs; an empty one goes  *)
(* nowhere, not even to be acked.                                           *)
Next_(c) ==
    /\ pc[c] = "read"
    /\ \/ Full(c)
       \/ link[c] /\ last_tag[c] = Len(chan[c])
    /\ Goto(c, IF batch[c] = <<>> THEN "loop" ELSE "sink")
    /\ UNCHANGED <<broker, link, chan, acked, main, starts, drops, last_tag, batch, counted>>

(* The read fails: what the batch holds is left unacked. *)
ReadFails(c) ==
    /\ pc[c] = "read" /\ ~Full(c) /\ ~link[c]
    /\ Goto(c, "check")
    /\ UNCHANGED <<broker, link, chan, acked, main, starts, drops, last_tag, batch, counted>>

Of(c) == {batch[c][i] : i \in DOMAIN batch[c]}

(* m_sink.consume(): it reports nothing, so a batch the store lost goes on  *)
(* to be acked.                                                             *)
Consume(c) ==
    /\ pc[c] = "sink"
    /\ \/ counted' = [m \in Messages |-> IF m \in Of(c) THEN counted[m] + 1 ELSE counted[m]]
       \/ StoreFails /\ UNCHANGED counted
    /\ Goto(c, "ack")
    /\ UNCHANGED <<broker, link, chan, acked, main, starts, drops, last_tag, batch>>

OneShort(c) == last_tag[c] - 1
Outstanding(c) == Len(chan[c])    \* what tag 0 stands for in AMQP
AckTag(c) == last_tag[c]

(* ack(last_tag, true): true when it reached the socket, which a broken     *)
(* connection may still allow.                                              *)
Ack(c) ==
    /\ pc[c] = "ack"
    /\ \/ /\ acked' = [acked EXCEPT ![c] = AckTag(c)]
          /\ Goto(c, "loop")
       \/ /\ ~link[c]
          /\ Goto(c, "check") /\ UNCHANGED acked
    /\ UNCHANGED <<broker, link, chan, main, starts, drops, last_tag, batch, counted>>

-----------------------------------------------------------------------------
(* start(): a connection and a thread per consumer; the threads connect. *)
Start ==
    /\ main = "stopped" /\ starts < MaxStarts
    /\ main' = "running" /\ starts' = starts + 1
    /\ pc' = [c \in Consumers |-> "check"]
    /\ UNCHANGED <<broker, link, chan, acked, drops, last_tag, batch, counted>>

(* stop(): the flag, the threads joined, the connections closed. *)
Stop ==
    /\ main = "running" /\ starts < MaxStarts
    /\ main' = "stopping"
    /\ UNCHANGED <<broker, link, chan, acked, starts, drops, thread, counted>>

Join ==
    /\ main = "stopping" /\ \A c \in Consumers : pc[c] = "gone"
    /\ main' = "stopped"
    /\ Close(Consumers)
    /\ UNCHANGED <<chan, acked, starts, drops, thread, counted>>

(* The process is killed. *)
Kill ==
    /\ main # "stopped" /\ starts < MaxStarts /\ drops < MaxDrops
    /\ main' = "stopped" /\ drops' = drops + 1
    /\ pc' = [c \in Consumers |-> "gone"] /\ batch' = [c \in Consumers |-> <<>>]
    /\ Cut(Consumers)
    /\ UNCHANGED <<chan, acked, starts, last_tag, counted>>

Serve == \E c \in Consumers, m \in Messages : Deliver(c, m)
Run(c) ==
    \/ Check(c) \/ Backoff(c) \/ Loop(c) \/ Take(c) \/ Next_(c) \/ ReadFails(c)
    \/ Consume(c) \/ Ack(c)

Next ==
    \/ Serve
    \/ \E c \in Consumers : TakeAck(c) \/ Drop(c) \/ Run(c) \/ Connect(c) \/ ConnectFails(c)
    \/ Start
    \/ Stop
    \/ Join
    \/ Kill

Spec == Init /\ [][Next]_vars

(* The broker hands out what it has and reads acks; a thread goes on; a     *)
(* connect that is tried again and again succeeds; a stopped ingestor is    *)
(* started again.  Nobody has to stop or to lose a connection.  *)
Fairness ==
    /\ WF_vars(Serve) /\ WF_vars(Start) /\ WF_vars(Join)
    /\ \A c \in Consumers : WF_vars(TakeAck(c)) /\ WF_vars(Run(c)) /\ SF_vars(Connect(c))

FairSpec == Spec /\ Fairness

-----------------------------------------------------------------------------
TypeOK ==
    /\ ready \in SUBSET Messages /\ settled \in SUBSET Messages
    /\ link \in [Consumers -> BOOLEAN] /\ chan \in [Consumers -> Seq(Messages)]
    /\ main \in {"stopped", "running", "stopping"}
    /\ starts \in 0 .. MaxStarts /\ drops \in 0 .. MaxDrops
    /\ pc \in [Consumers -> {"gone", "check", "open", "backoff", "loop", "read", "sink", "ack"}]
    /\ {last_tag, acked, cleared} \subseteq [Consumers -> Nat]
    /\ \A c \in Consumers :
        /\ last_tag[c] \in 0 .. Len(chan[c])
        /\ acked[c] \in 0 .. last_tag[c] /\ cleared[c] \in 0 .. acked[c]
    /\ batch \in [Consumers -> Seq(Messages)]
    /\ \A c \in Consumers : Len(batch[c]) <= BatchSize
    /\ counted \in [Messages -> Nat]

(* docs/DL_Design.md:170, "the safe order for loss": a message the broker   *)
(* dropped was counted, or the parser refused it.                           *)
AckedIsCounted == \A m \in settled \ Rejected : counted[m] > 0

(* docs/DL_Design.md:172: counted twice only when a connection died between *)
(* the write and the ack; a stop that is followed by a start is not such a  *)
(* death, and one death adds a message at most once more.                   *)
OncePerDrop == \A m \in Messages : counted[m] <= 1 + drops

(* Every message the parser takes is settled in the end, whatever           *)
(* connections, stops and kills come in between.                            *)
Settles == \A m \in Messages \ Rejected : m \in ready ~> m \in settled

(* stop() returns, from a backoff, a poll or the middle of a batch. *)
StopReturns == main = "stopping" ~> main # "stopping"
=============================================================================
