------------------------- MODULE RabbitIngestProofs -------------------------
(***************************************************************************)
(* Theorems about RabbitIngest, for any finite set of consumers, any       *)
(* messages and any batch size.                                            *)
(***************************************************************************)
EXTENDS RabbitIngest, FiniteSetTheorems, TLAPS

Inside == {"loop", "read", "sink", "ack"}
Filling == {"read", "sink"}

-----------------------------------------------------------------------------
(* The inductive invariant. *)

(* The broker has every message in at most one place: in the queue, dropped,*)
(* or unacked on one open channel.                                          *)
Apart == ready \cap settled = {}

Distinct == \A c \in Consumers : \A i, j \in DOMAIN chan[c] : chan[c][i] = chan[c][j] => i = j

ClearedIsSettled ==
    \A c \in Consumers : \A i \in DOMAIN chan[c] :
        link[c] => IF i <= cleared[c] THEN chan[c][i] \in settled
                   ELSE chan[c][i] \notin ready \cup settled

OnOneChannel ==
    \A c, d \in Consumers : \A i \in DOMAIN chan[c], j \in DOMAIN chan[d] :
        link[c] /\ link[d] /\ c # d /\ i > cleared[c] /\ j > cleared[d] => chan[c][i] # chan[d][j]

OnePlace == Apart /\ Distinct /\ ClearedIsSettled /\ OnOneChannel

(* What a thread holds in its batch it has read off its channel; what it    *)
(* has read and not acked is refused, in its batch, about to be acked, or   *)
(* gone with the connection.                                                *)
Held(c) ==
    /\ pc[c] \in Filling => \A k \in DOMAIN batch[c] :
          /\ batch[c][k] \notin Rejected
          /\ \E i \in 1 .. last_tag[c] : chan[c][i] = batch[c][k]
    /\ \A i \in acked[c] + 1 .. last_tag[c] :
          \/ chan[c][i] \in Rejected
          \/ pc[c] \in Filling /\ chan[c][i] \in Of(c)
          \/ pc[c] = "ack"
          \/ pc[c] \notin Inside /\ ~link[c]

NobodyLeft == main = "stopped" => \A c \in Consumers : pc[c] = "gone"

Reading == NobodyLeft /\ \A c \in Consumers : Held(c)

(* Who may still count a message: a thread that will read it, or holds it   *)
(* in a batch that has not been to the sink.                                *)
Holds(c, m) ==
    \/ pc[c] \in Filling /\ m \in Of(c)
    \/ (link[c] \/ pc[c] \in Inside)
       /\ \E i \in DOMAIN chan[c] : i > last_tag[c] /\ chan[c][i] = m

Holders(m) == {c \in Consumers : Holds(c, m)}
Waits(m) == IF m \in ready THEN 1 ELSE 0

(* Each lost connection pays for one count more. *)
Paid(m) == counted[m] + Cardinality(Holders(m)) + Waits(m) <= 1 + drops

Budget ==
    /\ \A m \in Rejected : counted[m] = 0
    /\ \A m \in Messages \ Rejected : Paid(m)

IInv == TypeOK /\ OnePlace /\ Reading /\ Budget

(* What the client has acked, or is about to, is counted or refused. *)
Upto(c) == IF pc[c] = "ack" THEN last_tag[c] ELSE acked[c]
Safe(c) == \A i \in 1 .. Upto(c) : chan[c][i] \in Rejected \/ counted[chan[c][i]] > 0

AcksAreSafe == \A c \in Consumers : Safe(c)

-----------------------------------------------------------------------------
USE RabbitAssumption

LEMMA TypeInit == Init => TypeOK
<1> SUFFICES ASSUME Init PROVE TypeOK
  OBVIOUS
<1> QED BY DEF Init, TypeOK

LEMMA TypeNext == TypeOK /\ [Next]_vars => TypeOK'
<1> SUFFICES ASSUME TypeOK, [Next]_vars PROVE TypeOK'
  OBVIOUS
<1> USE DEF TypeOK, broker, thread, Goto
<1>1. CASE Serve
  BY <1>1 DEF Serve, Deliver
<1>2. ASSUME NEW c \in Consumers, TakeAck(c) PROVE TypeOK'
  BY <1>2 DEF TakeAck, Tagged
<1>3. ASSUME NEW c \in Consumers, Drop(c) PROVE TypeOK'
  <2> SUFFICES ASSUME Drop(c) PROVE TypeOK'
    BY <1>3
  <2>1. Unacked({c}) \subseteq Messages
    BY DEF Unacked, Open, Tagged
  <2>2. drops' \in 0 .. MaxDrops
    BY DEF Drop
  <2>4. ready' \in SUBSET Messages
    BY <2>1 DEF Drop, Cut
  <2>3. link' \in [Consumers -> BOOLEAN]
    BY DEF Drop, Cut
  <2> QED
    BY <2>2, <2>3, <2>4 DEF Drop, Cut
<1>4. ASSUME NEW c \in Consumers, Check(c) PROVE TypeOK'
  BY <1>4 DEF Check
<1>5. ASSUME NEW c \in Consumers, Backoff(c) PROVE TypeOK'
  BY <1>5 DEF Backoff
<1>6. ASSUME NEW c \in Consumers, Loop(c) PROVE TypeOK'
  <2>1. CASE StopSeen
    BY <1>6, <2>1 DEF Loop
  <2>2. CASE ~StopSeen
    <3>1. batch' \in [Consumers -> Seq(Messages)] /\ \A d \in Consumers : Len(batch'[d]) <= BatchSize
      <4>1. batch' = [batch EXCEPT ![c] = <<>>]
        BY <1>6, <2>2 DEF Loop
      <4>2. <<>> \in Seq(Messages) /\ Len(<<>>) <= BatchSize
        OBVIOUS
      <4> QED
        BY <4>1, <4>2
    <3> QED
      BY <1>6, <2>2, <3>1 DEF Loop
  <2> QED
    BY <2>1, <2>2
<1>7. ASSUME NEW c \in Consumers, Take(c) PROVE TypeOK'
  <2> SUFFICES ASSUME Take(c) PROVE TypeOK'
    BY <1>7
  <2> DEFINE m == chan[c][last_tag[c] + 1]
  <2>1. m \in Messages /\ last_tag' = [last_tag EXCEPT ![c] = @ + 1] /\ last_tag[c] < Len(chan[c])
    BY DEF Take
  <2>2. batch' \in [Consumers -> Seq(Messages)] /\ \A d \in Consumers : Len(batch'[d]) <= BatchSize
    <3>1. Len(batch[c]) < BatchSize
      BY DEF Take, Full
    <3>2. CASE m \in Rejected
      BY <3>2 DEF Take
    <3>3. CASE m \notin Rejected
      <4> DEFINE more == Append(batch[c], m)
      <4>1. more \in Seq(Messages) /\ Len(more) <= BatchSize
        BY <2>1, <3>1
      <4>2. batch' = [batch EXCEPT ![c] = more]
        BY <3>3 DEF Take
      <4> HIDE DEF more
      <4> QED
        BY <4>1, <4>2
    <3> QED
      BY <3>2, <3>3
  <2> HIDE DEF m
  <2> QED
    <3>1. last_tag' \in [Consumers -> Nat]
      BY <2>1
    <3>2. \A d \in Consumers : last_tag'[d] \in 0 .. Len(chan[d]) /\ acked[d] \in 0 .. last_tag'[d]
      BY <2>1
    <3> QED
      BY <2>2, <3>1, <3>2 DEF Take
<1>8. ASSUME NEW c \in Consumers, Next_(c) PROVE TypeOK'
  BY <1>8 DEF Next_
<1>9. ASSUME NEW c \in Consumers, ReadFails(c) PROVE TypeOK'
  BY <1>9 DEF ReadFails
<1>10. ASSUME NEW c \in Consumers, Consume(c) PROVE TypeOK'
  <2>1. counted' \in [Messages -> Nat]
    <3>1. CASE counted' = [m \in Messages |-> IF m \in Of(c) THEN counted[m] + 1 ELSE counted[m]]
      BY <3>1
    <3>2. CASE UNCHANGED counted
      BY <3>2
    <3> QED
      BY <1>10, <3>1, <3>2 DEF Consume
  <2> QED
    BY <1>10, <2>1 DEF Consume
<1>11. ASSUME NEW c \in Consumers, Ack(c) PROVE TypeOK'
  <2>1. CASE acked' = [acked EXCEPT ![c] = AckTag(c)] /\ Goto(c, "loop")
    BY <1>11, <2>1 DEF Ack, AckTag
  <2>2. CASE Goto(c, "check") /\ UNCHANGED acked
    BY <1>11, <2>2 DEF Ack
  <2> QED
    BY <1>11, <2>1, <2>2 DEF Ack
<1>12. ASSUME NEW c \in Consumers, Connect(c) PROVE TypeOK'
  BY <1>12 DEF Connect
<1>13. ASSUME NEW c \in Consumers, ConnectFails(c) PROVE TypeOK'
  BY <1>13 DEF ConnectFails
<1>14. CASE Start
  BY <1>14 DEF Start
<1>15. CASE Stop
  BY <1>15 DEF Stop
<1>16. CASE Join
  BY <1>16 DEF Join, Close, Unacked, Open, Tagged
<1>17. CASE Kill
  BY <1>17 DEF Kill, Cut, Unacked, Open, Tagged
<1>18. CASE UNCHANGED vars
  BY <1>18 DEF vars
<1> QED
  BY <1>1, <1>2, <1>3, <1>4, <1>5, <1>6, <1>7, <1>8, <1>9, <1>10, <1>11, <1>12, <1>13,
     <1>14, <1>15, <1>16, <1>17, <1>18 DEF Next, Run

-----------------------------------------------------------------------------
(* Where messages are. *)
LEMMA InUnacked ==
    ASSUME TypeOK, NEW cs \in SUBSET Consumers, NEW m \in Unacked(cs)
    PROVE  \E c \in cs : \E i \in DOMAIN chan[c] : link[c] /\ i > cleared[c] /\ chan[c][i] = m
BY DEF Unacked, Open, Tagged, TypeOK

LEMMA CutPlaces ==
    ASSUME TypeOK, OnePlace, NEW cs \in SUBSET Consumers, Cut(cs), UNCHANGED chan
    PROVE  OnePlace'
<1>1. /\ ready' = ready \cup Unacked(cs)
      /\ link' = [c \in Consumers |-> link[c] /\ c \notin cs]
      /\ settled' = settled /\ cleared' = cleared /\ chan' = chan
  BY DEF Cut
<1>2. Apart'
  <2> SUFFICES ASSUME NEW m \in ready', m \in settled' PROVE FALSE
    BY DEF Apart
  <2>1. m \in Unacked(cs)
    BY <1>1 DEF OnePlace, Apart
  <2>2. PICK c \in cs : \E i \in DOMAIN chan[c] : link[c] /\ i > cleared[c] /\ chan[c][i] = m
    BY <2>1, InUnacked
  <2> QED
    BY <1>1, <2>2 DEF OnePlace, ClearedIsSettled, TypeOK
<1>3. ClearedIsSettled'
  <2> SUFFICES ASSUME NEW c \in Consumers, NEW i \in DOMAIN chan[c], link'[c]
               PROVE  IF i <= cleared[c] THEN chan[c][i] \in settled
                      ELSE chan[c][i] \notin ready' \cup settled
    BY <1>1 DEF ClearedIsSettled
  <2>1. link[c] /\ c \notin cs
    BY <1>1
  <2>2. CASE i <= cleared[c]
    BY <2>1, <2>2 DEF OnePlace, ClearedIsSettled
  <2>3. CASE i > cleared[c]
    <3>1. chan[c][i] \notin Unacked(cs)
      <4> SUFFICES ASSUME chan[c][i] \in Unacked(cs) PROVE FALSE
        OBVIOUS
      <4>1. PICK d \in cs : \E j \in DOMAIN chan[d] :
                link[d] /\ j > cleared[d] /\ chan[d][j] = chan[c][i]
        BY InUnacked
      <4> QED
        BY <2>1, <2>3, <4>1 DEF OnePlace, OnOneChannel
    <3> QED
      BY <1>1, <2>1, <2>3, <3>1 DEF OnePlace, ClearedIsSettled, TypeOK
  <2> QED
    BY <2>2, <2>3 DEF TypeOK
<1>4. Distinct' /\ OnOneChannel'
  <2>1. \A c \in Consumers : link'[c] => link[c]
    BY <1>1
  <2> QED
    BY <1>1, <2>1 DEF OnePlace, Distinct, OnOneChannel
<1> QED
  BY <1>2, <1>3, <1>4 DEF OnePlace

LEMMA ClosePlaces ==
    ASSUME TypeOK, OnePlace, Close(Consumers), UNCHANGED chan
    PROVE  OnePlace'
<1> DEFINE read == UNION {Tagged(c, cleared[c] + 1 .. acked[c]) : c \in Open(Consumers)}
<1>1. /\ settled' = settled \cup read
      /\ ready' = ready \cup (Unacked(Consumers) \ read)
      /\ \A c \in Consumers : ~link'[c]
      /\ chan' = chan
  BY DEF Close
<1>2. read \subseteq Unacked(Consumers)
  BY DEF Unacked, Open, Tagged, TypeOK
<1>3. Unacked(Consumers) \cap (ready \cup settled) = {}
  <2> SUFFICES ASSUME NEW m \in Unacked(Consumers) PROVE m \notin ready \cup settled
    OBVIOUS
  <2>1. PICK c \in Consumers : \E i \in DOMAIN chan[c] : link[c] /\ i > cleared[c] /\ chan[c][i] = m
    BY InUnacked
  <2> QED
    BY <2>1 DEF OnePlace, ClearedIsSettled, TypeOK
<1> HIDE DEF read
<1>4. Apart'
  BY <1>1, <1>2, <1>3 DEF Apart, OnePlace
<1>5. Distinct' /\ ClearedIsSettled' /\ OnOneChannel'
  BY <1>1 DEF OnePlace, Distinct, ClearedIsSettled, OnOneChannel
<1> QED
  BY <1>4, <1>5 DEF OnePlace

LEMMA DeliverPlaces ==
    ASSUME TypeOK, OnePlace, NEW c \in Consumers, NEW m \in Messages, Deliver(c, m)
    PROVE  OnePlace'
<1>1. /\ link[c] /\ m \in ready /\ ready' = ready \ {m}
      /\ chan' = [chan EXCEPT ![c] = Append(@, m)]
      /\ settled' = settled /\ cleared' = cleared /\ link' = link
  BY DEF Deliver
<1>2. /\ chan'[c] = Append(chan[c], m)
      /\ \A d \in Consumers : d # c => chan'[d] = chan[d]
  BY <1>1 DEF TypeOK
<1>3. /\ DOMAIN chan'[c] = DOMAIN chan[c] \cup {Len(chan[c]) + 1}
      /\ \A i \in DOMAIN chan[c] : chan'[c][i] = chan[c][i] /\ i # Len(chan[c]) + 1
      /\ chan'[c][Len(chan[c]) + 1] = m
      /\ cleared[c] < Len(chan[c]) + 1
  <2>1. chan[c] \in Seq(Messages) /\ cleared[c] \in Nat /\ cleared[c] <= Len(chan[c])
    BY DEF TypeOK
  <2> QED
    BY <1>2, <2>1
<1>4. m \notin settled /\ \A i \in DOMAIN chan[c] : chan[c][i] # m
  BY <1>1 DEF OnePlace, Apart, ClearedIsSettled, TypeOK
<1>5. Apart' /\ Distinct'
  BY <1>1, <1>2, <1>3, <1>4 DEF OnePlace, Apart, Distinct
<1>6. ClearedIsSettled'
  <2> SUFFICES ASSUME NEW d \in Consumers, NEW i \in DOMAIN chan'[d], link[d]
               PROVE  IF i <= cleared[d] THEN chan'[d][i] \in settled
                      ELSE chan'[d][i] \notin ready' \cup settled
    BY <1>1 DEF ClearedIsSettled
  <2>1. CASE d # c \/ i \in DOMAIN chan[c]
    <3>1. i \in DOMAIN chan[d] /\ chan'[d][i] = chan[d][i]
      BY <1>2, <1>3, <2>1
    <3> QED
      BY <1>1, <3>1 DEF OnePlace, ClearedIsSettled
  <2>2. CASE d = c /\ i = Len(chan[c]) + 1
    BY <1>1, <1>3, <1>4, <2>2 DEF TypeOK
  <2> QED
    BY <1>3, <2>1, <2>2
<1>7. \A d \in Consumers : \A j \in DOMAIN chan[d] : link[d] /\ j > cleared[d] => chan[d][j] # m
  BY <1>1 DEF OnePlace, ClearedIsSettled, TypeOK
<1>8. OnOneChannel'
  <2> SUFFICES ASSUME NEW a \in Consumers, NEW b \in Consumers, a # b, link[a], link[b],
                      NEW i \in DOMAIN chan'[a], NEW j \in DOMAIN chan'[b],
                      i > cleared[a], j > cleared[b]
               PROVE  chan'[a][i] # chan'[b][j]
    BY <1>1 DEF OnOneChannel
  <2>1. CASE a # c /\ b # c
    BY <1>2, <2>1 DEF OnePlace, OnOneChannel
  <2>2. CASE a = c
    <3>1. CASE i \in DOMAIN chan[c]
      BY <1>2, <1>3, <2>2, <3>1 DEF OnePlace, OnOneChannel
    <3>2. CASE i \notin DOMAIN chan[c]
      BY <1>2, <1>3, <1>7, <2>2, <3>2
    <3> QED
      BY <3>1, <3>2
  <2>3. CASE b = c
    <3>1. CASE j \in DOMAIN chan[c]
      BY <1>2, <1>3, <2>3, <3>1 DEF OnePlace, OnOneChannel
    <3>2. CASE j \notin DOMAIN chan[c]
      BY <1>2, <1>3, <1>7, <2>3, <3>2
    <3> QED
      BY <3>1, <3>2
  <2> QED
    BY <2>1, <2>2, <2>3
<1> QED
  BY <1>5, <1>6, <1>8 DEF OnePlace

LEMMA TakeAckPlaces ==
    ASSUME TypeOK, OnePlace, NEW c \in Consumers, TakeAck(c)
    PROVE  OnePlace'
<1> DEFINE read == Tagged(c, cleared[c] + 1 .. acked[c])
<1>1. /\ link[c] /\ settled' = settled \cup read
      /\ cleared' = [cleared EXCEPT ![c] = acked[c]] /\ cleared[c] < acked[c]
      /\ ready' = ready /\ chan' = chan /\ link' = link
  BY DEF TakeAck, TypeOK
<1>0. /\ cleared[c] \in Nat /\ acked[c] \in Nat
      /\ \A d \in Consumers : cleared[d] \in Nat /\ \A i \in DOMAIN chan[d] : i \in Nat
  BY DEF TypeOK
<1>2. \A m \in read : \E i \in DOMAIN chan[c] : cleared[c] < i /\ i <= acked[c] /\ chan[c][i] = m
  BY <1>0 DEF Tagged
<1>3. \A i \in DOMAIN chan[c] : cleared[c] < i /\ i <= acked[c] => chan[c][i] \in read
  BY <1>0 DEF Tagged
<1> HIDE DEF read
<1>4. /\ cleared'[c] = acked[c]
      /\ \A d \in Consumers : d # c => cleared'[d] = cleared[d]
  BY <1>1 DEF TypeOK
<1>5. Apart' /\ Distinct'
  BY <1>1, <1>2 DEF OnePlace, Apart, Distinct, ClearedIsSettled, TypeOK
<1>6. OnOneChannel'
  <2> SUFFICES ASSUME NEW a \in Consumers, NEW b \in Consumers, a # b, link[a], link[b],
                      NEW i \in DOMAIN chan[a], NEW j \in DOMAIN chan[b],
                      i > cleared'[a], j > cleared'[b]
               PROVE  chan[a][i] # chan[b][j]
    BY <1>1 DEF OnOneChannel
  <2>1. cleared[a] <= cleared'[a] /\ cleared[b] <= cleared'[b]
    BY <1>0, <1>1, <1>4
  <2>2. i > cleared[a] /\ j > cleared[b]
    <3>1. cleared'[a] \in Nat /\ cleared'[b] \in Nat
      BY <1>0, <1>4
    <3> QED
      BY <1>0, <2>1, <3>1
  <2> QED
    BY <2>2 DEF OnePlace, OnOneChannel
<1>7. ClearedIsSettled'
  <2> SUFFICES ASSUME NEW d \in Consumers, NEW i \in DOMAIN chan[d], link[d]
               PROVE  IF i <= cleared'[d] THEN chan[d][i] \in settled'
                      ELSE chan[d][i] \notin ready \cup settled'
    BY <1>1 DEF ClearedIsSettled
  <2>1. CASE i <= cleared'[d]
    BY <1>1, <1>3, <1>4, <2>1 DEF OnePlace, ClearedIsSettled, TypeOK
  <2>2. CASE i > cleared'[d]
    <3>1. i > cleared[d]
      BY <1>1, <1>4, <2>2 DEF TypeOK
    <3>2. chan[d][i] \notin read
      <4> SUFFICES ASSUME chan[d][i] \in read PROVE FALSE
        OBVIOUS
      <4>1. PICK j \in DOMAIN chan[c] : cleared[c] < j /\ j <= acked[c] /\ chan[c][j] = chan[d][i]
        BY <1>2
      <4>2. CASE d = c
        BY <1>4, <2>2, <4>1, <4>2 DEF OnePlace, Distinct, TypeOK
      <4>3. CASE d # c
        BY <1>1, <3>1, <4>1, <4>3 DEF OnePlace, OnOneChannel
      <4> QED
        BY <4>2, <4>3
    <3> QED
      BY <1>1, <2>2, <3>1, <3>2 DEF OnePlace, ClearedIsSettled, TypeOK
  <2>3. cleared'[d] \in Nat /\ i \in Nat
    BY <1>0, <1>4
  <2> QED
    BY <2>1, <2>2, <2>3
<1> QED
  BY <1>5, <1>6, <1>7 DEF OnePlace

LEMMA ConnectPlaces ==
    ASSUME TypeOK, OnePlace, NEW c \in Consumers, Connect(c)
    PROVE  OnePlace'
<1>1. /\ chan'[c] = <<>> /\ \A d \in Consumers : d # c => chan'[d] = chan[d]
      /\ \A d \in Consumers : d # c => link'[d] = link[d] /\ cleared'[d] = cleared[d]
      /\ ready' = ready /\ settled' = settled
  BY DEF Connect, TypeOK
<1>2. DOMAIN chan'[c] = {}
  BY <1>1
<1>3. Apart' /\ Distinct'
  BY <1>1, <1>2 DEF OnePlace, Apart, Distinct
<1>4. ClearedIsSettled' /\ OnOneChannel'
  BY <1>1, <1>2 DEF OnePlace, ClearedIsSettled, OnOneChannel
<1> QED
  BY <1>3, <1>4 DEF OnePlace

LEMMA PlaceNext == TypeOK /\ OnePlace /\ [Next]_vars => OnePlace'
<1> SUFFICES ASSUME TypeOK, OnePlace, [Next]_vars PROVE OnePlace'
  OBVIOUS
<1>1. CASE Serve
  BY <1>1, DeliverPlaces DEF Serve
<1>2. ASSUME NEW c \in Consumers, TakeAck(c) PROVE OnePlace'
  BY <1>2, TakeAckPlaces
<1>3. ASSUME NEW c \in Consumers, Drop(c) PROVE OnePlace'
  BY <1>3, CutPlaces DEF Drop
<1>4. ASSUME NEW c \in Consumers, Connect(c) PROVE OnePlace'
  BY <1>4, ConnectPlaces
<1>5. CASE Join
  BY <1>5, ClosePlaces DEF Join
<1>6. CASE Kill
  BY <1>6, CutPlaces DEF Kill
<1>7. CASE UNCHANGED <<broker, link, chan>>
  BY <1>7 DEF broker, OnePlace, Apart, Distinct, ClearedIsSettled, OnOneChannel
<1>8. ASSUME NEW c \in Consumers, Run(c) \/ ConnectFails(c) PROVE UNCHANGED <<broker, link, chan>>
  BY <1>8 DEF Run, Check, Backoff, Loop, Take, Next_, ReadFails, Consume, Ack, ConnectFails
<1>9. CASE Start \/ Stop \/ UNCHANGED vars
  BY <1>7, <1>9 DEF Start, Stop, vars
<1> QED
  BY <1>1, <1>2, <1>3, <1>4, <1>5, <1>6, <1>7, <1>8, <1>9 DEF Next

-----------------------------------------------------------------------------
(* What threads have in hand. *)
LEMMA HeldStays ==
    ASSUME NEW c \in Consumers, TypeOK, Held(c),
           pc'[c] = pc[c] \/ {pc[c], pc'[c]} \cap Inside = {},
           batch'[c] = batch[c], last_tag'[c] = last_tag[c], acked'[c] = acked[c],
           link'[c] => link[c],
           \A i \in 1 .. last_tag[c] : chan'[c][i] = chan[c][i]
    PROVE  Held(c)'
<1>1. Of(c)' = Of(c)
  BY DEF Of
<1>2. pc[c] \in Filling <=> pc'[c] \in Filling
  BY DEF Inside, Filling
<1>3. \A i \in acked[c] + 1 .. last_tag[c] : i \in 1 .. last_tag[c]
  BY DEF TypeOK
<1> QED
  BY <1>1, <1>2, <1>3 DEF Held, Inside

LEMMA OthersHold ==
    ASSUME NEW c \in Consumers, TypeOK, Reading, Run(c) \/ Connect(c) \/ ConnectFails(c),
           NEW d \in Consumers, d # c
    PROVE  Held(d)'
<1>1. /\ pc'[d] = pc[d] /\ batch'[d] = batch[d] /\ last_tag'[d] = last_tag[d]
      /\ acked'[d] = acked[d] /\ link'[d] = link[d] /\ chan'[d] = chan[d]
  <2> USE DEF TypeOK, Goto, broker
  <2>1. CASE Check(c) \/ Backoff(c) \/ ConnectFails(c) \/ ReadFails(c) \/ Next_(c) \/ Consume(c)
    BY <2>1 DEF Check, Backoff, ConnectFails, ReadFails, Next_, Consume
  <2>2. CASE Loop(c)
    BY <2>2 DEF Loop
  <2>3. CASE Take(c)
    BY <2>3 DEF Take
  <2>4. CASE Ack(c)
    BY <2>4 DEF Ack
  <2>5. CASE Connect(c)
    BY <2>5 DEF Connect
  <2> QED
    BY <2>1, <2>2, <2>3, <2>4, <2>5 DEF Run
<1>2. Held(d)
  BY DEF Reading
<1> QED
  BY <1>1, <1>2, HeldStays

LEMMA RunnerHolds ==
    ASSUME NEW c \in Consumers, TypeOK, TypeOK', Reading, Run(c) \/ Connect(c) \/ ConnectFails(c)
    PROVE  Held(c)'
<1> USE DEF Goto, broker, thread
<1>0. Held(c)
  BY DEF Reading
<1>9. DOMAIN pc = Consumers /\ DOMAIN batch = Consumers
  BY DEF TypeOK
<1>1. CASE Check(c) \/ Backoff(c) \/ ConnectFails(c)
  <2>1. /\ {pc[c], pc'[c]} \cap Inside = {} /\ batch' = batch /\ last_tag' = last_tag
        /\ acked' = acked /\ link' = link /\ chan' = chan
    BY <1>1 DEF Check, Backoff, ConnectFails, Inside, TypeOK
  <2> QED
    BY <1>0, <2>1, HeldStays
<1>2. CASE Loop(c)
  <2>1. /\ pc[c] = "loop" /\ last_tag' = last_tag /\ acked' = acked /\ chan' = chan
        /\ \/ pc'[c] = "check"
           \/ pc'[c] = "read" /\ batch'[c] = <<>>
    <3>1. CASE StopSeen
      BY <1>2, <1>9, <3>1 DEF Loop, StopSeen
    <3>2. CASE ~StopSeen
      BY <1>2, <1>9, <3>2 DEF Loop, StopSeen
    <3> QED
      BY <3>1, <3>2
  <2>2. \A i \in acked[c] + 1 .. last_tag[c] : chan[c][i] \in Rejected
    BY <1>0, <2>1 DEF Held, Inside, Filling
  <2> QED
    BY <2>1, <2>2 DEF Held, Filling
<1>3. CASE Take(c)
  <2> DEFINE m == chan[c][last_tag[c] + 1]
  <2>1. /\ pc[c] = "read" /\ pc'[c] = "read" /\ last_tag'[c] = last_tag[c] + 1
        /\ acked' = acked /\ link' = link /\ chan' = chan
        /\ last_tag[c] \in Nat /\ acked[c] \in Nat /\ batch[c] \in Seq(Messages) /\ m \in Messages
    BY <1>3 DEF Take, TypeOK
  <2>2. CASE m \in Rejected
    <3>1. batch' = batch /\ Of(c)' = Of(c)
      BY <1>3, <2>2 DEF Take, Of
    <3>2. \A i \in acked[c] + 1 .. last_tag[c] + 1 :
              i \in acked[c] + 1 .. last_tag[c] \/ chan[c][i] \in Rejected
      BY <2>1, <2>2
    <3>3. \A i \in 1 .. last_tag[c] : i \in 1 .. last_tag[c] + 1
      BY <2>1
    <3> HIDE DEF m
    <3> QED
      BY <1>0, <2>1, <3>1, <3>2, <3>3 DEF Held, Filling, Inside
  <2>3. CASE m \notin Rejected
    <3>1. batch'[c] = Append(batch[c], m)
      BY <1>3, <2>3 DEF Take, TypeOK
    <3>2. /\ DOMAIN batch'[c] = DOMAIN batch[c] \cup {Len(batch[c]) + 1}
          /\ batch'[c][Len(batch[c]) + 1] = m
          /\ \A k \in DOMAIN batch[c] : batch'[c][k] = batch[c][k]
      BY <2>1, <3>1
    <3>3. Of(c) \subseteq Of(c)' /\ m \in Of(c)'
      BY <3>2 DEF Of
    <3> HIDE DEF m
    <3>4. \A k \in DOMAIN batch'[c] :
              batch'[c][k] \notin Rejected /\ \E i \in 1 .. last_tag[c] + 1 : chan[c][i] = batch'[c][k]
      <4>1. m = chan[c][last_tag[c] + 1] /\ last_tag[c] + 1 \in 1 .. last_tag[c] + 1
        BY <2>1 DEF m
      <4>2. \A i \in 1 .. last_tag[c] : i \in 1 .. last_tag[c] + 1
        BY <2>1
      <4> QED
        BY <1>0, <2>1, <2>3, <3>2, <4>1, <4>2 DEF Held, Filling
    <3>5. \A i \in acked[c] + 1 .. last_tag[c] + 1 :
              i \in acked[c] + 1 .. last_tag[c] \/ chan[c][i] = m
      BY <2>1 DEF m
    <3> QED
      BY <1>0, <2>1, <3>3, <3>4, <3>5 DEF Held, Filling, Inside
  <2> QED
    BY <2>2, <2>3
<1>4. CASE Next_(c)
  <2>1. /\ pc[c] = "read" /\ batch' = batch /\ last_tag' = last_tag
        /\ acked' = acked /\ link' = link /\ chan' = chan
        /\ \/ pc'[c] = "sink"
           \/ pc'[c] = "loop" /\ Of(c) = {}
    <3>1. batch[c] = <<>> => Of(c) = {}
      BY DEF Of
    <3>2. CASE batch[c] = <<>>
      BY <1>4, <1>9, <3>1, <3>2 DEF Next_
    <3>3. CASE batch[c] # <<>>
      BY <1>4, <1>9, <3>3 DEF Next_
    <3> QED
      BY <3>2, <3>3
  <2>2. Of(c)' = Of(c)
    BY <2>1 DEF Of
  <2> QED
    BY <1>0, <2>1, <2>2 DEF Held, Filling, Inside
<1>5. CASE ReadFails(c)
  <2>1. pc'[c] = "check" /\ ~link'[c]
    BY <1>5 DEF ReadFails, TypeOK
  <2> QED
    BY <2>1 DEF Held, Filling, Inside
<1>6. CASE Consume(c)
  <2>1. pc'[c] = "ack"
    BY <1>6 DEF Consume, TypeOK
  <2> QED
    BY <2>1 DEF Held, Filling
<1>7. CASE Ack(c)
  <2>1. \/ pc'[c] = "loop" /\ acked'[c] = last_tag'[c] /\ last_tag'[c] \in Nat
        \/ pc'[c] = "check" /\ ~link'[c]
    BY <1>7 DEF Ack, AckTag, TypeOK
  <2> QED
    BY <2>1 DEF Held, Filling, Inside
<1>8. CASE Connect(c)
  <2>1. pc'[c] = "loop" /\ last_tag'[c] = 0 /\ acked'[c] = 0
    BY <1>8 DEF Connect, TypeOK
  <2> QED
    BY <2>1 DEF Held, Filling
<1> QED
  BY <1>1, <1>2, <1>3, <1>4, <1>5, <1>6, <1>7, <1>8 DEF Run

LEMMA ReadingNext == TypeOK /\ TypeOK' /\ Reading /\ [Next]_vars => Reading'
<1> SUFFICES ASSUME TypeOK, TypeOK', Reading, [Next]_vars PROVE Reading'
  OBVIOUS
<1> USE DEF broker, thread
<1>1. CASE \E c \in Consumers : Run(c) \/ Connect(c) \/ ConnectFails(c)
  <2> PICK c \in Consumers : Run(c) \/ Connect(c) \/ ConnectFails(c)
    BY <1>1
  <2>1. main # "stopped" /\ main' = main
    <3>1. main' = main /\ pc[c] # "gone"
      BY DEF Run, Check, Backoff, Loop, Take, Next_, ReadFails, Consume, Ack, Connect, ConnectFails
    <3> QED
      BY <3>1 DEF Reading, NobodyLeft
  <2> QED
    BY <2>1, OthersHold, RunnerHolds DEF Reading, NobodyLeft
<1>2. CASE Serve
  <2> PICK c \in Consumers, m \in Messages : Deliver(c, m)
    BY <1>2 DEF Serve
  <2>1. /\ pc' = pc /\ batch' = batch /\ last_tag' = last_tag /\ acked' = acked /\ link' = link
        /\ main' = main
    BY DEF Deliver
  <2>2. \A d \in Consumers : \A i \in 1 .. last_tag[d] : chan'[d][i] = chan[d][i]
    BY DEF Deliver, TypeOK
  <2> QED
    BY <2>1, <2>2, HeldStays DEF Reading, NobodyLeft
<1>3. CASE \E c \in Consumers : TakeAck(c)
  <2>1. /\ pc' = pc /\ batch' = batch /\ last_tag' = last_tag /\ acked' = acked /\ link' = link
        /\ chan' = chan /\ main' = main
    BY <1>3 DEF TakeAck
  <2> QED
    BY <2>1, HeldStays DEF Reading, NobodyLeft
<1>4. CASE (\E c \in Consumers : Drop(c)) \/ Join
  <2>1. /\ pc' = pc /\ batch' = batch /\ last_tag' = last_tag /\ acked' = acked /\ chan' = chan
        /\ \A d \in Consumers : link'[d] => link[d]
        /\ main' = main \/ \A d \in Consumers : pc[d] = "gone"
    BY <1>4 DEF Drop, Join, Cut, Close
  <2>2. \A d \in Consumers : Held(d)'
    BY <2>1, HeldStays DEF Reading
  <2>3. NobodyLeft'
    BY <2>1 DEF Reading, NobodyLeft
  <2> QED
    BY <2>2, <2>3 DEF Reading
<1>5. CASE Kill
  <2>1. \A d \in Consumers : pc'[d] = "gone" /\ ~link'[d]
    BY <1>5 DEF Kill, Cut
  <2> QED
    BY <2>1 DEF Reading, NobodyLeft, Held, Filling, Inside
<1>6. CASE Start
  <2>1. /\ \A d \in Consumers : {pc[d], pc'[d]} \cap Inside = {}
        /\ batch' = batch /\ last_tag' = last_tag /\ acked' = acked /\ link' = link
        /\ chan' = chan /\ main' = "running"
    BY <1>6 DEF Start, Reading, NobodyLeft, Inside
  <2> QED
    BY <2>1, HeldStays DEF Reading, NobodyLeft
<1>7. CASE Stop \/ UNCHANGED vars
  <2>1. /\ pc' = pc /\ batch' = batch /\ last_tag' = last_tag /\ acked' = acked /\ link' = link
        /\ chan' = chan
        /\ main' = "stopped" => main = "stopped"
    BY <1>7 DEF Stop, vars
  <2> QED
    BY <2>1, HeldStays DEF Reading, NobodyLeft
<1> QED
  BY <1>1, <1>2, <1>3, <1>4, <1>5, <1>6, <1>7 DEF Next

-----------------------------------------------------------------------------
(* What a step does to those who may still count a message. *)
LEMMA HoldersFinite ==
    ASSUME NEW m
    PROVE  IsFiniteSet(Holders(m)) /\ Cardinality(Holders(m)) \in Nat
<1>1. Holders(m) \subseteq Consumers
  BY DEF Holders
<1> QED
  BY <1>1, FS_Subset, FS_CardinalityType

LEMMA HoldersFiniteNext ==
    ASSUME NEW m
    PROVE  IsFiniteSet(Holders(m)') /\ Cardinality(Holders(m)') \in Nat
<1>1. Holders(m)' \subseteq Consumers
  BY DEF Holders
<1> QED
  BY <1>1, FS_Subset, FS_CardinalityType

LEMMA FewerHold ==
    ASSUME NEW m, Holders(m)' \subseteq Holders(m)
    PROVE  Cardinality(Holders(m)') <= Cardinality(Holders(m))
BY HoldersFinite, FS_Subset

(* A step that gives nobody a new chance, and at most the queue one that a  *)
(* lost connection pays for.                                                *)
LEMMA StaysPaid ==
    ASSUME TypeOK, TypeOK', NEW m \in Messages, Paid(m), counted'[m] = counted[m],
           Holders(m)' \subseteq Holders(m),
           \/ drops' = drops /\ (m \in ready' => m \in ready)
           \/ drops' = drops + 1
    PROVE  Paid(m)'
<1> DEFINE h == Cardinality(Holders(m))
           k == Cardinality(Holders(m)')
<1>1. k <= h /\ k \in Nat /\ h \in Nat
  BY FewerHold, HoldersFinite, HoldersFiniteNext
<1>2. /\ Waits(m) \in Nat /\ Waits(m)' \in Nat /\ Waits(m)' <= 1
      /\ (m \in ready' => m \in ready) => Waits(m)' <= Waits(m)
  BY DEF Waits
<1>3. counted[m] \in Nat /\ drops \in Nat /\ counted[m] + h + Waits(m) <= 1 + drops
  BY DEF TypeOK, Paid
<1>4. Paid(m)' <=> counted'[m] + k + Waits(m)' <= 1 + drops'
  BY DEF Paid
<1> HIDE DEF h, k
<1>5. CASE drops' = drops /\ (m \in ready' => m \in ready)
  BY <1>1, <1>2, <1>3, <1>4, <1>5
<1>6. CASE drops' = drops + 1
  BY <1>1, <1>2, <1>3, <1>4, <1>6
<1> QED
  BY <1>5, <1>6

LEMMA HoldsNoMore ==
    ASSUME NEW c \in Consumers, NEW m,
           pc'[c] \in Filling /\ m \in Of(c)' => pc[c] \in Filling /\ m \in Of(c),
           link'[c] \/ pc'[c] \in Inside => link[c] \/ pc[c] \in Inside,
           last_tag'[c] = last_tag[c], chan'[c] = chan[c],
           Holds(c, m)'
    PROVE  Holds(c, m)
BY DEF Holds

(* A step of one thread leaves what the others hold. *)
LEMMA OthersChances ==
    ASSUME NEW c \in Consumers, TypeOK, Run(c) \/ Connect(c) \/ ConnectFails(c), NEW m,
           NEW d \in Consumers, d # c, Holds(d, m)'
    PROVE  Holds(d, m)
<1>1. /\ pc'[d] = pc[d] /\ batch'[d] = batch[d] /\ last_tag'[d] = last_tag[d]
      /\ link'[d] = link[d] /\ chan'[d] = chan[d]
  <2> USE DEF TypeOK, Goto, broker
  <2>1. CASE Check(c) \/ Backoff(c) \/ ConnectFails(c) \/ ReadFails(c) \/ Next_(c) \/ Consume(c)
    BY <2>1 DEF Check, Backoff, ConnectFails, ReadFails, Next_, Consume
  <2>2. CASE Loop(c)
    BY <2>2 DEF Loop
  <2>3. CASE Take(c)
    BY <2>3 DEF Take
  <2>4. CASE Ack(c)
    BY <2>4 DEF Ack
  <2>5. CASE Connect(c)
    BY <2>5 DEF Connect
  <2> QED
    BY <2>1, <2>2, <2>3, <2>4, <2>5 DEF Run
<1>2. Of(d)' = Of(d)
  BY <1>1 DEF Of
<1> QED
  BY <1>1, <1>2, HoldsNoMore

LEMMA RunnersChances ==
    ASSUME NEW c \in Consumers, TypeOK, TypeOK',
           Run(c) \/ Connect(c) \/ ConnectFails(c), NEW m, Holds(c, m)'
    PROVE  Holds(c, m)
<1> USE DEF Goto, broker, thread
<1>9. /\ DOMAIN pc = Consumers /\ DOMAIN batch = Consumers /\ DOMAIN chan = Consumers
      /\ DOMAIN last_tag = Consumers
  BY DEF TypeOK
<1>1. CASE Check(c) \/ Backoff(c) \/ ConnectFails(c) \/ ReadFails(c) \/ Ack(c) \/ Consume(c)
  <2>1. /\ pc'[c] \notin Filling /\ (pc'[c] \in Inside => pc[c] \in Inside)
        /\ link' = link /\ last_tag' = last_tag /\ chan' = chan
    BY <1>1, <1>9 DEF Check, Backoff, ConnectFails, ReadFails, Ack, Consume, Inside, Filling
  <2> QED
    BY <2>1, HoldsNoMore
<1>2. CASE Loop(c)
  <2>1. /\ pc[c] \in Inside
        /\ \/ pc'[c] \notin Filling
           \/ batch'[c] = <<>>
        /\ link' = link /\ last_tag' = last_tag /\ chan' = chan
    BY <1>2, <1>9 DEF Loop, Inside, Filling, StopSeen
  <2>2. batch'[c] = <<>> => Of(c)' = {}
    BY DEF Of
  <2> QED
    BY <2>1, <2>2, HoldsNoMore
<1>3. CASE Next_(c)
  <2>1. /\ pc[c] \in Filling \cap Inside /\ batch' = batch
        /\ link' = link /\ last_tag' = last_tag /\ chan' = chan
    BY <1>3 DEF Next_, Inside, Filling
  <2>2. Of(c)' = Of(c)
    BY <2>1 DEF Of
  <2> QED
    BY <2>1, <2>2, HoldsNoMore
<1>4. CASE Take(c)
  <2> DEFINE x == chan[c][last_tag[c] + 1]
  <2>1. /\ pc[c] \in Filling \cap Inside /\ last_tag'[c] = last_tag[c] + 1
        /\ link' = link /\ chan' = chan /\ last_tag[c] \in Nat
        /\ last_tag[c] + 1 \in DOMAIN chan[c] /\ x \in Messages
        /\ batch[c] \in Seq(Messages) /\ DOMAIN batch = Consumers
    BY <1>4 DEF Take, Inside, Filling, TypeOK
  <2>2. Of(c)' \subseteq Of(c) \cup {x}
    <3>1. CASE x \in Rejected
      BY <1>4, <3>1 DEF Take, Of
    <3>2. CASE x \notin Rejected
      <4>1. batch'[c] = Append(batch[c], x)
        BY <1>4, <2>1, <3>2 DEF Take
      <4> HIDE DEF x
      <4>2. \A i \in DOMAIN batch'[c] : 
                  \/ batch'[c][i] = x
                  \/ i \in DOMAIN batch[c] /\ batch'[c][i] = batch[c][i]
        BY <2>1, <4>1
      <4> QED
        BY <4>2 DEF Of
    <3> QED
      BY <3>1, <3>2
  <2>3. CASE m \in Of(c)
    BY <2>1, <2>3 DEF Holds
  <2>4. CASE m = x
    <3>1. last_tag[c] + 1 > last_tag[c]
      BY <2>1
    <3> QED
      BY <2>1, <2>4, <3>1 DEF Holds
  <2>5. ASSUME NEW i \in DOMAIN chan[c], i > last_tag[c] + 1, chan[c][i] = m PROVE Holds(c, m)
    <3>1. i > last_tag[c]
      <4>1. chan[c] \in Seq(Messages)
        BY DEF TypeOK
      <4> QED
        BY <2>1, <2>5, <4>1
    <3> QED
      BY <2>1, <2>5, <3>1 DEF Holds
  <2> HIDE DEF x
  <2> QED
    BY <2>1, <2>2, <2>3, <2>4, <2>5 DEF Holds
<1>5. CASE Connect(c)
  <2>1. DOMAIN chan'[c] = {} /\ pc'[c] \notin Filling
    BY <1>5, <1>9 DEF Connect, Filling
  <2> QED
    BY <2>1 DEF Holds
<1> QED
  BY <1>1, <1>2, <1>3, <1>4, <1>5 DEF Run

LEMMA ThreadsChances ==
    ASSUME NEW c \in Consumers, TypeOK, TypeOK', Run(c) \/ Connect(c) \/ ConnectFails(c), NEW m
    PROVE  Holders(m)' \subseteq Holders(m)
<1> SUFFICES ASSUME NEW d \in Consumers, Holds(d, m)' PROVE Holds(d, m)
  BY DEF Holders
<1> QED
  BY OthersChances, RunnersChances

(* The sink counts a message at the price of a chance. *)
LEMMA ConsumePays ==
    ASSUME NEW c \in Consumers, TypeOK, TypeOK', OnePlace, Reading, Consume(c),
           NEW m \in Messages, Paid(m)
    PROVE  Paid(m)'
<1> DEFINE h == Cardinality(Holders(m))
           k == Cardinality(Holders(m)')
<1>1. Holders(m)' \subseteq Holders(m) /\ drops' = drops /\ ready' = ready
  BY ThreadsChances DEF Run, Consume, broker
<1>2. CASE counted'[m] = counted[m]
  BY <1>1, <1>2, StaysPaid
<1>3. CASE counted'[m] # counted[m]
  <2>1. m \in Of(c) /\ counted'[m] = counted[m] + 1
    BY <1>3 DEF Consume
  <2>2. /\ pc[c] \in Filling /\ pc'[c] \notin Filling
        /\ last_tag' = last_tag /\ chan' = chan
    BY DEF Consume, Goto, Filling, TypeOK
  <2>3. c \in Holders(m)
    BY <2>1, <2>2 DEF Holders, Holds
  <2>4. PICK i \in 1 .. last_tag[c] : chan[c][i] = m
    BY <2>1, <2>2 DEF Reading, Held, Of
  <2>5. ~ Holds(c, m)'
    <3>1. i \in DOMAIN chan[c] /\ last_tag[c] \in Nat
      <4>1. chan[c] \in Seq(Messages) /\ last_tag[c] \in Nat /\ last_tag[c] <= Len(chan[c])
        BY DEF TypeOK
      <4> QED
        BY <4>1
    <3>2. \A j \in DOMAIN chan[c] : chan[c][j] = m => j = i
      BY <2>4, <3>1 DEF OnePlace, Distinct
    <3>3. ~(i > last_tag[c])
      BY <3>1
    <3> QED
      BY <2>2, <3>2, <3>3 DEF Holds
  <2>6. Holders(m)' \subseteq Holders(m) \ {c}
    BY <1>1, <2>5 DEF Holders
  <2>7. k <= h - 1 /\ k \in Nat /\ h \in Nat
    <3>1. Cardinality(Holders(m) \ {c}) = h - 1 /\ IsFiniteSet(Holders(m) \ {c})
      BY <2>3, HoldersFinite, FS_RemoveElement
    <3> QED
      BY <2>6, <3>1, HoldersFinite, HoldersFiniteNext, FS_Subset
  <2>8. Waits(m)' = Waits(m) /\ Waits(m) \in Nat
    BY <1>1 DEF Waits
  <2>9. counted[m] + h + Waits(m) <= 1 + drops /\ counted[m] \in Nat /\ drops \in Nat
    BY DEF Paid, TypeOK
  <2>10. Paid(m)' <=> counted'[m] + k + Waits(m)' <= 1 + drops'
    BY DEF Paid
  <2> HIDE DEF h, k
  <2> QED
    BY <1>1, <2>1, <2>7, <2>8, <2>9, <2>10
<1> QED
  BY <1>2, <1>3

(* A delivery hands the chance of the queue to a thread. *)
LEMMA DeliverPays ==
    ASSUME NEW c \in Consumers, NEW x \in Messages, TypeOK, TypeOK', Deliver(c, x),
           NEW m \in Messages, Paid(m)
    PROVE  Paid(m)'
<1> DEFINE h == Cardinality(Holders(m))
           k == Cardinality(Holders(m)')
<1>1. /\ pc' = pc /\ batch' = batch /\ last_tag' = last_tag /\ link' = link
      /\ drops' = drops /\ counted' = counted /\ x \in ready /\ ready' = ready \ {x}
  BY DEF Deliver, thread
<1>2. \A d \in Consumers : \A i \in DOMAIN chan'[d] :
          \/ i \in DOMAIN chan[d] /\ chan'[d][i] = chan[d][i]
          \/ d = c /\ chan'[d][i] = x
  <2>1. chan[c] \in Seq(Messages) /\ chan'[c] = Append(chan[c], x)
    BY DEF Deliver, TypeOK
  <2>2. \A d \in Consumers : d # c => chan'[d] = chan[d]
    BY DEF Deliver, TypeOK
  <2> QED
    BY <2>1, <2>2
<1>3. \A d \in Consumers : Of(d)' = Of(d)
  BY <1>1 DEF Of
<1>4. Holders(m)' \subseteq Holders(m) \cup (IF m = x THEN {c} ELSE {})
  BY <1>1, <1>2, <1>3 DEF Holders, Holds
<1>5. CASE m # x
  <2>1. Holders(m)' \subseteq Holders(m)
    BY <1>4, <1>5
  <2> QED
    BY <1>1, <2>1, StaysPaid
<1>6. CASE m = x
  <2>1. k <= h + 1 /\ k \in Nat /\ h \in Nat
    <3>1. /\ IsFiniteSet(Holders(m) \cup {c})
          /\ Cardinality(Holders(m) \cup {c}) \in {h, h + 1}
      BY HoldersFinite, FS_AddElement
    <3>2. k <= Cardinality(Holders(m) \cup {c})
      BY <1>4, <1>6, <3>1, FS_Subset
    <3> QED
      BY <3>1, <3>2, HoldersFinite, HoldersFiniteNext
  <2>2. Waits(m)' = 0 /\ Waits(m) = 1
    BY <1>1, <1>6 DEF Waits
  <2>3. counted[m] + h + 1 <= 1 + drops /\ counted[m] \in Nat /\ drops \in Nat
    BY <2>2 DEF Paid, TypeOK
  <2>4. Paid(m)' <=> counted[m] + k + 0 <= 1 + drops
    BY <1>1, <2>2 DEF Paid
  <2> HIDE DEF h, k
  <2> QED
    BY <2>1, <2>3, <2>4
<1> QED
  BY <1>5, <1>6

(* What a stopped ingestor gives back, its threads had not counted. *)
LEMMA JoinPays ==
    ASSUME TypeOK, TypeOK', Reading, Join, NEW m \in Messages \ Rejected, Paid(m)
    PROVE  Paid(m)'
<1> DEFINE h == Cardinality(Holders(m))
           k == Cardinality(Holders(m)')
<1>1. /\ \A c \in Consumers : pc[c] = "gone" /\ pc'[c] = "gone" /\ ~link'[c]
      /\ drops' = drops /\ counted' = counted
  BY DEF Join, Close, thread
<1>2. Holders(m)' = {}
  BY <1>1 DEF Holders, Holds, Filling, Inside
<1>3. CASE m \in ready' => m \in ready
  <2>1. Holders(m)' \subseteq Holders(m)
    BY <1>2
  <2> QED
    BY <1>1, <1>3, <2>1, StaysPaid
<1>4. CASE m \in ready' /\ m \notin ready
  <2>1. PICK c \in Consumers :
            /\ link[c] /\ m \in Tagged(c, cleared[c] + 1 .. Len(chan[c]))
            /\ m \notin Tagged(c, cleared[c] + 1 .. acked[c])
    BY <1>4 DEF Join, Close, Unacked, Open
  <2>2. PICK i \in DOMAIN chan[c] : chan[c][i] = m /\ i > cleared[c] /\ ~(i <= acked[c])
    <3>1. cleared[c] \in Nat /\ acked[c] \in Nat /\ chan[c] \in Seq(Messages)
      BY DEF TypeOK
    <3> QED
      BY <2>1, <3>1 DEF Tagged
  <2>3. i > last_tag[c]
    <3>1. acked[c] \in Nat /\ last_tag[c] \in Nat /\ chan[c] \in Seq(Messages)
      BY DEF TypeOK
    <3>2. ~ (i \in acked[c] + 1 .. last_tag[c])
      BY <1>1, <2>1, <2>2 DEF Reading, Held, Filling, Inside
    <3> QED
      BY <2>2, <3>1, <3>2
  <2>4. c \in Holders(m)
    BY <2>1, <2>2, <2>3 DEF Holders, Holds
  <2>5. h >= 1 /\ h \in Nat /\ k = 0
    <3>1. h # 0 /\ h \in Nat
      BY <2>4, HoldersFinite, FS_EmptySet
    <3> QED
      BY <1>2, <3>1, FS_EmptySet
  <2>6. Waits(m)' = 1 /\ Waits(m) = 0
    BY <1>4 DEF Waits
  <2>7. counted[m] + h + 0 <= 1 + drops /\ counted[m] \in Nat /\ drops \in Nat
    BY <2>6 DEF Paid, TypeOK
  <2>8. Paid(m)' <=> counted[m] + k + 1 <= 1 + drops
    BY <1>1, <2>6 DEF Paid
  <2> HIDE DEF h, k
  <2> QED
    BY <2>5, <2>7, <2>8
<1> QED
  BY <1>3, <1>4

LEMMA BudgetNext ==
    TypeOK /\ TypeOK' /\ OnePlace /\ Reading /\ Budget /\ [Next]_vars => Budget'
<1> SUFFICES ASSUME TypeOK, TypeOK', OnePlace, Reading, Budget, [Next]_vars PROVE Budget'
  OBVIOUS
<1>1. CASE \E c \in Consumers : Consume(c)
  <2> PICK c \in Consumers : Consume(c)
    BY <1>1
  <2>1. \A m \in Rejected : m \notin Of(c)
    BY DEF Reading, Held, Consume, Filling, Of
  <2>2. \A m \in Rejected : counted'[m] = 0
    BY <2>1 DEF Budget, Consume
  <2> QED
    BY <2>2, ConsumePays DEF Budget
<1>2. SUFFICES ASSUME ~ \E c \in Consumers : Consume(c)
               PROVE  counted' = counted /\ \A m \in Messages \ Rejected : Paid(m)'
  BY <1>1 DEF Budget
<1>3. counted' = counted
  BY <1>2 DEF Next, Serve, Deliver, TakeAck, Drop, Run, Connect, ConnectFails, Check, Backoff, Loop,
              Take, Next_, ReadFails, Ack, Start, Stop, Join, Kill, vars
<1> SUFFICES ASSUME NEW m \in Messages \ Rejected, Paid(m) PROVE Paid(m)'
  BY <1>3 DEF Budget
<1>4. CASE Serve
  BY <1>4, DeliverPays DEF Serve
<1>5. CASE Join
  BY <1>5, JoinPays
<1>6. CASE \E c \in Consumers : Run(c) \/ Connect(c) \/ ConnectFails(c)
  <2> PICK c \in Consumers : Run(c) \/ Connect(c) \/ ConnectFails(c)
    BY <1>6
  <2>1. drops' = drops /\ ready' = ready
    BY DEF Run, Check, Backoff, Loop, Take, Next_, ReadFails, Consume, Ack, Connect, ConnectFails, broker
  <2> QED
    BY <1>3, <2>1, ThreadsChances, StaysPaid
<1>7. CASE (\E c \in Consumers : TakeAck(c)) \/ Start \/ Stop \/ UNCHANGED vars
  <2>1. /\ batch' = batch /\ last_tag' = last_tag /\ link' = link /\ chan' = chan
        /\ drops' = drops /\ ready' = ready
        /\ \A d \in Consumers : pc'[d] = pc[d] \/ pc'[d] = "check"
    BY <1>7 DEF TakeAck, Start, Stop, vars, thread, broker
  <2>2. \A d \in Consumers : Holds(d, m)' => Holds(d, m)
    <3> SUFFICES ASSUME NEW d \in Consumers, Holds(d, m)' PROVE Holds(d, m)
      OBVIOUS
    <3>1. Of(d)' = Of(d)
      BY <2>1 DEF Of
    <3> QED
      BY <2>1, <3>1, HoldsNoMore DEF Filling, Inside
  <2> QED
    BY <1>3, <2>1, <2>2, StaysPaid DEF Holders
<1>8. CASE (\E c \in Consumers : Drop(c)) \/ Kill
  <2>1. /\ last_tag' = last_tag /\ chan' = chan /\ drops' = drops + 1
        /\ \A d \in Consumers : link'[d] => link[d]
        /\ \A d \in Consumers : pc'[d] = "gone" \/ (pc'[d] = pc[d] /\ batch'[d] = batch[d])
    <3>1. CASE \E c \in Consumers : Drop(c)
      BY <3>1 DEF Drop, Cut, thread
    <3>2. CASE Kill
      BY <3>2 DEF Kill, Cut
    <3> QED
      BY <1>8, <3>1, <3>2
  <2>2. \A d \in Consumers : Holds(d, m)' => Holds(d, m)
    <3> SUFFICES ASSUME NEW d \in Consumers, Holds(d, m)' PROVE Holds(d, m)
      OBVIOUS
    <3>1. batch'[d] = batch[d] => Of(d)' = Of(d)
      BY DEF Of
    <3> QED
      BY <2>1, <3>1, HoldsNoMore DEF Filling, Inside
  <2> QED
    BY <1>3, <2>1, <2>2, StaysPaid DEF Holders
<1> QED
  BY <1>4, <1>5, <1>6, <1>7, <1>8 DEF Next

-----------------------------------------------------------------------------
(* Where the sink writes every batch it is given. *)
LEMMA CountsGrow ==
    TypeOK /\ [Next]_vars => \A m \in Messages : counted'[m] >= counted[m]
<1> SUFFICES ASSUME TypeOK, [Next]_vars PROVE \A m \in Messages : counted'[m] >= counted[m]
  OBVIOUS
<1>1. \A m \in Messages : counted[m] \in Nat
  BY DEF TypeOK
<1>2. CASE counted' = counted
  BY <1>1, <1>2
<1>3. CASE \E c \in Consumers : Consume(c)
  BY <1>1, <1>3 DEF Consume
<1> QED
  BY <1>2, <1>3 DEF Next, Serve, Deliver, TakeAck, Drop, Run, Connect, ConnectFails, Check, Backoff,
              Loop, Take, Next_, ReadFails, Ack, Start, Stop, Join, Kill, vars

LEMMA SafeStays ==
    ASSUME TypeOK, TypeOK', NEW d \in Consumers, Safe(d),
           \A m \in Messages : counted'[m] >= counted[m],
           \A i \in DOMAIN chan[d] : chan'[d][i] = chan[d][i],
           acked'[d] = acked[d] \/ (acked'[d] = last_tag[d] /\ pc[d] = "ack"),
           pc'[d] = "ack" => pc[d] = "ack" /\ last_tag'[d] = last_tag[d]
    PROVE  Safe(d)'
<1>1. /\ chan[d] \in Seq(Messages) /\ last_tag[d] \in Nat /\ acked[d] \in Nat
      /\ last_tag[d] <= Len(chan[d]) /\ acked[d] <= last_tag[d]
      /\ \A m \in Messages : counted[m] \in Nat /\ counted'[m] \in Nat
  BY DEF TypeOK
<1>2. Upto(d)' <= Upto(d) /\ Upto(d) <= Len(chan[d]) /\ Upto(d) \in Nat /\ Upto(d)' \in Nat
  BY <1>1 DEF Upto
<1> QED
  BY <1>1, <1>2 DEF Safe

LEMMA ConsumeIsSafe ==
    ASSUME ~StoreFails, TypeOK, Reading, NEW c \in Consumers, Consume(c), Safe(c),
           \A m \in Messages : counted'[m] >= counted[m]
    PROVE  Safe(c)'
<1>1. /\ chan[c] \in Seq(Messages) /\ last_tag[c] \in Nat /\ acked[c] \in Nat
      /\ last_tag[c] <= Len(chan[c])
      /\ \A m \in Messages : counted[m] \in Nat
  BY DEF TypeOK
<1>2. pc[c] = "sink" /\ pc'[c] = "ack" /\ chan' = chan /\ last_tag' = last_tag
  BY DEF Consume, Goto, TypeOK
<1>3. \A m \in Messages : counted'[m] = IF m \in Of(c) THEN counted[m] + 1 ELSE counted[m]
  BY DEF Consume
<1>4. Upto(c) = acked[c] /\ Upto(c)' = last_tag[c]
  BY <1>2 DEF Upto
<1>5. ASSUME NEW i \in 1 .. last_tag[c] PROVE chan[c][i] \in Rejected \/ counted'[chan[c][i]] > 0
  <2>1. chan[c][i] \in Messages
    BY <1>1
  <2>2. CASE i <= acked[c]
    BY <1>1, <1>3, <1>4, <2>1, <2>2 DEF Safe
  <2>3. CASE ~(i <= acked[c])
    <3>1. i \in acked[c] + 1 .. last_tag[c]
      BY <1>1, <2>3
    <3>2. chan[c][i] \in Rejected \/ chan[c][i] \in Of(c)
      BY <1>2, <3>1 DEF Reading, Held, Inside
    <3> QED
      BY <1>1, <1>3, <2>1, <3>2
  <2> QED
    BY <2>2, <2>3
<1> QED
  BY <1>2, <1>4, <1>5 DEF Safe

LEMMA SafeNext ==
    ASSUME ~StoreFails
    PROVE  TypeOK /\ TypeOK' /\ Reading /\ AcksAreSafe /\ [Next]_vars => AcksAreSafe'
<1> SUFFICES ASSUME TypeOK, TypeOK', Reading, AcksAreSafe, [Next]_vars, NEW d \in Consumers
             PROVE  Safe(d)'
  BY DEF AcksAreSafe
<1>1. Safe(d) /\ \A m \in Messages : counted'[m] >= counted[m]
  BY CountsGrow DEF AcksAreSafe
<1>2. CASE Consume(d)
  BY <1>1, <1>2, ConsumeIsSafe
<1>3. CASE Connect(d)
  <2>1. pc'[d] = "loop" /\ acked'[d] = 0
    BY <1>3 DEF Connect, Goto, TypeOK
  <2> QED
    BY <2>1 DEF Safe, Upto
<1>4. CASE Serve
  <2> PICK c \in Consumers, m \in Messages : Deliver(c, m)
    BY <1>4 DEF Serve
  <2>1. chan[d] \in Seq(Messages) /\ (chan'[d] = Append(chan[d], m) \/ chan'[d] = chan[d])
    BY DEF Deliver, TypeOK
  <2>2. \A i \in DOMAIN chan[d] : chan'[d][i] = chan[d][i]
    BY <2>1
  <2>3. acked' = acked /\ pc' = pc /\ last_tag' = last_tag
    BY DEF Deliver, thread
  <2> QED
    BY <1>1, <2>2, <2>3, SafeStays
<1>5. CASE ~Consume(d) /\ ~Connect(d) /\ ~Serve
  <2> DEFINE Fine == /\ chan'[d] = chan[d]
                     /\ acked'[d] = acked[d] \/ (acked'[d] = last_tag[d] /\ pc[d] = "ack")
                     /\ pc'[d] = "ack" => pc[d] = "ack" /\ last_tag'[d] = last_tag[d]
  <2>1. ASSUME \E c \in Consumers : c # d /\ (Run(c) \/ Connect(c) \/ ConnectFails(c))
        PROVE  Fine
    <3> PICK c \in Consumers : c # d /\ (Run(c) \/ Connect(c) \/ ConnectFails(c))
      BY <2>1
    <3>1. chan'[d] = chan[d] /\ acked'[d] = acked[d] /\ pc'[d] = pc[d] /\ last_tag'[d] = last_tag[d]
      <4> USE DEF TypeOK, Goto
      <4>1. CASE Check(c) \/ Backoff(c) \/ ConnectFails(c) \/ ReadFails(c) \/ Next_(c) \/ Consume(c)
        BY <4>1 DEF Check, Backoff, ConnectFails, ReadFails, Next_, Consume
      <4>2. CASE Loop(c) \/ Take(c) \/ Ack(c) \/ Connect(c)
        BY <4>2 DEF Loop, Take, Ack, Connect
      <4> QED
        BY <4>1, <4>2 DEF Run
    <3> QED
      BY <3>1
  <2>2. ASSUME Run(d) \/ ConnectFails(d) PROVE Fine
    <3> USE DEF TypeOK, Goto
    <3>1. CASE Ack(d)
      BY <3>1 DEF Ack, AckTag
    <3>2. CASE ~Ack(d)
      BY <1>5, <2>2, <3>2
         DEF Run, Check, Backoff, Loop, Take, Next_, ReadFails, ConnectFails
    <3> QED
      BY <3>1, <3>2
  <2>3. ASSUME ~ \E c \in Consumers : Run(c) \/ Connect(c) \/ ConnectFails(c)
        PROVE  Fine
    BY <1>5, <2>3 DEF Next, TakeAck, Drop, Start, Stop, Join, Kill, vars, thread
  <2>4. Fine
    BY <1>5, <2>1, <2>2, <2>3
  <2> QED
    BY <1>1, <2>4, SafeStays
<1> QED
  BY <1>2, <1>3, <1>4, <1>5

LEMMA AckedNext ==
    TypeOK /\ AcksAreSafe /\ AckedIsCounted /\ [Next]_vars => AckedIsCounted'
<1> SUFFICES ASSUME TypeOK, AcksAreSafe, AckedIsCounted, [Next]_vars,
                    NEW m \in settled' \ Rejected
             PROVE  counted'[m] > 0
  BY DEF AckedIsCounted
<1>1. CASE m \in settled
  <2>1. m \in Messages /\ counted[m] \in Nat /\ counted[m] > 0
    BY <1>1 DEF AckedIsCounted, TypeOK
  <2>2. counted'[m] \in Nat /\ counted'[m] >= counted[m]
    BY <2>1, CountsGrow, TypeNext DEF TypeOK
  <2> QED
    BY <2>1, <2>2
<1>2. CASE m \notin settled
  <2>1. PICK c \in Consumers : m \in Tagged(c, cleared[c] + 1 .. acked[c]) /\ counted' = counted
    <3>1. CASE Join
      BY <1>2, <3>1 DEF Join, Close, Open
    <3>2. CASE ~Join
      BY <1>2, <3>2 DEF Next, Serve, Deliver, TakeAck, Drop, Cut, Run, Connect, ConnectFails, Check,
            Backoff, Loop, Consume, Take, Next_, ReadFails, Ack, Start, Stop, Kill, vars, broker
    <3> QED
      BY <3>1, <3>2
  <2>2. PICK i \in 1 .. acked[c] : chan[c][i] = m
    <3>1. cleared[c] \in Nat /\ acked[c] \in Nat
      BY DEF TypeOK
    <3> QED
      BY <2>1, <3>1 DEF Tagged
  <2>3. i \in 1 .. Upto(c)
    <3>1. last_tag[c] \in Nat /\ acked[c] \in Nat /\ acked[c] <= last_tag[c]
      BY DEF TypeOK
    <3> QED
      BY <3>1 DEF Upto
  <2> QED
    BY <2>1, <2>2, <2>3 DEF AcksAreSafe, Safe
<1> QED
  BY <1>1, <1>2

-----------------------------------------------------------------------------
LEMMA InvInit == Init => IInv
<1> SUFFICES ASSUME Init PROVE IInv
  OBVIOUS
<1>1. TypeOK
  BY TypeInit
<1>2. OnePlace
  BY DEF Init, OnePlace, Apart, Distinct, ClearedIsSettled, OnOneChannel
<1>3. Reading
  BY DEF Init, Reading, NobodyLeft, Held, Filling, Inside
<1>4. Budget
  <2>1. \A m \in Rejected : counted[m] = 0
    BY DEF Init
  <2>2. ASSUME NEW m \in Messages \ Rejected PROVE Paid(m)
    <3>1. Holders(m) = {}
      BY DEF Init, Holders, Holds, Filling, Inside
    <3>2. Cardinality(Holders(m)) = 0
      BY <3>1, FS_EmptySet
    <3>3. counted[m] = 0 /\ drops = 0 /\ Waits(m) = 1
      BY DEF Init, Waits
    <3> QED
      BY <3>2, <3>3 DEF Paid
  <2> QED
    BY <2>1, <2>2 DEF Budget
<1> QED
  BY <1>1, <1>2, <1>3, <1>4 DEF IInv

LEMMA InvNext == IInv /\ [Next]_vars => IInv'
BY TypeNext, PlaceNext, ReadingNext, BudgetNext DEF IInv

LEMMA InvHolds == Spec => []IInv
<1> QED BY InvInit, InvNext, PTL DEF Spec

(* Every state of the consumers is well formed: the tags the broker has seen*)
(* acked, those the client has acked and those it has read are in that order*)
(* and on the channel, and no batch is longer than kRabbitBatchSize.        *)
THEOREM RabbitTypeCorrect == Spec => []TypeOK
<1>1. IInv => TypeOK
  BY DEF IInv
<1> QED BY <1>1, InvHolds, PTL

(* A message is counted at most once, and once more for every connection    *)
(* that died, whatever the number of consumers and however the stops, the   *)
(* redeliveries and the failed acks of RabbitIngestor::consume interleave.  *)
THEOREM CountedOncePerDrop == Spec => []OncePerDrop
<1>1. IInv => OncePerDrop
  <2> SUFFICES ASSUME IInv, NEW m \in Messages PROVE counted[m] <= 1 + drops
    BY DEF OncePerDrop
  <2>1. counted[m] \in Nat /\ drops \in Nat
    BY DEF IInv, TypeOK
  <2>2. CASE m \in Rejected
    BY <2>1, <2>2 DEF IInv, Budget
  <2>3. CASE m \notin Rejected
    <3>1. Cardinality(Holders(m)) \in Nat /\ Waits(m) \in Nat
      BY HoldersFinite DEF Waits
    <3>2. counted[m] + Cardinality(Holders(m)) + Waits(m) <= 1 + drops
      BY <2>3 DEF IInv, Budget, Paid
    <3> QED
      BY <2>1, <3>1, <3>2
  <2> QED
    BY <2>2, <2>3
<1> QED BY <1>1, InvHolds, PTL

(* Where no write to the store fails, a message the broker has dropped was  *)
(* counted, or the parser refused it: no ack RabbitSource::ack writes names *)
(* a delivery the sink has not been given.                                  *)
THEOREM AckedAreCounted ==
    ASSUME ~StoreFails
    PROVE  Spec => []AckedIsCounted
<1> DEFINE Inv == IInv /\ AcksAreSafe /\ AckedIsCounted
<1>1. Init => Inv
  <2>1. Init => AcksAreSafe
    BY DEF Init, AcksAreSafe, Safe, Upto
  <2>2. Init => AckedIsCounted
    BY DEF Init, AckedIsCounted
  <2> QED
    BY <2>1, <2>2, InvInit
<1>2. Inv /\ [Next]_vars => Inv'
  <2>1. IInv /\ AcksAreSafe /\ [Next]_vars => AcksAreSafe'
    BY SafeNext, TypeNext DEF IInv
  <2>2. IInv /\ AcksAreSafe /\ AckedIsCounted /\ [Next]_vars => AckedIsCounted'
    BY AckedNext DEF IInv
  <2> QED
    BY <2>1, <2>2, InvNext
<1>3. Inv => AckedIsCounted
  OBVIOUS
<1> QED
  BY <1>1, <1>2, <1>3, PTL DEF Spec
=============================================================================
