---------------------------- MODULE BatchLedger ----------------------------
(***************************************************************************)
(* What the store really promises of one batch of commands, whatever the   *)
(* connection does: it lands at most once, in one transaction, and what    *)
(* lands is everything the batch issued from some point on.  (The design   *)
(* document promises more, that this point is the first command; that      *)
(* stronger claim is AllOrNothing of RedisStore, which does not hold.)     *)
(***************************************************************************)
EXTENDS Naturals

CONSTANTS MaxBatches,  \* how many batches are consumed
          N,           \* the commands a batch may issue, in the order it issues them
          MarkAt       \* the one that is issued only for a batch that names its source

VARIABLE landed        \* per batch, the commands the server has applied

Batches == 1 .. MaxBatches

(* The commands from the k-th on, with or without the mark. *)
From(k, marked) == {i \in k .. N : i = MarkAt => marked}

Init == landed = [b \in Batches |-> {}]

Land(b, k, marked) ==
    /\ landed[b] = {}
    /\ landed' = [landed EXCEPT ![b] = From(k, marked)]

Next == \E b \in Batches, k \in 1 .. N, marked \in BOOLEAN : Land(b, k, marked)

Spec == Init /\ [][Next]_landed
=============================================================================
