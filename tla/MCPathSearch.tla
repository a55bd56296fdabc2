---------------------------- MODULE MCPathSearch ----------------------------
(* PathSearch over every graph of a few subscribers. *)
EXTENDS PathSearch, TLC

CONSTANTS s1, s2, s3, s4, s5, s6

AnySubscriber == Permutations(Subscribers)
=============================================================================
