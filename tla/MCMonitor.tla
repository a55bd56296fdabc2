----------------------------- MODULE MCMonitor -----------------------------
(* Monitor with a few threads, which are interchangeable. *)
EXTENDS Monitor

CONSTANTS t1, t2

AnyThread == Permutations(Threads)
=============================================================================
