---------------------------- MODULE MCThreadPool ----------------------------
(* One task submits another while it runs; the others submit nothing, as     *)
(* those of FileIngestor.                                                    *)
EXTENDS ThreadPool

CONSTANTS p1, p2, w1, w2, t1, t2, t3, t4

OneChild == [t \in Tasks |-> IF t = t1 THEN t2 ELSE NoTask]
=============================================================================
