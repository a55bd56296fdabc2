---------------------------- MODULE MCFileIngest ----------------------------
(* FileIngest on a few files; the constants are in the .cfg files. *)
EXTENDS FileIngest, TLC

CONSTANTS p1, p2, f1, f2, f3, r1, r2

AnyReader == Permutations({r1, r2})
=============================================================================
