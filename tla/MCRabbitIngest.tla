--------------------------- MODULE MCRabbitIngest ---------------------------
(* RabbitIngest on a few messages; the constants are in the .cfg files. *)
EXTENDS RabbitIngest

CONSTANTS c1, c2, m1, m2, m3, m4
=============================================================================
