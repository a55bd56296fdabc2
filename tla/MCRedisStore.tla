---------------------------- MODULE MCRedisStore ----------------------------
(* RedisStore on small batches; the constants are in the .cfg files. *)
EXTENDS RedisStore
=============================================================================
