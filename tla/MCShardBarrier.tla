--------------------------- MODULE MCShardBarrier ---------------------------
(* Two shards. *)
EXTENDS ShardBarrier

MCShards == {0, 1}
=============================================================================
