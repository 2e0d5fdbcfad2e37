---------------------------- MODULE MCShardedScan ----------------------------
(* Model-checking instance of ShardedScan; it has no symmetric values.     *)
EXTENDS ShardedScan
=============================================================================
