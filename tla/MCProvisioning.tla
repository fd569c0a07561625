--------------------------- MODULE MCProvisioning ---------------------------
(* Two shards, and a patch that changes two files, creates the marker and   *)
(* then one more file, as dflash2-backport.patch does with thirteen.        *)
EXTENDS Provisioning, SpeedTestRanges

MCFiles == {"config", "shard1", "shard2"}
MCShards == {"shard1", "shard2"}
MCChanged == <<"registry", "model_runner">>
MCCreated == <<"qwen3_dflash2", "speculator">>

\* The speed test's ranges on small objects, and one on which a GET starts past
\* the end.
ASSUME RangesOnSmallObjects ==
  /\ \A bytes \in 1..40, streams \in -1..12 :
       /\ EachByteOnce(bytes, streams)
       /\ ChunkCount(bytes, streams) * ChunkCount(bytes, streams) <= bytes => NoRangeIsEmpty(bytes, streams)
  /\ ~NoRangeIsEmpty(5, 4)
=============================================================================
