-------------------------- MODULE MCShardPipeline --------------------------
(***************************************************************************)
(* Small instances of ShardPipeline for TLC.                               *)
(***************************************************************************)
EXTENDS ShardPipeline

\* Four shards over five layers, all but the third with experts: a walk of two
\* layers, a boundary between two walked shards, one to a plain shard, and the
\* finalize step occur.
MixedStart   == <<0, 2, 3, 4>>
MixedEnd     == <<2, 3, 4, 5>>
MixedExperts == {1, 2, 4}

\* A model without experts.
DenseStart   == <<0, 1, 2>>
DenseEnd     == <<1, 2, 3>>
NoExperts    == {}
=============================================================================
