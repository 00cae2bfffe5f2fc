----------------------------- MODULE MCScheduler -----------------------------
(* Small instances of Scheduler for TLC.                                   *)
EXTENDS Scheduler

CONSTANTS Items         \* items in every shard
MCShardSize == [s \in Shard |-> Items]
MCSymmetry == Permutations(TaskID) \cup Permutations(Call) \cup Permutations(Worker)
=============================================================================
