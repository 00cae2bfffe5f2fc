--------------------------- MODULE MCWorkStealing ---------------------------
(* Small instances of WorkStealing for TLC.                                *)
EXTENDS WorkStealing

CONSTANTS Items         \* items in every shard
MCShardSize == [s \in Shard |-> Items]
MCSymmetry == Permutations(TaskID) \cup Permutations(Call) \cup Permutations(Worker)
=============================================================================
