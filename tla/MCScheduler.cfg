SPECIFICATION Spec
CONSTANTS
  JobID = {j1}
  TaskID = {t1, t2}
  Shard = {s1}
  Worker = {w1, w2}
  Call = {c1}
  Priority = {0}
  Items = 3
  ShardSize <- MCShardSize
  LeaseChunk = 1
  MaxRetries = 1
  None = None
SYMMETRY MCSymmetry
INVARIANTS TypeOK Tiling PendingIsQueued KeyFencedByGeneration JobAccounting
