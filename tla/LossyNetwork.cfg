SPECIFICATION SysSpec
CONSTANTS
  JobID = {j1}
  TaskID = {t1, t2, t3}
  Shard = {s1}
  Worker = {w1, w2}
  Call = {c1, c2, c3}
  Priority = {0}
  Items = 5
  ShardSize <- MCShardSize
  LeaseChunk = 1
  MaxRetries = 1
  Concurrency = 1
  Faults = {"lost", "renewLost"}
  MaxFailures = 1
  None = None
SYMMETRY MCSymmetry
INVARIANTS LeaseOrder LeaseExclusive ResultsDisjoint
PROPERTIES CommittedIsFinal
