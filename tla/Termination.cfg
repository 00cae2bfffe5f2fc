SPECIFICATION FairSysSpec
CONSTANTS
  JobID = {j1}
  TaskID = {t1, t2}
  Shard = {s1}
  Worker = {w1, w2}
  Call = {c1, c2}
  Priority = {0}
  Items = 4
  ShardSize <- MCShardSize
  LeaseChunk = 1
  MaxRetries = 1
  Concurrency = 1
  Faults = {"error"}
  MaxFailures = 1
  None = None
PROPERTY JobTerminates
