\* File mode: end of file raises the shutdown.  Two indexers and two output
\* threads race for the same queues and for the close of each.
CONSTANTS
  Buckets = {b1, b2, b3}
  Captures = {c1}
  Indexers = {i1, i2}
  Writers = {w1, w2}
  Mode = "FILE"
  CapLens = {1, 2}
  MaxPackets = 4
  Outcomes = {"OK", "DB_ERR", "IO_ERR"}
  HdrSize = 1
  RecSize = 2
  WordSize = 2
  Mtu = 4
  BucketSpace = 8
  OutfileSize = 8
  NULL = NULL
SPECIFICATION Spec
CHECK_DEADLOCK FALSE
INVARIANTS TypeOK BucketsConserved ChainFitsOutfile AllFreedAtExit
PROPERTIES ShutdownCompletes
