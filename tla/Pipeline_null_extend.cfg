CONSTANTS
  Buckets = {b1, b2, b3}
  Captures = {c1, c2}
  Indexers = {i1}
  Writers = {w1}
  Mode = "LIVE"
  CapLens = {1, 2}
  MaxPackets = 4
  Outcomes = {"OK", "DB_ERR", "IO_ERR"}
  HdrSize = 1
  RecSize = 2
  WordSize = 2
  Mtu = 4
  BucketSpace = 8
  OutfileSize = 8
  NULL = NULL
SPECIFICATION Spec
CHECK_DEADLOCK FALSE
INVARIANT NoNullExtend
