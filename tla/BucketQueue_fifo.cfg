\* Three threads that push, pop with every combination of flags, and race a
\* close: enough for a waiter to be signalled and robbed, and for several
\* waiters to be released by one broadcast.
CONSTANTS
  Threads = {t1, t2, t3}
  Items = {i1, i2}
  NULL = NULL
SPECIFICATION Spec

PROPERTIES AtomicQueueSpec WaitersReturn
