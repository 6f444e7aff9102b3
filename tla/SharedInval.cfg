SPECIFICATION Spec
CONSTANTS
  MaxBackends = 2
  MAXNUMMESSAGES = 3
  MSGNUMWRAPAROUND = 3
  CLEANUP_MIN = 2
  CLEANUP_QUANTUM = 1
  SIG_THRESHOLD = 0
  WRITE_QUANTUM = 1
  MAXINVALMSGS = 2
  SendOnlyPids = {1}
  Senders = {1, 2}
  MaxBatch = 2
  MaxSent = 5
  MaxPid = 2
  MaxDepth = 2
INVARIANTS TypeOK UnreadInBuffer QueuedProcessed
PROPERTIES HandledInOrder CallsReturn CatchupHeeded
CHECK_DEADLOCK FALSE
