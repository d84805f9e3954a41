SPECIFICATION MCSpec
CONSTANTS
  Threads = {t1, t2, t3}
  Null = Null
  MaxRounds = 4
  R_FREE = 2
  Width = 8
  SeqWidth = 4
  Payloads = {1, 2, 3}
  locked = 256
  unlocked = 17
  CountWidth = 65536
  BitAnd <- MCBitAnd
INVARIANTS TypesOK McsMutualExclusion McsNoDeadNode McsNoUseAfterDestroy
  LocksExclude SeqSnapshotUnlessOverrun RcuCurrentIsLive
PROPERTIES McsImplementsFifoLock EveryoneGetsIn
CHECK_DEADLOCK FALSE
