CONSTANTS
  MaxTurns = 4
  Sessions = {s1, s2, s3}
  NoSession = NoSession
  MaxConcurrent = 1
  MaxPending = 3
  MaxQueueWait = 1
SPECIFICATION FairSpec
INVARIANTS TypeOK OneTurnPerSession CountersExact NoIdleSlot
PROPERTIES DrainCoversAll EveryTurnSettles ImplementsGate
CHECK_DEADLOCK FALSE
