CONSTANTS
  act = act  look = look
  MaxTurns = 2
  Actions = {act}
  Reads = {look}
  Requests <- MCRequests
  MaxIterations = 2
  MaxRetries <- MCMaxRetries
  Fallbacks = 1
  ToolConcurrency = 2
  KeepRecent = 2
  MaxAttempts = 2
SPECIFICATION FairSpec
INVARIANTS TypeOK ContextSound
PROPERTIES RestartRepairs NoFallbackAfterAction ImplementsActionOnce HangsOnlyInActions
CHECK_DEADLOCK FALSE
