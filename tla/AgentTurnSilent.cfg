CONSTANTS
  act = act  look = look
  MaxTurns = 2
  Actions = {act}
  Reads = {look}
  Requests <- MCRequests
  MaxIterations = 2
  MaxRetries <- MCMaxRetries
  Fallbacks = 1
  ToolConcurrency = 2
  KeepRecent = 2
  MaxAttempts = 2
SPECIFICATION Spec
INVARIANTS ResultsHaveCalls
CHECK_DEADLOCK FALSE
