CONSTANTS
  MaxTasks = 3
  MaxDependents = 2
  MaxRuns = 2
  MaxDuplicates = 1
  MaxEdits = 1
  MaxCrashes = 1
SPECIFICATION Spec
INVARIANTS TypeOK OneRunInOrder
PROPERTIES EveryoneElseRuns
CHECK_DEADLOCK FALSE
