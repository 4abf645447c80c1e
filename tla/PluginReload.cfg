CONSTANTS
  a = a
  b = b
  x = x
  None = None
  Dirs = {a, b}
  Names = {a, x}
  NamesOf <- MCNamesOf
  Factories <- MCFactories
  MaxEdits = 3
SPECIFICATION Spec
INVARIANTS TypeOK RestIsConsistent
PROPERTIES StopIsFinal EveryEditIsTried
CHECK_DEADLOCK FALSE
