CONSTANTS
  Calls = {c1, c2, c3}
  NoCall = NoCall
  ManyStops = TRUE
SPECIFICATION Spec
INVARIANT OneStopAtATime
