CONSTANTS
  Calls = {c1, c2, c3, c4}
  NoCall = NoCall
  ManyStops = FALSE
SPECIFICATION FairSpec
INVARIANTS TypeOK OneCallback StateTruthful
PROPERTIES StopReturnsWhenDown EveryCallReturns
