SPECIFICATION Spec
CONSTANTS
  w1 = w1
  w2 = w2
  w3 = w3
  Writers = {w1, w2, w3}
  Casts <- AllCasts
  None = None
  MaxFaults = 2
CHECK_DEADLOCK FALSE
INVARIANTS
  AllOrNothing
PROPERTY
  EveryWriteEnds
