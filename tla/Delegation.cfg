SPECIFICATION DelegationSpec
CONSTANTS
  r1 = r1
  r2 = r2
  Requests = {r1}
  None = None
  Models = {1, 2, 3, 4}
  Excluded = {}
  Qualified = {4}
  Builtin = {1, 2, 3}
  MaxAttempts = 3
  GateMaxAttempts = 2
  LeafTokens = 4
  GateTokens = 1
  Budget = 40
  Ceiling = 34
  SizeFactor = 2
  TypeOrder <- const_TypeOrder
  GateCalls <- const_GateCalls
  Calibration <- const_Calibration
  Reach <- const_Reach
  GateReach <- const_GateReach
  Seeded <- const_Seeded
  Changes <- const_Changes
  Measures <- const_Measures
  Catalogues <- const_Catalogues
INVARIANTS
  LaddersSound
  PinsOnlyRemove
PROPERTIES
  AcceptedBoots
