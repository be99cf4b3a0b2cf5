SPECIFICATION SweepSpec
CONSTANTS
  p1 = p1
  p2 = p2
  e1 = e1
  Night = Night
  Cells = {1, 2}
  Forces = {p1, p2}
  Presses = {p1}
  Edits = {e1}
  CellOf <- OneCell
  Threshold = 2
  ExpiryDays = 2
  CoolingDays = 1
  MaxAsks = 1
  MaxFaults = 1
INVARIANTS
  DormantAfterNights
PROPERTIES
  DoneMeansMeasured
  KeepsSweeping
