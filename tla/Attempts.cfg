SPECIFICATION Spec
CONSTANTS
  s1 = s1
  b1 = b1
  Streams = {s1}
  Blocks = {b1}
  MaxAttempts = 2
  Slots = 1
  ProxySlots = 1
  Reports <- const_Reports
  None = None
  MaxFaults = 1
INVARIANTS
  RecordedOnce
  AnswerIsOneWhole
PROPERTIES
  SettlesDown
CHECK_DEADLOCK FALSE
