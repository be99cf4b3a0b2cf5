SPECIFICATION Spec
CONSTANTS
  a = a
  b = b
  p1 = p1
  p2 = p2
  m1 = m1
  m2 = m2
  None = None
  Torn = Torn
  Files = {a, b}
  Trees <- const_Trees
  Handlers = {p1, p2}
  Messages = {m1}
  Unstages = {}
  MaxRows = 2
  MaxFaults = 1
INVARIANTS
  PointerIsTrue
  OnePending
PROPERTIES
  RequestsHeard
