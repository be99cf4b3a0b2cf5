\* KeysLandAsMeant, KeysLandAmongOthers and QuestionsAreYours fail: name one of them
\* as an INVARIANT.
SPECIFICATION Spec
CONSTANTS
  p1 = p1
  Watcher = Watcher
  Person = Person
  Script <- const_Script
  Handlers = {p1}
  MaxMoves = 1
  MaxRequests = 1
  Presses = {"enter"}
  MaxPresses = 1
  MaxFaults = 1
INVARIANTS
  KeysLand
  AutoAccepts
PROPERTIES
  ArmedIsAnswered
CHECK_DEADLOCK FALSE
