SPECIFICATION QueueFairSpec
CONSTANTS
  Senders = {s1}
  Releasers = {r1}
  s1 = s1
  r1 = r1
  StopRequests = {p1}
  p1 = p1
  p2 = p2
  QUEUE_MAX = 1
  MaxTurns = 3
  MaxQueued = 2
  MaxRestarts = 1
INVARIANTS
  QueueTypeOK
  OneTurn
  QueuedIsDriven
PROPERTY
  QueueMoves
