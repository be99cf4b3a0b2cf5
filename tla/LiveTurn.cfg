SPECIFICATION FairSpec
CONSTANTS
  Followers = {f1, f2}
  Stoppers = {s1}
  f1 = f1
  f2 = f2
  s1 = s1
  MaxEvents = 2
CHECK_DEADLOCK FALSE
INVARIANTS
  TypeOK
  NoLostWakeup
  OutcomeIsTrue
PROPERTIES
  ReplaysLog
  StreamsEnd
