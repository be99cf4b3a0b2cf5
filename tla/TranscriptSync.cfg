SPECIFICATION SyncSpec
CONSTANTS
  p1 = p1
  p2 = p2
  t1 = t1
  q1 = q1
  q2 = q2
  Pollers = {p1, p2}
  Turns = {t1}
  Questions = {q1}
  Wordings <- const_Wordings
  MaxLines = 2
  DedupWindow = 3
  MaxWriteFaults = 1
  None = None
INVARIANTS
  TerminalKept

  
