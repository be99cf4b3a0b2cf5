SPECIFICATION FairSpec
CONSTANTS
  NumTasks = 3
  Plans <- MCPlans
  Loops = {l1, l2}
  Planner = l1
  l1 = l1
  l2 = l2
INVARIANTS
  TypeOK
  OnceInOrder
PROPERTIES
  HonestDone
  Completes
