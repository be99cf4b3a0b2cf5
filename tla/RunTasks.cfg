SPECIFICATION FairSpec
CONSTANTS
  NumTasks = 5
  EngineTasks = {5}
  Plans <- MCPlans
  Runs = {r1}
  Engine = engine
  r1 = r1
  r2 = r2
CHECK_DEADLOCK FALSE
INVARIANTS
  RunsReportTruly
  PromptHasResults
PROPERTY
  RunsEnd
