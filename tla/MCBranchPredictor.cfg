SPECIFICATION Spec
CONSTANTS
  HistLength = 1
  BpSize = 2
  Max = 3
  Threshold = 2
  Programs <- MCPrograms
  Depth = 3
  Commits = 6
  JalrCommits = 1
CHECK_DEADLOCK FALSE
INVARIANTS TypeOK TwoOutcomesDecide SteadyBranchesLearned
