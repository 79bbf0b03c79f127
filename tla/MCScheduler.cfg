CONSTANTS
  s1 = s1  s2 = s2  e1 = e1
  Schedule = {s1, s2}
  Workflow = {s2}
  Event = {e1}
  MAX_RUNS_PER_SCHEDULE = 2
  Budgets <- AllBudgets
SPECIFICATION FairSpec
INVARIANTS TypeOK OneExecutor RunningIsOwned ToldAsRecorded
PROPERTIES EndedStays RunsEnd
