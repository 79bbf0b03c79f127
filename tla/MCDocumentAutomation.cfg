CONSTANTS
  t1 = t1  r1 = r1  f1 = f1  f2 = f2  None = None
  Trigger = {t1}
  Root = {r1}
  File = {f1, f2}
  HomeRoot <- OneHome
  Present = {f1}
  CIRCUIT_MAX_RUNS = 2
  Budgets <- AllBudgets
SPECIFICATION FairSpec
INVARIANTS TypeOK NothingElseForgotten LaunchedIsSaved
PROPERTIES  EveryChangeArrives
CHECK_DEADLOCK FALSE
