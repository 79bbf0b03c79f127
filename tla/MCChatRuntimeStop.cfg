CONSTANTS
  m1 = m1  m2 = m2  m3 = m3  a1 = a1  c1 = c1  c2 = c2
  Msg = {m1}
  Ask = {}
  Client = {c1, c2}
  MAX_QUEUED_MESSAGES = 2
  PIPE = 1
  Budgets <- StopBudgets
SPECIFICATION FairSpec
PROPERTY StopReallyStops
CHECK_DEADLOCK FALSE
