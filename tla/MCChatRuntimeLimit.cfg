CONSTANTS
  m1 = m1  m2 = m2  m3 = m3  a1 = a1  c1 = c1  c2 = c2
  Msg = {m1, m2, m3}
  Ask = {}
  Client = {c1, c2}
  MAX_QUEUED_MESSAGES = 2
  PIPE = 2
  Budgets <- LimitBudgets
SYMMETRY Alike
SPECIFICATION Spec
INVARIANT LimitKeepsInputs
CHECK_DEADLOCK FALSE
