CONSTANTS
  m1 = m1  m2 = m2  m3 = m3  a1 = a1  c1 = c1  c2 = c2
  Msg = {m1, m2, m3}
  Ask = {a1}
  Client = {c1, c2}
  MAX_QUEUED_MESSAGES = 2
  PIPE = 1
  Budgets <- SafetyBudgets
SYMMETRY Alike
SPECIFICATION Spec
INVARIANTS TypeOK QueueOrder RestIsReal AtMostOnce Accounted AnsweredOnce LeaseOutlivesProcess
CHECK_DEADLOCK FALSE
