CONSTANTS
  c1 = c1  c2 = c2  c3 = c3  old = old  new = new
  Chat = {c1, c2, c3}
  Session = {old, new}
  Existing = {old}
  Budgets <- Troubles
  None = None
SYMMETRY Alike
SPECIFICATION Spec
INVARIANTS TypeOK OneOwner OneWriter NoDeadClaims Recoverable ShutdownIsHonest
CHECK_DEADLOCK FALSE
