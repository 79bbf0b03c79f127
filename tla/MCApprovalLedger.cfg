CONSTANTS
  Chat = {c1, c2}
  Request = {r1, r2}
  Id = {i1, i2, i3}
  Caller = {t1, t2}
  MAX_PENDING_PER_CHAT = 2
  MAX_ENTRIES = 2
  TTL = 1
  MaxClock = 2
SYMMETRY Symmetric
SPECIFICATION Spec
INVARIANTS TypeOK SpentAtMostOnce NoTwinCards WithinLimits RanAsAsked
PROPERTY ImplementsToken
CHECK_DEADLOCK FALSE
