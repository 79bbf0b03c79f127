CONSTANTS
  Chat = {c1, c2}
  Request = {r1}
  Id = {i1}
  Caller = {t1, t2}
  MAX_PENDING_PER_CHAT = 1
  MAX_ENTRIES = 2
  TTL = 1
  LastOpen = 0
  MaxClock = 2
SPECIFICATION FairSpec
INVARIANTS CardTypeOK CardTellsTheDecision WaitingIsAnswerable
PROPERTY EveryCardCloses
CHECK_DEADLOCK FALSE
