SPECIFICATION FairSpec
CONSTANTS
  u1 = u1
  u2 = u2
  t1 = t1
  Users = {u1}
  Prewarm = Prewarm
  Tasks = {t1, t2}
  NoTask = NoTask
  AgeCap = 0
  WarmFor = 0
  Msgs = {1, 2}
  UserOf <- MCUserOf
  MaxRetries = 1
  Prewarmed = {t1}
INVARIANTS StarterFindsMessage UnansweredIsSaved
PROPERTIES StarterIsServed
CHECK_DEADLOCK FALSE
