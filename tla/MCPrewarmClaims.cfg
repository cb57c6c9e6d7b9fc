SPECIFICATION ClaimSpec
CONSTANTS
  u1 = u1
  u2 = u2
  Users = {u1, u2}
  Prewarm = Prewarm
  Tasks = {t1}
  NoTask = NoTask
  AgeCap = 0
  WarmFor = 0
  Msgs = {1, 2}
  UserOf <- MCUserOf
  MaxRetries = 1
  MinUptime = 0
  StaleStarting = 0
  OrphanUptime = 0
  Timeouts = {0}
  DescribeThrows = TRUE
  MaxPrewarms = 2
INVARIANTS OwnContainersOnly
