SPECIFICATION FairSpec
CONSTANTS
  u1 = u1
  Users = {u1}
  Prewarm = Prewarm
  Tasks = {t1, t2}
  NoTask = NoTask
  AgeCap = 1
  WarmFor = 1
  Msgs = {1}
  UserOf <- MCUserOf
  MaxRetries = 1
  MinUptime = 1
  StaleStarting = 0
  OrphanUptime = 1
  Timeouts = {0}
  DescribeThrows = TRUE
  MaxPrewarms = 1
INVARIANTS YoungTasksSurvive
PROPERTIES OnlyHangingTasksStay
