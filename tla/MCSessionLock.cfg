SPECIFICATION FairSpec
CONSTANTS
  u1 = u1
  u2 = u2
  e3 = e3
  Users = {u1, u2}
  Execs = {e1, e2, e3}
  ExecUser <- MCExecUser
  LambdaTimeout = 1
  LockTtl = 1
  NoTtl = NoTtl
  Nobody = Nobody
INVARIANTS
  LockInv
  MutualExclusion
  NoLostTurn
PROPERTIES
  TranscriptOnlyGrows
  LockEventuallyFreed
CHECK_DEADLOCK FALSE
