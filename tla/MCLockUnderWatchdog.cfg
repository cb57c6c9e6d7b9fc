SPECIFICATION BothSpec
CONSTANTS
  u1 = u1
  Users = {u1}
  Execs = {e1, e2}
  ExecUser <- OneUser
  LambdaTimeout = 1
  LockTtl = 1
  NoTtl = NoTtl
  Nobody = Nobody
INVARIANTS NoLostTurn
