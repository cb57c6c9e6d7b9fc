SPECIFICATION RetrySpec
CONSTANTS
  u1 = u1
  u2 = u2
  Users = {u1, u2}
  Msgs = {1, 2}
  UserOf <- OneUser
  Consumers = {c1, c2, c3}
  MaxRetries = 2
  MaxDraining = 2
SYMMETRY ConsumerSymmetry
INVARIANTS QueueInv NothingLost HollowItemsAreSpent GivenUpAfterBudget RetryBudget
CHECK_DEADLOCK FALSE
