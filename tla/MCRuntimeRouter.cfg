SPECIFICATION Spec
CONSTANTS
  r1 = r1
  r2 = r2
  r3 = r3
  Requests = {r1, r2}
  Channels = {"web", "telegram"}
  NoContext = NoContext
  Arrivals <- MCArrivals
  Configs <- MCConfigs
SYMMETRY RequestSymmetry
INVARIANTS TypeOK OneRuntimePerMessage HandledIsOwned LockIsHonoured FollowUpAnsweredOnce
