SPECIFICATION Spec
CONSTANTS
  t1 = t1
  t2 = t2
  web = web
  chat1 = chat1
  Turns = {t1}
  Connections = {web, chat1}
  Telegram = {chat1}
  MaxText = 3
  MaxAttempts = 2
  Deployments <- MCAnyDeployment
  Arrivals <- MCAnyArrival
INVARIANTS TextInOrder RunIsReadWhole
PROPERTY TurnEnds
CHECK_DEADLOCK FALSE
