SPECIFICATION Spec
CONSTANTS
  t1 = t1
  t2 = t2
  web = web
  chat1 = chat1
  Turns = {t1, t2}
  Connections = {web, chat1}
  Telegram = {chat1}
  MaxText = 1
  MaxAttempts = 0
  Deployments <- MCPrimaryFirst
  Arrivals <- MCSharedChat
SYMMETRY TurnSymmetry
INVARIANTS AnswerIsWhole NothingIsLeft ClosedOnce StoredWasSent BusyWhileWorking
CHECK_DEADLOCK FALSE
