SPECIFICATION SharedSpec
CONSTANTS
  u1 = u1
  Users = {u1}
  Prewarm = Prewarm
  Tasks = {t1, t2}
  NoTask = NoTask
  AgeCap = 0
  WarmFor = 0
  Msgs = {1}
  UserOf <- MCUserOf
  MaxRetries = 1
  Prewarmed = {t1}
  Chats = {c1, c2, c3}
  ChatUser <- MCChatUser
  NoChat = NoChat
INVARIANTS ExclusiveUnlessRobbed
PROPERTIES LocksLeaveContainers
CHECK_DEADLOCK FALSE
