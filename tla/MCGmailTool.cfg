SPECIFICATION Spec
CONSTANTS
  p1 = p1
  p2 = p2
  t1 = t1
  t2 = t2
  Processes = {p1}
  Turns = {t1}
  NoContext = NoContext
  Over = Over
  Uncertain = Uncertain
  Messages <- MCMessages
  Decisions <- MCDecisions
  Mailboxes <- MCMailboxes
  MaxFailures = 1
  Budget = 1
  DefaultScan = 2
  MaxScan = 3
  ExtendedScan = 4
  TopicScan = 1
  WideTopicScan = 2
  BodyChecks = 1
  WideBudget = 2
  FewRecords = 2
INVARIANTS TypeOK FollowUpUsesLatest AnswerIsOfItsPeriod CountsEachMailOnce FewBodies
