SPECIFICATION FairSpec
CONSTANTS
  s1 = s1
  s2 = s2
  t1 = t1
  t2 = t2
  Subscribers <- MCSubscribers
  Topics <- MCTopics
  TopicOf <- MCTopicOf
  SendCap = 1
  BroadcastCap = 1
  MaxMessages = 2
CHECK_DEADLOCK FALSE
INVARIANTS
  TypeOK
  MembersOpen
  PanicsOnlyAfterStop
  DeliveredWithoutGaps
PROPERTIES
  HubAnswers
