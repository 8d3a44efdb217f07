SPECIFICATION FairSpec
CONSTANTS
  s1 = s1
  s2 = s2
  t1 = t1
  t2 = t2
  Subscribers <- MCOne
  Topics <- MCTopics
  TopicOf <- MCOneOf
  SendCap = 1
  BroadcastCap = 1
  MaxMessages = 3
CHECK_DEADLOCK FALSE
PROPERTY
  HubServes
