SPECIFICATION FairSpec
CONSTANTS
  Tasks = {t1, t2}
  Conv <- MCConvShared
  NoConv = NoConv
  AuditPage = 1
  MaxEvents = 3
  t1 = t1
  t2 = t2
  t3 = t3
  c1 = c1
INVARIANTS
  TypeOK
  ContinuousSequences
  StreamsAreComplete
PROPERTIES
  EventsAreDelivered
CHECK_DEADLOCK FALSE
