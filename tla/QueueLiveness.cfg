SPECIFICATION FairSpec
CONSTANTS
  Tasks = {t1, t2}
  Workers = {w1, w2}
  Procs = {p1}
  ProcOf <- MCOneProcess
  Conv <- MCConvShared
  NoConv = NoConv
  NoWorker = NoWorker
  NoTask = NoTask
  Legacy = {}
  MaxAttempts = 2
  AttemptCap = 3
  MaxFaults = 1
  LeaseCanLapse = FALSE
  HeartbeatCanFail = FALSE
  LoopCanDie = FALSE
  t1 = t1
  t2 = t2
  w1 = w1
  w2 = w2
  w3 = w3
  p1 = p1
  p2 = p2
  c1 = c1
PROPERTIES
  AcceptedWorkCloses
CHECK_DEADLOCK FALSE
