SPECIFICATION Spec
CONSTANTS
  Tasks = {t1, t2}
  Workers = {w1}
  Procs = {p1}
  ProcOf <- MCOneProcess
  Conv <- MCConvShared
  NoConv = NoConv
  NoWorker = NoWorker
  NoTask = NoTask
  Legacy = {t1}
  MaxAttempts = 2
  AttemptCap = 2
  MaxFaults = 2
  LeaseCanLapse = TRUE
  HeartbeatCanFail = TRUE
  LoopCanDie = TRUE
  t1 = t1
  t2 = t2
  w1 = w1
  w2 = w2
  w3 = w3
  p1 = p1
  p2 = p2
  c1 = c1
PROPERTIES
  RestartRepairs
CHECK_DEADLOCK FALSE
