SPECIFICATION FairSpec
CONSTANTS
  Investigators = {mapper, evidence}
  Executor = executor
  Reviewers = {validator, critic}
  Operators = {alice}
  Gateway = gateway
  MaxParallelAgents = 1
  MaxCrashes = 1
  MaxRequests = 2
INVARIANTS
  WriterAlone
  CompletedTasksCloseTheirRun
  AcceptedStaysApproved
PROPERTIES
  HarnessTaskEnds
CHECK_DEADLOCK FALSE
