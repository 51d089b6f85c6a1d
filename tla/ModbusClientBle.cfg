SPECIFICATION FairTeardownSpec
CONSTANTS
  poller = poller
  writer = writer
  Unloader = unloader
  Tasks <- MCTasks
  OpsOf <- MCOpsOf
  Sessions = {s1}
  Values = {v1}
  WriteAttempts = 3
  MaxPages = 2
  AwaitedClose = TRUE
  CancelsAt = {}
  NoTask = NoTask
  NoSession = NoSession
INVARIANT
  QuietUnloadStaysClosed
PROPERTIES
  CloseLeavesNothingOpen
  EveryCallReturns
CHECK_DEADLOCK FALSE
