SPECIFICATION Spec
CONSTANTS
  poller = poller
  writer = writer
  closer = closer
  Tasks <- MCTasks
  OpsOf <- MCFewOpsOf
  Sessions = {s1, s2}
  Values = {v1, v2}
  WriteAttempts = 3
  MaxPages = 2
  AwaitedClose = TRUE
  CancelsAt = {"waiting", "connecting", "request", "verify", "closing", "sleep"}
  NoTask = NoTask
  NoSession = NoSession
INVARIANT NoStrayTransport
