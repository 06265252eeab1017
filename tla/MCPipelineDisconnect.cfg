\* FR-004b against a client that leaves while its session is looked up.
SPECIFICATION Spec
CONSTANTS
  Turns = {t1, t2}
  Sessions = {s1}
  SessionOf <- OneSession
  Verdicts = {"answer"}
  LlmFaults = {"timeout", "error"}
  DbFaults = {}
  DegradedThreshold = 1
  AlertThreshold = 2
  HistoryLimit = 4
  MaxChunks = 1
  MaxRestarts = 0
INVARIANT DisconnectAborts
CHECK_DEADLOCK FALSE
