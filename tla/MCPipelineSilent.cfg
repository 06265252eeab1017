\* FR-007 against the degraded path, which no catch covers.
SPECIFICATION FairSpec
CONSTANTS
  Turns = {t1, t2}
  Sessions = {s1}
  SessionOf <- OneSession
  Verdicts = {"answer"}
  LlmFaults = {"timeout", "error"}
  DbFaults = {"refused"}
  DegradedThreshold = 1
  AlertThreshold = 2
  HistoryLimit = 4
  MaxChunks = 1
  MaxRestarts = 0
PROPERTY NeverSilent
CHECK_DEADLOCK FALSE
