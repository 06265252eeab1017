\* The comment on getHistory against a session longer than the limit.
SPECIFICATION Spec
CONSTANTS
  Turns = {t1, t2}
  Sessions = {s1}
  SessionOf <- OneSession
  Verdicts = {"answer"}
  LlmFaults = {"timeout", "error"}
  DbFaults = {}
  DegradedThreshold = 1
  AlertThreshold = 2
  HistoryLimit = 1
  MaxChunks = 1
  MaxRestarts = 0
PROPERTY HistoryIsMostRecent
CHECK_DEADLOCK FALSE
