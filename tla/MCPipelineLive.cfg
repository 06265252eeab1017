\* Two turns under refused queries and LLM failures, with the scheduling the
\* event loop gives; the audit log can be written, so that what it must say is.
SPECIFICATION FairSpec
CONSTANTS
  Turns = {t1, t2}
  Sessions = {s1}
  SessionOf <- OneSession
  Verdicts = {"sensitive", "confidential", "answer"}
  LlmFaults = {"timeout", "error", "abort_error"}
  DbFaults = {"refused"}
  DegradedThreshold = 1
  AlertThreshold = 2
  HistoryLimit = 4
  MaxChunks = 1
  MaxRestarts = 0
INVARIANTS
  AuditMatchesResponse
  EveryLevelAlerts
PROPERTIES
  EveryTurnStops
  AdmittedTurnTerminates
CHECK_DEADLOCK FALSE
