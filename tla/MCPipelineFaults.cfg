\* Two turns of one session under every fault: refused and unacknowledged
\* queries, lost audit entries, LLM failures, disconnects and one restart.
SPECIFICATION Spec
CONSTANTS
  Turns = {t1, t2}
  Sessions = {s1}
  SessionOf <- OneSession
  Verdicts = {"too_long", "sensitive", "blocked", "confidential", "no_hits", "answer"}
  LlmFaults = {"timeout", "error", "abort_error"}
  DbFaults = {"refused", "unacked", "unlogged"}
  DegradedThreshold = 1
  AlertThreshold = 2
  HistoryLimit = 4
  MaxChunks = 1
  MaxRestarts = 1
SYMMETRY TurnSymmetry
INVARIANTS
  TypeOK
  DegradedConsistent
  RowsInOrder
  ResponseMatchesStore
  AuditMatchesResponse
  SeenCountsDistinct
  HistoryFaithful
PROPERTIES
  SseSpec
  AiStatusSpec
  LlmSpec
  ReportsMatchOutcome
CHECK_DEADLOCK FALSE
