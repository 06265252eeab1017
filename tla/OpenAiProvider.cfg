\* Two turns at the LLM at once: failures, timeouts and disconnects at every await.
SPECIFICATION FairSpec
CONSTANTS
  Calls = {c1, c2}
  Threshold = 1
  Faults = {"error"}
  MaxChunks = 1
INVARIANTS
  TypeOK
  AnswerProvenance
PROPERTIES
  LlmSpec
  AbortNeverAnswers
  EveryCallEnds
CHECK_DEADLOCK FALSE
