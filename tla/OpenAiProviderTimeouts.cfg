\* T2-009 against a provider that answers for a timeout with its handoff message.
SPECIFICATION Spec
CONSTANTS
  Calls = {c1, c2, c3}
  Threshold = 3
  Faults = {}
  MaxChunks = 0
INVARIANT TimeoutsDegrade
CHECK_DEADLOCK FALSE
