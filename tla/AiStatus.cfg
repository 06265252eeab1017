\* The breaker under every order of reports of five overlapping turns.
SPECIFICATION Spec
CONSTANTS
  Turns = {t1, t2, t3, t4, t5}
  Threshold = 3
INVARIANTS
  TypeOK
  DegradedConsistent
  OvershootBounded
