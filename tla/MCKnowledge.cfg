\* Administrators change two entries while a turn retrieves, with query failures.
SPECIFICATION Spec
CONSTANTS
  Entries = {e1, e2}
  Turns = {t1}
  Languages <- MCLanguages
  Texts <- MCTexts
  Statuses = {"draft", "approved"}
  Terms = {1, 5}
  Limits = {1, 2}
  MinimumScore = 25
  AnswerThreshold = 55
  QueriesFail = TRUE
  MaxMutations = 2
INVARIANTS
  TypeOK
  OnlyPublished
  DeletedIsFinal
  NothingMissed
  BestFirst
SYMMETRY EntrySymmetry
CHECK_DEADLOCK FALSE
