\* One message: every label the tables can give it, every history up to four
\* rows, with budgets from nothing to enough for all of it.
SPECIFICATION Spec
CONSTANTS
  Words <- MCWords
  Holds <- MCHolds
  NoLabel = NoLabel
  Templates <- MCTemplates
  Glossary <- MCGlossary
  Messages <- MCMessages
  Sizes <- MCSizes
  Persona = 2
  Caution = 1
  CrossLanguage = 2
  Configured <- MCConfigured
  Undefined = Undefined
  DefaultTokens = 7
  Buffer = 1
  MaxHistory = 4
INVARIANTS
  TypeOK
  BestTemplate
  GlossaryNeverHides
  WithinBudget
  LongestEnd
CHECK_DEADLOCK FALSE
