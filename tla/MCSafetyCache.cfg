\* Two mutation requests of the admin API, overlapping or not, two runs of the
\* seed, a restart, and query failures.
SPECIFICATION Spec
CONSTANTS
  Requests = {r1, r2}
  Boot = Boot
  NoJob = NoJob
  Unset = Unset
  NotRead = NotRead
  Keys <- MCKeys
  Malformed <- MCMalformed
  Jobs <- MCJobs
  Initial <- MCInitial
  SeedRules <- MCSeedRules
  SeedEntries <- MCSeedEntries
  Messages <- MCMessages
  DbFaults = {"refused", "unacked"}
  MaxSeeds = 2
  MaxRestarts = 1
SYMMETRY RequestSymmetry
INVARIANTS
  TypeOK
  SerialReloadIsFresh
  VerdictFollowsTables
  SeedIsComplete
  SeedNeverDuplicates
PROPERTY AnsweredIsCached
CHECK_DEADLOCK FALSE
