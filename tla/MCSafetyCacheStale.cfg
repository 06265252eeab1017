\* Two overlapping mutations and no failure: does the cache end up fresh?
SPECIFICATION Spec
CONSTANTS
  Requests = {r1, r2}
  Boot = Boot
  NoJob = NoJob
  Unset = Unset
  NotRead = NotRead
  Keys <- MCKeys
  Malformed <- MCMalformed
  Jobs <- MCJobs
  Initial <- MCInitial
  SeedRules <- MCSeedRules
  SeedEntries <- MCSeedEntries
  Messages <- MCMessages
  DbFaults = {}
  MaxSeeds = 0
  MaxRestarts = 0
INVARIANT CacheIsFreshAtRest
CHECK_DEADLOCK FALSE
