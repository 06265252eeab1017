---------------------------- MODULE SafetyCache ----------------------------
(***************************************************************************)
(* The tables of safety rules and blacklist entries and their in-memory    *)
(* cache (src/src/safety/safety.service.ts), under concurrent requests of  *)
(* the admin API (src/src/admin/safety/safety-admin.service.ts), restarts  *)
(* of the server, and the seed script (src/prisma/seeds), a process of its *)
(* own that changes the tables and tells nobody.                           *)
(*                                                                         *)
(* Each mutation commits, then reloads the whole cache with two queries    *)
(* that run side by side (Promise.all) and whose answers arrive whenever   *)
(* they do; the cache is assigned once both are there.  The start of the   *)
(* server is such a reload (onModuleInit): it is the client Boot.          *)
(***************************************************************************)
EXTENDS SafetyScan, Sequences, FiniteSets, Functions

CONSTANTS Requests,   \* mutation requests of administrators
          Boot,       \* the start of the server
          Jobs,       \* what the requests ask for
          NoJob,      \* ... before a request is sent
          Unset,      \* a field that a request leaves out
          Initial,    \* the tables there may be at first
          SeedRules, SeedEntries, \* the lists of the two seed files
          Messages,   \* messages of visitors
          DbFaults,   \* "refused", "unacked": as in ChatPipeline
          NotRead,    \* no answer of a query yet
          MaxSeeds, MaxRestarts   \* bounds: runs of the seed, restarts

Tables == {"rules", "blacklist"}

Change == [key: Keys \cup {Unset}, type: Types \cup {Unset},
           isRegex: BOOLEAN \cup {Unset}, isActive: BOOLEAN \cup {Unset}]
Job == [table: Tables, call: {"create", "exists"}, id: Nat, change: Change]

ASSUME SafetyCacheAssumption ==
  /\ IsFiniteSet(Requests) /\ Boot \notin Requests
  /\ NoJob \notin Jobs
  /\ Jobs \subseteq Job
  /\ \A j \in Jobs : j.call = "create" => j.change.key \in Keys /\ j.change.type \in Types
  /\ Initial \subseteq [Tables -> Seq(Row)]
  /\ SeedRules \in Seq(Row) /\ SeedEntries \in Seq(Row)
  /\ Messages \subseteq Message
  /\ DbFaults \subseteq {"refused", "unacked"}
  /\ MaxSeeds \in Nat /\ MaxRestarts \in Nat

VARIABLES pc,       \* pc[c]: the call client c awaits, or how it ended
          job,      \* job[r]: what request r asks for
          tables,   \* tables[tb]: the rows of table tb, row 'id' at place id
          version,  \* version[tb]: mutations committed to tb
          wrote,    \* wrote[r]: the version r's mutation made; 0 before
          read,     \* read[c][tb]: what c's reload read of tb
          cache,    \* cache[tb]: the fields 'rules' and 'blacklist'
          serial,   \* since the server started no two clients have
                    \* overlapped, nor a client and a write of the seed
          reloaded, \* the last mutation was followed by its reload
          seedAt,   \* the item of its lists the seed is at; 0: not running
          seedFound,\* what getOrReserveId() returned for it
          seeds, restarts, \* counters for the bounds
          quiet     \* the seed has not failed, and since it began no request
                    \* gave a row another key

cacheVars == <<read, cache>>
seedVars == <<seedAt, seedFound, seeds, quiet>>
vars == <<pc, job, tables, version, wrote, cacheVars, serial, reloaded, seedVars, restarts>>

Clients == Requests \cup {Boot}
Active == {c \in Clients : pc[c] \in {"exists", "create", "change", "reload"}}

\* What findAllRules() and findAllBlacklist() answer: the active rows by id.
\* The version is for the properties only.
Snapshot(tb) ==
  [rows |-> Restrict(tables[tb], {id \in DOMAIN tables[tb] : tables[tb][id].isActive}),
   version |-> version[tb]]
Nothing == [rows |-> <<>>, version |-> 0]
Unread == [tb \in Tables |-> NotRead]

SnapshotOK(snapshot) ==
  /\ snapshot.version \in Nat
  /\ DOMAIN snapshot.rows \subseteq Nat
  /\ \A id \in DOMAIN snapshot.rows : snapshot.rows[id] \in Row

ClientsOK ==
  /\ pc \in [Clients -> {"idle", "exists", "create", "change", "reload", "answered", "failed"}]
  /\ job \in [Requests -> Jobs \cup {NoJob}]
  /\ \A r \in Requests : pc[r] # "idle" => job[r] # NoJob
DatabaseOK ==
  /\ tables \in [Tables -> Seq(Row)]
  /\ version \in [Tables -> Nat]
  /\ wrote \in [Requests -> Nat]
CacheOK ==
  /\ DOMAIN read = Clients
  /\ \A c \in Clients :
       /\ DOMAIN read[c] = Tables
       /\ \A tb \in Tables : read[c][tb] = NotRead \/ SnapshotOK(read[c][tb])
  /\ DOMAIN cache = Tables
  /\ \A tb \in Tables : SnapshotOK(cache[tb])
SeedOK ==
  /\ seedAt \in 0..(Len(SeedRules) + Len(SeedEntries))
  /\ seedFound = NotRead \/ seedFound \in 0..Len(tables["rules"])
  /\ seeds \in 0..MaxSeeds
TypeOK ==
  /\ ClientsOK /\ DatabaseOK /\ CacheOK /\ SeedOK
  /\ serial \in BOOLEAN /\ reloaded \in BOOLEAN /\ quiet \in BOOLEAN
  /\ restarts \in 0..MaxRestarts

\* The server starts.
Init ==
  /\ pc = [c \in Clients |-> IF c = Boot THEN "reload" ELSE "idle"]
  /\ job = [r \in Requests |-> NoJob]
  /\ tables \in Initial
  /\ version = [tb \in Tables |-> 0]
  /\ wrote = [r \in Requests |-> 0]
  /\ read = [c \in Clients |-> Unread]
  /\ cache = [tb \in Tables |-> Nothing]
  /\ serial = TRUE /\ reloaded = FALSE /\ quiet = FALSE
  /\ seedAt = 0 /\ seedFound = NotRead
  /\ seeds = 0 /\ restarts = 0

-----------------------------------------------------------------------------
(***************************************************************************)
(* The requests.                                                           *)
(***************************************************************************)
\* createRule and createEntry start with the insert; updateRule, disableRule,
\* updateEntry and disableEntry with assertRuleExists or assertEntryExists.
Submit(r) ==
  /\ pc[r] = "idle" /\ pc[Boot] = "answered"
  /\ \E asked \in Jobs :
       /\ job' = [job EXCEPT ![r] = asked]
       /\ pc' = [pc EXCEPT ![r] = asked.call]
  /\ serial' = (serial /\ Active = {})
  /\ UNCHANGED <<tables, version, wrote, cacheVars, reloaded, seedVars, restarts>>

AssertExists(r) ==
  /\ pc[r] = "exists"
  /\ pc' = [pc EXCEPT ![r] = IF job[r].id \in DOMAIN tables[job[r].table]
                             THEN "change" ELSE "failed"]
  /\ UNCHANGED <<job, tables, version, wrote, cacheVars, serial, reloaded, seedVars, restarts>>

\* 'value', or what is there when the request does not set the field.
Given(value, old) == IF value = Unset THEN old ELSE value

\* Mutant of Created: no '?? true', the field stays undefined.
CreatedAsGiven(change) ==
  [key |-> change.key, type |-> change.type,
   isRegex |-> Given(change.isRegex, FALSE), isActive |-> change.isActive]

\* A rule or an entry is active unless the request says otherwise.
Created(change) ==
  [key |-> change.key, type |-> change.type,
   isRegex |-> Given(change.isRegex, FALSE), isActive |-> Given(change.isActive, TRUE)]

Patched(row, change) ==
  [key |-> Given(change.key, row.key), type |-> Given(change.type, row.type),
   isRegex |-> Given(change.isRegex, row.isRegex),
   isActive |-> Given(change.isActive, row.isActive)]

\* The database numbers new rows itself.
After(r) ==
  LET table == tables[job[r].table]
  IN IF pc[r] = "create" THEN Append(table, Created(job[r].change))
     ELSE [table EXCEPT ![job[r].id] = Patched(table[job[r].id], job[r].change)]

\* blacklist_entries.keyword is unique.
Duplicate(r) ==
  /\ pc[r] \in {"create", "change"} /\ job[r].table = "blacklist"
  /\ \E id \in DOMAIN tables["blacklist"] :
       /\ tables["blacklist"][id].key = job[r].change.key
       /\ pc[r] = "change" => id # job[r].id

\* The request gives a row another pattern or keyword.
Renames(r) == pc[r] = "change" /\ job[r].change.key # Unset

\* The mutation is committed, and the request goes on to 'next'.
Commit(r, next) ==
  LET tb == job[r].table
  IN /\ pc[r] \in {"create", "change"}
     /\ ~Duplicate(r)
     /\ tables' = [tables EXCEPT ![tb] = After(r)]
     /\ version' = [version EXCEPT ![tb] = version[tb] + 1]
     /\ wrote' = [wrote EXCEPT ![r] = version[tb] + 1]
     /\ pc' = [pc EXCEPT ![r] = next]
     /\ reloaded' = FALSE
     /\ quiet' = (quiet /\ ~Renames(r))
     /\ UNCHANGED <<job, cacheVars, serial, seedAt, seedFound, seeds, restarts>>

\* Mutant of Mutate: the mutation does not invalidate the cache.
MutateOnly(r) == Commit(r, "answered")

\* The insert or update is acknowledged, or it is not and the request fails.
Mutate(r) ==
  \/ Commit(r, "reload")
  \/ "unacked" \in DbFaults /\ Commit(r, "failed")

\* A query fails: nothing is written, or the cache is left as it was; the start
\* of the server fails with it.  A duplicate is refused without any fault.
Fail(c) ==
  /\ c \in Active
  /\ \/ DbFaults # {}
     \/ c \in Requests /\ Duplicate(c)
  /\ pc' = [pc EXCEPT ![c] = "failed"]
  /\ read' = [read EXCEPT ![c] = Unread]
  /\ UNCHANGED <<job, tables, version, wrote, cache, serial, reloaded, seedVars, restarts>>

-----------------------------------------------------------------------------
(***************************************************************************)
(* loadCache().                                                            *)
(***************************************************************************)
ReadTable(c, tb) ==
  /\ pc[c] = "reload"
  /\ read[c][tb] = NotRead
  /\ read' = [read EXCEPT ![c][tb] = Snapshot(tb)]
  /\ UNCHANGED <<pc, job, tables, version, wrote, cache, serial, reloaded, seedVars, restarts>>

\* Mutant of AssignCache: the reload is not awaited, the answer comes first.
AssignLater(c) ==
  /\ pc[c] = "reload"
  /\ pc' = [pc EXCEPT ![c] = "answered"]
  /\ cache' = [tb \in Tables |-> IF read[c][tb] = NotRead THEN cache[tb] ELSE read[c][tb]]
  /\ read' = [read EXCEPT ![c] = Unread]
  /\ reloaded' = TRUE
  /\ UNCHANGED <<job, tables, version, wrote, serial, seedVars, restarts>>

\* Both answers have arrived: the two fields are assigned in one go, and the
\* request is answered, or the server begins to listen.
AssignCache(c) ==
  /\ pc[c] = "reload"
  /\ \A tb \in Tables : read[c][tb] # NotRead
  /\ cache' = read[c]
  /\ pc' = [pc EXCEPT ![c] = "answered"]
  /\ read' = [read EXCEPT ![c] = Unread]
  /\ reloaded' = TRUE
  /\ UNCHANGED <<job, tables, version, wrote, serial, seedVars, restarts>>

\* The server is started again: the requests it served are lost, and so is the
\* cache.
Restart ==
  /\ restarts < MaxRestarts
  /\ restarts' = restarts + 1
  /\ pc' = [c \in Clients |-> IF c = Boot THEN "reload"
                              ELSE IF c \in Active THEN "failed" ELSE pc[c]]
  /\ read' = [c \in Clients |-> Unread]
  /\ cache' = [tb \in Tables |-> Nothing]
  /\ serial' = TRUE
  /\ reloaded' = FALSE
  /\ UNCHANGED <<job, tables, version, wrote, seedVars>>

-----------------------------------------------------------------------------
(***************************************************************************)
(* The seed script: seedSafetyRules(), then seedBlacklist().  It stops at  *)
(* the first query that fails, and may be run again.                       *)
(***************************************************************************)
SeedTable == IF seedAt <= Len(SeedRules) THEN "rules" ELSE "blacklist"
SeedItem == IF seedAt <= Len(SeedRules) THEN SeedRules[seedAt]
            ELSE SeedEntries[seedAt - Len(SeedRules)]
NextItem == IF seedAt < Len(SeedRules) + Len(SeedEntries) THEN seedAt + 1 ELSE 0
WithKey(tb, key) == {id \in DOMAIN tables[tb] : tables[tb][id].key = key}

SeedStart ==
  /\ seedAt = 0 /\ seeds < MaxSeeds
  /\ Len(SeedRules) + Len(SeedEntries) > 0
  /\ seedAt' = 1 /\ seedFound' = NotRead /\ seeds' = seeds + 1
  /\ quiet' = TRUE
  /\ UNCHANGED <<pc, job, tables, version, wrote, cacheVars, serial, reloaded, restarts>>

\* Mutant of SeedFind: the id is not looked up.
SeedFindNothing ==
  /\ seedAt # 0 /\ SeedTable = "rules" /\ seedFound = NotRead
  /\ seedFound' = 0
  /\ UNCHANGED <<pc, job, tables, version, wrote, cacheVars, serial, reloaded,
                 seedAt, seeds, quiet, restarts>>

\* getOrReserveId(): any rule of that pattern, or 0.
SeedFind ==
  /\ seedAt # 0 /\ SeedTable = "rules" /\ seedFound = NotRead
  /\ \/ seedFound' \in WithKey("rules", SeedItem.key)
     \/ WithKey("rules", SeedItem.key) = {} /\ seedFound' = 0
  /\ UNCHANGED <<pc, job, tables, version, wrote, cacheVars, serial, reloaded,
                 seedAt, seeds, quiet, restarts>>

\* The update of the upsert.
Reset(row, item) ==
  [row EXCEPT !.type = item.type, !.isRegex = item.isRegex, !.isActive = TRUE]

\* The upsert of a rule finds its row by the id, that of an entry by its
\* keyword.  The seed goes on to the next item, or, when the answer is lost, ends.
SeedUpsert ==
  LET ids == IF SeedTable = "rules" THEN {seedFound} \ {0} ELSE WithKey("blacklist", SeedItem.key)
  IN /\ seedAt # 0
     /\ SeedTable = "rules" => seedFound # NotRead
     /\ \/ ids = {} /\ tables' = [tables EXCEPT ![SeedTable] = Append(tables[SeedTable], SeedItem)]
        \/ \E id \in ids :
             tables' = [tables EXCEPT ![SeedTable] =
                          [tables[SeedTable] EXCEPT ![id] = Reset(tables[SeedTable][id], SeedItem)]]
     /\ version' = [version EXCEPT ![SeedTable] = version[SeedTable] + 1]
     /\ \/ seedAt' = NextItem /\ UNCHANGED quiet
        \/ "unacked" \in DbFaults /\ seedAt' = 0 /\ quiet' = FALSE
     /\ seedFound' = NotRead
     /\ reloaded' = FALSE
     /\ serial' = (serial /\ Active = {})
     /\ UNCHANGED <<pc, job, wrote, cacheVars, seeds, restarts>>

\* Mutant of SeedFail: the failure of an item is caught, and the next one tried.
SeedFailGoesOn ==
  /\ seedAt # 0 /\ DbFaults # {}
  /\ seedAt' = NextItem /\ seedFound' = NotRead
  /\ UNCHANGED <<pc, job, tables, version, wrote, cacheVars, serial, reloaded,
                 seeds, quiet, restarts>>

\* A query of the seed fails: process.exit(1).
SeedFail ==
  /\ seedAt # 0 /\ DbFaults # {}
  /\ seedAt' = 0 /\ seedFound' = NotRead /\ quiet' = FALSE
  /\ UNCHANGED <<pc, job, tables, version, wrote, cacheVars, serial, reloaded, seeds, restarts>>

Serve ==
  \/ \E r \in Requests : Submit(r) \/ AssertExists(r) \/ Mutate(r)
  \/ \E c \in Clients :
       Fail(c) \/ AssignCache(c) \/ \E tb \in Tables : ReadTable(c, tb)
Seed == SeedStart \/ SeedFind \/ SeedUpsert \/ SeedFail

Next == Serve \/ Restart \/ Seed

Spec == Init /\ [][Next]_vars

-----------------------------------------------------------------------------
\* A request that is answered with success finds its own mutation in the
\* cache, whatever other requests, their reloads and the seed do meanwhile
\* (each mutation awaits invalidateCache() before it returns).
AnsweredIsCached ==
  [][\A r \in Requests :
       pc[r] # "answered" /\ pc'[r] = "answered"
         => cache'[job[r].table].version >= wrote'[r]]_vars

\* As long as nothing overlaps, a reload that succeeds, be it the start of the
\* server, leaves the cache equal to the active rows of the database, and
\* repairs what earlier failures and the seed left.
SerialReloadIsFresh ==
  serial /\ reloaded => \A tb \in Tables : cache[tb] = Snapshot(tb)

\* With such a cache the two safety checks let a message pass exactly if no
\* active row of the database is found in it: a malformed pattern takes no
\* other rule out of force, and every entry is looked at by one of the checks.
\* What checkConfidentiality() refuses, scanPrompt() would not have blocked.
InForce(tb, id) == id \in DOMAIN tables[tb] /\ tables[tb][id].isActive
RuleFound(message) ==
  \E id \in DOMAIN tables["rules"] :
    InForce("rules", id) /\ Matched(tables["rules"][id], message)
EntryFound(types, message) ==
  \E id \in DOMAIN tables["blacklist"] :
    /\ InForce("blacklist", id)
    /\ tables["blacklist"][id].key \in message.includes
    /\ tables["blacklist"][id].type \in types
VerdictFollowsTables ==
  serial /\ reloaded =>
    \A message \in Messages :
      LET verdict == Verdict(cache["rules"].rows, cache["blacklist"].rows, message)
      IN /\ verdict = "admitted" <=> ~RuleFound(message) /\ ~EntryFound(Types, message)
         /\ verdict = "confidential"
              <=> /\ ~RuleFound(message)
                  /\ EntryFound({"confidential", "internal"}, message)
                  /\ ~EntryFound(Types \ {"confidential", "internal"}, message)

\* A seed that runs to its end leaves every pattern and every keyword of its
\* lists in the tables, whatever was there, wherever earlier runs of it stopped,
\* and whatever administrators do between its queries, except that they give a
\* row another pattern or keyword.
SeedIsComplete ==
  quiet /\ seedAt = 0 =>
    /\ \A n \in DOMAIN SeedRules : WithKey("rules", SeedRules[n].key) # {}
    /\ \A n \in DOMAIN SeedEntries : WithKey("blacklist", SeedEntries[n].key) # {}

\* However often the seed is run, and wherever it stops, it adds no row a second
\* time, though nothing in the database keeps the pattern of a rule unique and
\* administrators may write between its query for the id and its upsert: there
\* is one row of a pattern or keyword, and one more at most for every request
\* that wrote it.
Writers(tb, key) ==
  {r \in Requests : wrote[r] # 0 /\ job[r].table = tb /\ job[r].change.key = key}
SeedNeverDuplicates ==
  \A tb \in Tables, key \in Keys :
    Cardinality(WithKey(tb, key)) <= 1 + Cardinality(Writers(tb, key))

\* The comment of AdminSafetyService: every mutation invalidates the cache so
\* that the next call to scanPrompt() sees the rules of the database: once
\* every request has been answered, cache and database agree.
CacheIsFreshAtRest ==
  seeds = 0 /\ Active = {} /\ (\A c \in Clients : pc[c] # "failed")
    => \A tb \in Tables : cache[tb] = Snapshot(tb)
=============================================================================
