-------------------------- MODULE SafetyCacheProofs --------------------------
(***************************************************************************)
(* The safety cache for any number of requests, any rules, keywords and    *)
(* messages, any lists of the seed, and every fault.                       *)
(***************************************************************************)
EXTENDS SafetyCache, SequenceTheorems, FiniteSetTheorems, TLAPS

-----------------------------------------------------------------------------
(***************************************************************************)
(* Rows and tables.                                                        *)
(***************************************************************************)
\* What a reload reads of a table is a snapshot: rows by their ids.
LEMMA SnapshotTyped ==
  ASSUME DatabaseOK, NEW tb \in Tables
  PROVE  SnapshotOK(Snapshot(tb))
<1>1. tables[tb] \in Seq(Row) /\ version[tb] \in Nat
  BY DEF DatabaseOK
<1> DEFINE table == tables[tb]
           shown == {id \in DOMAIN table : table[id].isActive}
<1>2. DOMAIN table \subseteq Nat /\ \A id \in DOMAIN table : table[id] \in Row
  BY <1>1
<1>3. /\ Snapshot(tb).version = version[tb]
      /\ Snapshot(tb).rows = [id \in shown |-> table[id]]
  BY DEF Snapshot, Restrict
<1>4. shown \subseteq DOMAIN table
  OBVIOUS
<1> HIDE DEF table, shown
<1>5. DOMAIN Snapshot(tb).rows \subseteq Nat
  BY <1>2, <1>3, <1>4
<1>6. \A id \in DOMAIN Snapshot(tb).rows : Snapshot(tb).rows[id] \in Row
  BY <1>2, <1>3, <1>4
<1>7. QED BY <1>1, <1>3, <1>5, <1>6 DEF SnapshotOK

\* A table is as long as before, or longer, and all its rows are rows.
Grown(old, new) == new \in Seq(Row) /\ DOMAIN old \subseteq DOMAIN new

LEMMA AppendGrows ==
  ASSUME NEW table \in Seq(Row), NEW row \in Row
  PROVE  Grown(table, Append(table, row))
<1>1. Append(table, row) \in Seq(Row) /\ Len(Append(table, row)) = Len(table) + 1
  OBVIOUS
<1>2. DOMAIN table = 1..Len(table) /\ DOMAIN Append(table, row) = 1..(Len(table) + 1)
      /\ Len(table) \in Nat
  BY <1>1
<1>3. QED BY <1>1, <1>2 DEF Grown

LEMMA ReplaceGrows ==
  ASSUME NEW table \in Seq(Row), NEW id \in DOMAIN table, NEW row \in Row
  PROVE  Grown(table, [table EXCEPT ![id] = row])
<1>1. [table EXCEPT ![id] = row] \in Seq(Row)
  BY ExceptSeq
<1>2. DOMAIN [table EXCEPT ![id] = row] = DOMAIN table
  OBVIOUS
<1>3. QED BY <1>1, <1>2 DEF Grown

\* Requests create and change rows, never anything else.
LEMMA CreatedTyped ==
  ASSUME NEW change \in Change, change.key \in Keys, change.type \in Types
  PROVE  Created(change) \in Row
<1>1. change.isRegex \in BOOLEAN \cup {Unset} /\ change.isActive \in BOOLEAN \cup {Unset}
  BY DEF Change
<1>2. Given(change.isRegex, FALSE) \in BOOLEAN /\ Given(change.isActive, TRUE) \in BOOLEAN
  BY <1>1 DEF Given
<1>3. QED BY <1>2 DEF Created, Row

LEMMA PatchedTyped ==
  ASSUME NEW change \in Change, NEW row \in Row
  PROVE  Patched(row, change) \in Row
<1>1. /\ change.key \in Keys \cup {Unset} /\ change.type \in Types \cup {Unset}
      /\ change.isRegex \in BOOLEAN \cup {Unset} /\ change.isActive \in BOOLEAN \cup {Unset}
  BY DEF Change
<1>2. /\ row.key \in Keys /\ row.type \in Types
      /\ row.isRegex \in BOOLEAN /\ row.isActive \in BOOLEAN
  BY DEF Row
<1>3. Given(change.key, row.key) \in Keys
  BY <1>1, <1>2 DEF Given
<1>4. Given(change.type, row.type) \in Types
  BY <1>1, <1>2 DEF Given
<1>5. Given(change.isRegex, row.isRegex) \in BOOLEAN
  BY <1>1, <1>2 DEF Given
<1>6. Given(change.isActive, row.isActive) \in BOOLEAN
  BY <1>1, <1>2 DEF Given
<1>7. QED BY <1>3, <1>4, <1>5, <1>6 DEF Patched, Row

LEMMA ResetTyped ==
  ASSUME NEW row \in Row, NEW item \in Row
  PROVE  Reset(row, item) \in Row
BY DEF Reset, Row

-----------------------------------------------------------------------------
(***************************************************************************)
(* The invariant.                                                          *)
(***************************************************************************)
\* What a request inserts, it was asked to insert.
CreatesAreAsked == \A r \in Requests : pc[r] = "create" => job[r].call = "create"

\* A row that was found is still there when it is changed: no row is deleted.
TargetExists ==
  \A r \in Requests : pc[r] = "change" => job[r].id \in DOMAIN tables[job[r].table]

\* Only a client that reloads holds answers.
ReadsOfReloads == \A c \in Clients : pc[c] # "reload" => read[c] = Unread

\* A request that reloads has written, and what it reads of the table it wrote
\* to is no older than its own write.
ReadsOwnWrite ==
  \A r \in Requests : pc[r] = "reload" =>
    LET tb == job[r].table
    IN /\ wrote[r] <= version[tb]
       /\ read[r][tb] # NotRead => read[r][tb].version >= wrote[r]

\* As long as nothing overlaps, one client is at work at most, and what was
\* read, and what was assigned after the last mutation, is still so.
SerialOK ==
  serial =>
    /\ \A c, d \in Active : c = d
    /\ \A c \in Clients : \A tb \in Tables :
         read[c][tb] # NotRead => read[c][tb] = Snapshot(tb)
    /\ reloaded => \A tb \in Tables : cache[tb] = Snapshot(tb)

Inv == TypeOK /\ CreatesAreAsked /\ TargetExists /\ ReadsOfReloads /\ ReadsOwnWrite /\ SerialOK

LEMMA InitEstablishes ==
  ASSUME Init
  PROVE  Inv
<1>1. ClientsOK
  <2>1. pc = [c \in Clients |-> IF c = Boot THEN "reload" ELSE "idle"]
        /\ job = [r \in Requests |-> NoJob]
    BY DEF Init
  <2>2. \A r \in Requests : pc[r] = "idle"
    BY <2>1, SafetyCacheAssumption DEF Clients
  <2>3. pc \in [Clients -> {"idle", "exists", "create", "change", "reload", "answered", "failed"}]
    BY <2>1
  <2>4. job \in [Requests -> Jobs \cup {NoJob}]
    BY <2>1
  <2>5. QED BY <2>2, <2>3, <2>4 DEF ClientsOK
<1>2. DatabaseOK
  BY SafetyCacheAssumption DEF Init, DatabaseOK
<1>3. CacheOK
  <2>1. SnapshotOK(Nothing)
    <3>1. DOMAIN <<>> = {}
      OBVIOUS
    <3>2. QED BY <3>1 DEF SnapshotOK, Nothing
  <2>2. QED BY <2>1 DEF Init, CacheOK, Unread
<1>4. SeedOK
  BY SafetyCacheAssumption DEF Init, SeedOK
<1>5. TypeOK
  <2>1. restarts \in 0..MaxRestarts
    BY SafetyCacheAssumption DEF Init
  <2>2. serial \in BOOLEAN /\ reloaded \in BOOLEAN /\ quiet \in BOOLEAN
    BY DEF Init
  <2>3. QED BY <1>1, <1>2, <1>3, <1>4, <2>1, <2>2 DEF TypeOK
<1>6. \A c \in Clients : pc[c] = IF c = Boot THEN "reload" ELSE "idle"
  BY DEF Init
<1>7. CreatesAreAsked /\ TargetExists /\ ReadsOwnWrite
  BY <1>6, SafetyCacheAssumption DEF Clients, CreatesAreAsked, TargetExists, ReadsOwnWrite
<1>8. ReadsOfReloads
  BY DEF Init, ReadsOfReloads
<1>9. SerialOK
  BY <1>6 DEF Init, SerialOK, Active, Unread
<1>10. QED BY <1>5, <1>7, <1>8, <1>9 DEF Inv

-----------------------------------------------------------------------------
(***************************************************************************)
(* Requests.                                                               *)
(***************************************************************************)
LEMMA SubmitPreserves ==
  ASSUME Inv, NEW r \in Requests, Submit(r)
  PROVE  Inv'
<1>1. PICK asked \in Jobs :
        /\ job' = [job EXCEPT ![r] = asked]
        /\ pc' = [pc EXCEPT ![r] = asked.call]
  BY DEF Submit
<1>2. /\ pc[r] = "idle" /\ serial' = (serial /\ Active = {})
      /\ UNCHANGED <<tables, version, wrote, cacheVars, reloaded, seedVars, restarts>>
  BY DEF Submit
<1>3. asked.call \in {"create", "exists"} /\ asked # NoJob
  BY SafetyCacheAssumption DEF Job
<1>4. r \in Clients
  BY DEF Clients
<1>5. ClientsOK'
  BY <1>1, <1>3, <1>4 DEF Inv, TypeOK, ClientsOK
<1>6. DatabaseOK' /\ CacheOK' /\ SeedOK'
  BY <1>2 DEF Inv, TypeOK, DatabaseOK, CacheOK, SeedOK, cacheVars, seedVars
<1>7. TypeOK'
  BY <1>2, <1>5, <1>6 DEF Inv, TypeOK, seedVars
<1>8. \A c \in Clients : c # r => pc'[c] = pc[c]
  BY <1>1, <1>4 DEF Inv, TypeOK, ClientsOK
<1>9. pc'[r] = asked.call
  BY <1>1, <1>4 DEF Inv, TypeOK, ClientsOK
<1>10. \A q \in Requests : q # r => job'[q] = job[q] /\ pc'[q] = pc[q]
  BY <1>1, <1>8 DEF Inv, TypeOK, ClientsOK, Clients
<1>11. TargetExists' /\ ReadsOwnWrite'
  BY <1>2, <1>3, <1>9, <1>10 DEF Inv, TargetExists, ReadsOwnWrite, cacheVars
<1>15. CreatesAreAsked'
  BY <1>1, <1>9, <1>10 DEF Inv, TypeOK, ClientsOK, CreatesAreAsked
<1>12. ReadsOfReloads'
  BY <1>2, <1>3, <1>8, <1>9 DEF Inv, ReadsOfReloads, cacheVars
<1>13. SerialOK'
  <2> SUFFICES ASSUME serial'
               PROVE  SerialOK'
    BY DEF SerialOK
  <2>1. serial /\ Active = {}
    BY <1>2
  <2>2. \A c \in Active' : c = r
    BY <1>8, <2>1 DEF Active
  <2>3. \A tb \in Tables : Snapshot(tb)' = Snapshot(tb)
    BY <1>2 DEF Snapshot
  <2>4. QED BY <1>2, <2>1, <2>2, <2>3 DEF Inv, SerialOK, cacheVars
<1>14. QED BY <1>7, <1>11, <1>12, <1>13, <1>15 DEF Inv

LEMMA AssertExistsPreserves ==
  ASSUME Inv, NEW r \in Requests, AssertExists(r)
  PROVE  Inv'
<1>1. /\ pc[r] = "exists"
      /\ pc' = [pc EXCEPT ![r] = IF job[r].id \in DOMAIN tables[job[r].table]
                                 THEN "change" ELSE "failed"]
      /\ UNCHANGED <<job, tables, version, wrote, cacheVars, serial, reloaded, seedVars, restarts>>
  BY DEF AssertExists
<1>2. r \in Clients
  BY DEF Clients
<1>3. /\ pc'[r] \in {"change", "failed"}
      /\ pc'[r] = "change" => job[r].id \in DOMAIN tables[job[r].table]
      /\ \A c \in Clients : c # r => pc'[c] = pc[c]
      /\ pc' \in [Clients -> {"idle", "exists", "create", "change", "reload", "answered", "failed"}]
  BY <1>1, <1>2 DEF Inv, TypeOK, ClientsOK
<1>4. ClientsOK'
  BY <1>1, <1>3 DEF Inv, TypeOK, ClientsOK, Clients
<1>5. DatabaseOK' /\ CacheOK' /\ SeedOK'
  BY <1>1 DEF Inv, TypeOK, DatabaseOK, CacheOK, SeedOK, cacheVars, seedVars
<1>6. TypeOK'
  BY <1>1, <1>4, <1>5 DEF Inv, TypeOK, seedVars
<1>7. CreatesAreAsked' /\ TargetExists' /\ ReadsOwnWrite'
  BY <1>1, <1>3 DEF Inv, CreatesAreAsked, TargetExists, ReadsOwnWrite, cacheVars, Clients
<1>8. ReadsOfReloads'
  BY <1>1, <1>3 DEF Inv, ReadsOfReloads, cacheVars
<1>9. SerialOK'
  <2>1. Active' \subseteq Active
    BY <1>1, <1>2, <1>3 DEF Active
  <2>2. \A tb \in Tables : Snapshot(tb)' = Snapshot(tb)
    BY <1>1 DEF Snapshot
  <2>3. QED BY <1>1, <2>1, <2>2 DEF Inv, SerialOK, cacheVars
<1>10. QED BY <1>6, <1>7, <1>8, <1>9 DEF Inv

\* What a request writes leaves the rows there are in their places.
LEMMA AfterGrows ==
  ASSUME Inv, NEW r \in Requests, pc[r] \in {"create", "change"}
  PROVE  job[r] \in Jobs /\ Grown(tables[job[r].table], After(r))
<1>1. job[r] \in Jobs
  BY DEF Inv, TypeOK, ClientsOK
<1>2. /\ job[r].table \in Tables /\ job[r].change \in Change
      /\ job[r].call = "create" => job[r].change.key \in Keys /\ job[r].change.type \in Types
  BY <1>1, SafetyCacheAssumption DEF Job
<1> DEFINE table == tables[job[r].table]
<1>3. table \in Seq(Row)
  BY <1>2 DEF Inv, TypeOK, DatabaseOK
<1>4. CASE pc[r] = "create"
  <2>1. After(r) = Append(table, Created(job[r].change))
    BY <1>4 DEF After
  <2>2. job[r].call = "create"
    BY <1>4 DEF Inv, CreatesAreAsked
  <2>3. Created(job[r].change) \in Row
    BY <1>2, <2>2, CreatedTyped
  <2>4. QED BY <1>1, <1>3, <2>1, <2>3, AppendGrows
<1>5. CASE pc[r] = "change"
  <2>1. After(r) = [table EXCEPT ![job[r].id] = Patched(table[job[r].id], job[r].change)]
    BY <1>5 DEF After
  <2>2. job[r].id \in DOMAIN table
    BY <1>5 DEF Inv, TargetExists
  <2>3. table[job[r].id] \in Row
    BY <1>3, <2>2
  <2>4. Patched(table[job[r].id], job[r].change) \in Row
    BY <1>2, <2>3, PatchedTyped
  <2>5. QED BY <1>1, <1>3, <2>1, <2>2, <2>4, ReplaceGrows
<1>6. QED BY <1>4, <1>5

\* A commit, by a request or by the seed, to table tb.
Grows(tb, new) ==
  /\ Grown(tables[tb], new)
  /\ tables' = [tables EXCEPT ![tb] = new]
  /\ version' = [version EXCEPT ![tb] = version[tb] + 1]

LEMMA GrowsTables ==
  ASSUME DatabaseOK, NEW tb \in Tables, NEW new, Grows(tb, new)
  PROVE  /\ tables' \in [Tables -> Seq(Row)]
         /\ version' \in [Tables -> Nat]
         /\ \A t \in Tables : DOMAIN tables[t] \subseteq DOMAIN tables'[t]
         /\ \A t \in Tables : version[t] <= version'[t]
         /\ version'[tb] = version[tb] + 1
         /\ \A n \in 0..Len(tables["rules"]) : n \in 0..Len(tables'["rules"])
<1>1. tables \in [Tables -> Seq(Row)] /\ version \in [Tables -> Nat]
  BY DEF DatabaseOK
<1>2. new \in Seq(Row) /\ DOMAIN tables[tb] \subseteq DOMAIN new
  BY DEF Grows, Grown
<1>3. tables' = [tables EXCEPT ![tb] = new]
  BY DEF Grows
<1>4. version' = [version EXCEPT ![tb] = version[tb] + 1]
  BY DEF Grows
<1>5. tables' \in [Tables -> Seq(Row)]
  BY <1>1, <1>2, <1>3
<1>6. \A t \in Tables : DOMAIN tables[t] \subseteq DOMAIN tables'[t]
  BY <1>1, <1>2, <1>3
<1>7. version[tb] + 1 \in Nat
  BY <1>1
<1>8. version' \in [Tables -> Nat]
  BY <1>1, <1>4, <1>7
<1>9. /\ version'[tb] = version[tb] + 1
      /\ \A t \in Tables : t # tb => version'[t] = version[t]
  BY <1>1, <1>4
<1>10. \A t \in Tables : version[t] <= version'[t]
  BY <1>1, <1>9
<1>11. Len(tables["rules"]) <= Len(tables'["rules"])
  <2>1. "rules" \in Tables
    BY DEF Tables
  <2>2. tables["rules"] \in Seq(Row) /\ tables'["rules"] \in Seq(Row)
    BY <1>1, <1>5, <2>1
  <2>3. 1..Len(tables["rules"]) \subseteq 1..Len(tables'["rules"])
    BY <1>6, <2>1, <2>2
  <2>4. Len(tables["rules"]) \in Nat /\ Len(tables'["rules"]) \in Nat
    BY <2>2
  <2>5. QED BY <2>3, <2>4
<1>12. \A n \in 0..Len(tables["rules"]) : n \in 0..Len(tables'["rules"])
  <2>1. "rules" \in Tables
    BY DEF Tables
  <2>2. Len(tables["rules"]) \in Nat /\ Len(tables'["rules"]) \in Nat
    BY <1>1, <1>5, <2>1
  <2>3. QED BY <1>11, <2>2
<1>13. QED BY <1>5, <1>6, <1>8, <1>9, <1>10, <1>12

\* The mutation of a request; nothing it might read afterwards is older.
LEMMA CommitPreserves ==
  ASSUME Inv, NEW r \in Requests, NEW next \in {"reload", "failed"}, Commit(r, next)
  PROVE  Inv'
<1> DEFINE tb == job[r].table
<1>1. /\ pc[r] \in {"create", "change"}
      /\ tables' = [tables EXCEPT ![tb] = After(r)]
      /\ version' = [version EXCEPT ![tb] = version[tb] + 1]
      /\ wrote' = [wrote EXCEPT ![r] = version[tb] + 1]
      /\ pc' = [pc EXCEPT ![r] = next]
      /\ reloaded' = FALSE /\ quiet' = (quiet /\ ~Renames(r))
      /\ job' = job /\ read' = read /\ cache' = cache /\ serial' = serial
      /\ seedAt' = seedAt /\ seedFound' = seedFound /\ seeds' = seeds /\ restarts' = restarts
  BY DEF Commit, cacheVars
<1>2. job[r] \in Jobs /\ Grown(tables[tb], After(r))
  BY <1>1, AfterGrows
<1>3. tb \in Tables
  BY <1>2, SafetyCacheAssumption DEF Job
<1>4. DatabaseOK
  BY DEF Inv, TypeOK
<1>5. Grows(tb, After(r))
  BY <1>1, <1>2 DEF Grows
<1>6. /\ tables' \in [Tables -> Seq(Row)]
      /\ version' \in [Tables -> Nat]
      /\ \A t \in Tables : DOMAIN tables[t] \subseteq DOMAIN tables'[t]
      /\ \A t \in Tables : version[t] <= version'[t]
      /\ version'[tb] = version[tb] + 1
      /\ \A n \in 0..Len(tables["rules"]) : n \in 0..Len(tables'["rules"])
  BY <1>3, <1>4, <1>5, GrowsTables
<1> HIDE DEF tb
<1>7. r \in Clients
  BY DEF Clients
<1>8. /\ pc'[r] = next
      /\ \A c \in Clients : c # r => pc'[c] = pc[c]
      /\ pc' \in [Clients -> {"idle", "exists", "create", "change", "reload", "answered", "failed"}]
  BY <1>1, <1>7 DEF Inv, TypeOK, ClientsOK
<1>9. ClientsOK'
  BY <1>1, <1>2, <1>8 DEF Inv, TypeOK, ClientsOK, Clients
<1>10. version[tb] + 1 \in Nat /\ wrote' \in [Requests -> Nat]
  BY <1>1, <1>3, <1>4 DEF DatabaseOK
<1>11. DatabaseOK'
  BY <1>6, <1>10 DEF DatabaseOK
<1>12. CacheOK'
  BY <1>1 DEF Inv, TypeOK, CacheOK
<1>13. SeedOK'
  BY <1>1, <1>6 DEF Inv, TypeOK, SeedOK
<1>14. TypeOK'
  <2>1. quiet' \in BOOLEAN
    BY <1>1
  <2>2. QED BY <1>1, <1>9, <1>11, <1>12, <1>13, <2>1 DEF Inv, TypeOK
<1>15. CreatesAreAsked'
  BY <1>1, <1>8 DEF Inv, CreatesAreAsked, Clients
<1>16. TargetExists'
  <2> SUFFICES ASSUME NEW q \in Requests, pc'[q] = "change"
               PROVE  job[q].id \in DOMAIN tables'[job[q].table]
    BY <1>1 DEF TargetExists
  <2>1. pc[q] = "change"
    BY <1>8 DEF Clients
  <2>2. job[q] \in Jobs
    BY <2>1 DEF Inv, TypeOK, ClientsOK
  <2>3. job[q].table \in Tables
    BY <2>2, SafetyCacheAssumption DEF Job
  <2>4. QED BY <1>6, <2>1, <2>3 DEF Inv, TargetExists
<1>17. read[r] = Unread
  BY <1>1, <1>7 DEF Inv, ReadsOfReloads
<1>18. ReadsOfReloads'
  BY <1>1, <1>8, <1>17 DEF Inv, ReadsOfReloads
<1>19. ReadsOwnWrite'
  <2> SUFFICES ASSUME NEW q \in Requests, pc'[q] = "reload"
               PROVE  /\ wrote'[q] <= version'[job[q].table]
                      /\ read[q][job[q].table] # NotRead
                           => read[q][job[q].table].version >= wrote'[q]
    BY <1>1 DEF ReadsOwnWrite
  <2>1. CASE q = r
    <3>1. wrote'[r] = version[tb] + 1
      BY <1>1, <1>4 DEF DatabaseOK
    <3>2. read[r][tb] = NotRead
      BY <1>3, <1>17 DEF Unread
    <3>3. version'[tb] \in Nat
      BY <1>3, <1>6
    <3>4. QED BY <1>6, <2>1, <3>1, <3>2, <3>3 DEF tb
  <2>2. CASE q # r
    <3>1. pc[q] = "reload" /\ wrote'[q] = wrote[q]
      BY <1>1, <1>4, <1>8, <2>2 DEF Clients, DatabaseOK
    <3>2. job[q] \in Jobs
      BY <3>1 DEF Inv, TypeOK, ClientsOK
    <3>3. job[q].table \in Tables
      BY <3>2, SafetyCacheAssumption DEF Job
    <3>4. /\ wrote[q] \in Nat
          /\ version[job[q].table] \in Nat /\ version'[job[q].table] \in Nat
      BY <1>4, <1>6, <3>3 DEF DatabaseOK
    <3>5. wrote[q] <= version[job[q].table]
      BY <3>1 DEF Inv, ReadsOwnWrite
    <3>6. version[job[q].table] <= version'[job[q].table]
      BY <1>6, <3>3
    <3>7. read[q][job[q].table] # NotRead => read[q][job[q].table].version >= wrote[q]
      BY <3>1 DEF Inv, ReadsOwnWrite
    <3>8. QED BY <3>1, <3>4, <3>5, <3>6, <3>7
  <2>3. QED BY <2>1, <2>2
<1>20. SerialOK'
  <2> SUFFICES ASSUME serial
               PROVE  SerialOK'
    BY <1>1 DEF SerialOK
  <2>1. r \in Active /\ Active' \subseteq Active
    BY <1>1, <1>7, <1>8 DEF Active
  <2>2. \A c \in Active : c = r
    BY <2>1 DEF Inv, SerialOK
  <2>3. \A c \in Clients : read[c] = Unread
    BY <1>17, <2>2 DEF Inv, ReadsOfReloads, Active
  <2>4. \A c \in Clients : \A t \in Tables : read'[c][t] = NotRead
    BY <1>1, <2>3 DEF Unread
  <2>5. QED BY <1>1, <2>1, <2>2, <2>4 DEF SerialOK
<1>21. QED BY <1>14, <1>15, <1>16, <1>18, <1>19, <1>20 DEF Inv

\* A client ends, by a failure or with the assignment, and drops its answers.
LEMMA EndPreserves ==
  ASSUME Inv, NEW c \in Clients, NEW end \in {"answered", "failed"},
         pc' = [pc EXCEPT ![c] = end],
         read' = [read EXCEPT ![c] = Unread],
         UNCHANGED <<job, tables, version, wrote, serial, seedVars, restarts>>,
         reloaded' \in BOOLEAN,
         DOMAIN cache' = Tables,
         \A tb \in Tables : SnapshotOK(cache'[tb]),
         c \in Active,
         serial /\ reloaded' => \A tb \in Tables : cache'[tb] = Snapshot(tb)
  PROVE  Inv'
<1>1. /\ pc'[c] = end
      /\ \A d \in Clients : d # c => pc'[d] = pc[d]
      /\ pc' \in [Clients -> {"idle", "exists", "create", "change", "reload", "answered", "failed"}]
  BY DEF Inv, TypeOK, ClientsOK
<1>2. pc[c] # "idle"
  BY DEF Active
<1>3. ClientsOK'
  BY <1>1, <1>2 DEF Inv, TypeOK, ClientsOK, Clients
<1>4. DatabaseOK' /\ SeedOK'
  BY DEF Inv, TypeOK, DatabaseOK, SeedOK, seedVars
<1>5. DOMAIN read' = Clients
      /\ read'[c] = Unread /\ \A d \in Clients : d # c => read'[d] = read[d]
  BY DEF Inv, TypeOK, CacheOK
<1>6. CacheOK'
  BY <1>5 DEF Inv, TypeOK, CacheOK, Unread
<1>7. TypeOK'
  BY <1>3, <1>4, <1>6 DEF Inv, TypeOK, seedVars
<1>8. CreatesAreAsked' /\ TargetExists' /\ ReadsOfReloads' /\ ReadsOwnWrite'
  BY <1>1, <1>5 DEF Inv, CreatesAreAsked, TargetExists, ReadsOfReloads, ReadsOwnWrite, Clients
<1>9. SerialOK'
  <2>1. Active' \subseteq Active
    BY <1>1 DEF Active
  <2>2. \A tb \in Tables : Snapshot(tb)' = Snapshot(tb)
    BY DEF Snapshot
  <2>3. \A d \in Clients : \A tb \in Tables : read'[d][tb] # NotRead => read'[d][tb] = read[d][tb]
    BY <1>5 DEF Unread
  <2>4. QED BY <2>1, <2>2, <2>3 DEF Inv, SerialOK
<1>10. QED BY <1>7, <1>8, <1>9 DEF Inv

LEMMA FailPreserves ==
  ASSUME Inv, NEW c \in Clients, Fail(c)
  PROVE  Inv'
<1>1. /\ c \in Active
      /\ pc' = [pc EXCEPT ![c] = "failed"]
      /\ read' = [read EXCEPT ![c] = Unread]
      /\ cache' = cache /\ reloaded' = reloaded
      /\ UNCHANGED <<job, tables, version, wrote, serial, seedVars, restarts>>
  BY DEF Fail
<1>2. /\ reloaded' \in BOOLEAN /\ DOMAIN cache' = Tables
      /\ \A tb \in Tables : SnapshotOK(cache'[tb])
  BY <1>1 DEF Inv, TypeOK, CacheOK
<1>3. serial /\ reloaded' => \A tb \in Tables : cache'[tb] = Snapshot(tb)
  BY <1>1 DEF Inv, SerialOK
<1>4. QED BY <1>1, <1>2, <1>3, EndPreserves

LEMMA AssignPreserves ==
  ASSUME Inv, NEW c \in Clients, AssignCache(c)
  PROVE  Inv'
<1>1. /\ pc[c] = "reload"
      /\ \A tb \in Tables : read[c][tb] # NotRead
      /\ cache' = read[c]
      /\ pc' = [pc EXCEPT ![c] = "answered"]
      /\ read' = [read EXCEPT ![c] = Unread]
      /\ reloaded' = TRUE
      /\ UNCHANGED <<job, tables, version, wrote, serial, seedVars, restarts>>
  BY DEF AssignCache
<1>2. c \in Active
  BY <1>1 DEF Active
<1>3. DOMAIN cache' = Tables /\ \A tb \in Tables : SnapshotOK(cache'[tb])
  BY <1>1 DEF Inv, TypeOK, CacheOK
<1>4. serial => \A tb \in Tables : cache'[tb] = Snapshot(tb)
  BY <1>1 DEF Inv, SerialOK
<1>5. QED BY <1>1, <1>2, <1>3, <1>4, EndPreserves

LEMMA ReadPreserves ==
  ASSUME Inv, NEW c \in Clients, NEW tb \in Tables, ReadTable(c, tb)
  PROVE  Inv'
<1>1. /\ pc[c] = "reload" /\ read[c][tb] = NotRead
      /\ read' = [read EXCEPT ![c][tb] = Snapshot(tb)]
      /\ UNCHANGED <<pc, job, tables, version, wrote, cache, serial, reloaded, seedVars, restarts>>
  BY DEF ReadTable
<1>2. /\ DOMAIN read' = Clients /\ DOMAIN read'[c] = Tables
      /\ read'[c][tb] = Snapshot(tb)
      /\ \A t \in Tables : t # tb => read'[c][t] = read[c][t]
      /\ \A d \in Clients : d # c => read'[d] = read[d]
  BY <1>1 DEF Inv, TypeOK, CacheOK
<1>3. SnapshotOK(Snapshot(tb))
  BY SnapshotTyped DEF Inv, TypeOK
<1>4. ClientsOK' /\ DatabaseOK' /\ SeedOK'
  BY <1>1 DEF Inv, TypeOK, ClientsOK, DatabaseOK, SeedOK, seedVars
<1>5. CacheOK'
  BY <1>1, <1>2, <1>3 DEF Inv, TypeOK, CacheOK
<1>6. TypeOK'
  BY <1>1, <1>4, <1>5 DEF Inv, TypeOK, seedVars
<1>7. CreatesAreAsked' /\ TargetExists' /\ ReadsOfReloads'
  BY <1>1, <1>2 DEF Inv, CreatesAreAsked, TargetExists, ReadsOfReloads
<1>8. ReadsOwnWrite'
  <2> SUFFICES ASSUME NEW r \in Requests, pc[r] = "reload"
               PROVE  /\ wrote[r] <= version[job[r].table]
                      /\ read'[r][job[r].table] # NotRead
                           => read'[r][job[r].table].version >= wrote[r]
    BY <1>1 DEF ReadsOwnWrite
  <2>1. job[r] \in Jobs
    BY DEF Inv, TypeOK, ClientsOK
  <2>2. job[r].table \in Tables
    BY <2>1, SafetyCacheAssumption DEF Job
  <2>3. /\ wrote[r] <= version[job[r].table]
        /\ read[r][job[r].table] # NotRead => read[r][job[r].table].version >= wrote[r]
    BY DEF Inv, ReadsOwnWrite
  <2>4. wrote[r] \in Nat /\ version[job[r].table] \in Nat
    BY <2>2 DEF Inv, TypeOK, DatabaseOK
  <2>5. CASE r = c /\ job[r].table = tb
    <3>1. Snapshot(tb).version = version[tb]
      BY DEF Snapshot
    <3>2. QED BY <1>2, <2>3, <2>4, <2>5, <3>1
  <2>6. CASE ~(r = c /\ job[r].table = tb)
    <3>1. read'[r][job[r].table] = read[r][job[r].table]
      BY <1>2, <2>2, <2>6 DEF Clients
    <3>2. QED BY <2>3, <3>1
  <2>7. QED BY <2>5, <2>6
<1>9. SerialOK'
  <2>1. Active' = Active
    BY <1>1 DEF Active
  <2>2. \A t \in Tables : Snapshot(t)' = Snapshot(t)
    BY <1>1 DEF Snapshot
  <2>3. \A d \in Clients : \A t \in Tables :
          read'[d][t] = read[d][t] \/ (t = tb /\ read'[d][t] = Snapshot(tb))
    BY <1>2
  <2>4. QED BY <1>1, <2>1, <2>2, <2>3 DEF Inv, SerialOK
<1>10. QED BY <1>6, <1>7, <1>8, <1>9 DEF Inv

-----------------------------------------------------------------------------
(***************************************************************************)
(* Restarts and the seed.                                                  *)
(***************************************************************************)
LEMMA RestartPreserves ==
  ASSUME Inv, Restart
  PROVE  Inv'
<1>1. /\ pc' = [c \in Clients |-> IF c = Boot THEN "reload"
                                  ELSE IF c \in Active THEN "failed" ELSE pc[c]]
      /\ read' = [c \in Clients |-> Unread]
      /\ cache' = [tb \in Tables |-> Nothing]
      /\ serial' = TRUE /\ reloaded' = FALSE
      /\ UNCHANGED <<job, tables, version, wrote, seedVars>>
  BY DEF Restart
<1>2. restarts' \in 0..MaxRestarts
  BY SafetyCacheAssumption DEF Restart, Inv, TypeOK
<1>3. pc' \in [Clients -> {"idle", "exists", "create", "change", "reload", "answered", "failed"}]
  BY <1>1 DEF Inv, TypeOK, ClientsOK
<1>4. \A r \in Requests : pc'[r] \in {"idle", "answered", "failed"}
                          /\ (pc'[r] # "idle" => pc[r] # "idle")
  BY <1>1, SafetyCacheAssumption DEF Clients, Active, Inv, TypeOK, ClientsOK
<1>5. ClientsOK'
  BY <1>1, <1>3, <1>4 DEF Inv, TypeOK, ClientsOK
<1>6. DatabaseOK' /\ SeedOK'
  BY <1>1 DEF Inv, TypeOK, DatabaseOK, SeedOK, seedVars
<1>7. SnapshotOK(Nothing)
  <2>1. DOMAIN <<>> = {}
    OBVIOUS
  <2>2. QED BY <2>1 DEF SnapshotOK, Nothing
<1>8. CacheOK'
  BY <1>1, <1>7 DEF CacheOK, Unread
<1>9. TypeOK'
  BY <1>1, <1>2, <1>5, <1>6, <1>8 DEF Inv, TypeOK, seedVars
<1>10. CreatesAreAsked' /\ TargetExists' /\ ReadsOwnWrite'
  BY <1>4 DEF CreatesAreAsked, TargetExists, ReadsOwnWrite
<1>11. ReadsOfReloads'
  BY <1>1 DEF ReadsOfReloads
<1>12. SerialOK'
  <2>1. \A c \in Active' : c = Boot
    BY <1>4 DEF Active, Clients
  <2>2. \A c \in Clients : \A tb \in Tables : read'[c][tb] = NotRead
    BY <1>1 DEF Unread
  <2>3. QED BY <1>1, <2>1, <2>2 DEF SerialOK
<1>13. QED BY <1>9, <1>10, <1>11, <1>12 DEF Inv

\* The steps of the seed that write nothing.
LEMMA SeedIdlePreserves ==
  ASSUME Inv, SeedStart \/ SeedFind \/ SeedFail
  PROVE  Inv'
<1>1. UNCHANGED <<pc, job, tables, version, wrote, cacheVars, serial, reloaded, restarts>>
  BY DEF SeedStart, SeedFind, SeedFail
<1>2. tables["rules"] \in Seq(Row)
  BY DEF Inv, TypeOK, DatabaseOK, Tables
<1>3. Len(SeedRules) \in Nat /\ Len(SeedEntries) \in Nat
  BY SafetyCacheAssumption
<1>4. SeedOK' /\ quiet' \in BOOLEAN
  <2>1. CASE SeedStart
    <3>1. seedAt' \in 0..(Len(SeedRules) + Len(SeedEntries))
      BY <1>3, <2>1 DEF SeedStart
    <3>2. seeds' \in 0..MaxSeeds
      BY <2>1, SafetyCacheAssumption DEF SeedStart, Inv, TypeOK, SeedOK
    <3>3. QED BY <2>1, <3>1, <3>2 DEF SeedStart, SeedOK
  <2>2. CASE SeedFind
    <3>1. Len(tables["rules"]) \in Nat /\ DOMAIN tables["rules"] = 1..Len(tables["rules"])
      BY <1>2
    <3>2. seedFound' \in 0..Len(tables["rules"])
      BY <2>2, <3>1 DEF SeedFind, WithKey
    <3>3. QED BY <1>1, <2>2, <3>2 DEF SeedFind, SeedOK, Inv, TypeOK
  <2>3. CASE SeedFail
    <3>1. 0 \in 0..(Len(SeedRules) + Len(SeedEntries))
      BY <1>3
    <3>2. seedAt' = 0 /\ seedFound' = NotRead /\ quiet' = FALSE /\ seeds' = seeds
      BY <2>3 DEF SeedFail
    <3>3. seeds \in 0..MaxSeeds
      BY DEF Inv, TypeOK, SeedOK
    <3>4. QED BY <3>1, <3>2, <3>3 DEF SeedOK
  <2>4. QED BY <2>1, <2>2, <2>3
<1>5. ClientsOK' /\ DatabaseOK' /\ CacheOK'
  BY <1>1 DEF Inv, TypeOK, ClientsOK, DatabaseOK, CacheOK, cacheVars
<1>6. TypeOK'
  BY <1>1, <1>4, <1>5 DEF Inv, TypeOK
<1>7. CreatesAreAsked' /\ TargetExists' /\ ReadsOfReloads' /\ ReadsOwnWrite'
  BY <1>1 DEF Inv, CreatesAreAsked, TargetExists, ReadsOfReloads, ReadsOwnWrite, cacheVars
<1>8. SerialOK'
  <2>1. \A tb \in Tables : Snapshot(tb)' = Snapshot(tb)
    BY <1>1 DEF Snapshot
  <2>2. QED BY <1>1, <2>1 DEF Inv, SerialOK, Active, cacheVars
<1>9. QED BY <1>6, <1>7, <1>8 DEF Inv

\* What the seed writes is a row of its list, or an old row with its values.
LEMMA SeedGrows ==
  ASSUME Inv, SeedUpsert
  PROVE  SeedTable \in Tables /\ \E new : Grows(SeedTable, new)
<1>1. SeedTable \in Tables
  BY DEF SeedTable, Tables
<1>2. tables[SeedTable] \in Seq(Row)
  BY <1>1 DEF Inv, TypeOK, DatabaseOK
<1>3. SeedItem \in Row
  <2>1. seedAt \in 1..(Len(SeedRules) + Len(SeedEntries))
    BY SafetyCacheAssumption DEF SeedUpsert, Inv, TypeOK, SeedOK
  <2>2. Len(SeedRules) \in Nat /\ Len(SeedEntries) \in Nat
    BY SafetyCacheAssumption
  <2>3. CASE seedAt <= Len(SeedRules)
    <3>1. seedAt \in 1..Len(SeedRules)
      BY <2>1, <2>2, <2>3
    <3>2. QED BY <2>3, <3>1, SafetyCacheAssumption DEF SeedItem
  <2>4. CASE ~(seedAt <= Len(SeedRules))
    <3>1. seedAt - Len(SeedRules) \in 1..Len(SeedEntries)
      BY <2>1, <2>2, <2>4
    <3>2. QED BY <2>4, <3>1, SafetyCacheAssumption DEF SeedItem
  <2>5. QED BY <2>3, <2>4
<1>4. version' = [version EXCEPT ![SeedTable] = version[SeedTable] + 1]
  BY DEF SeedUpsert
<1> DEFINE ids == IF SeedTable = "rules" THEN {seedFound} \ {0}
                  ELSE WithKey("blacklist", SeedItem.key)
<1>5. ids \subseteq DOMAIN tables[SeedTable]
  <2>1. CASE SeedTable = "rules"
    <3>1. seedFound \in 0..Len(tables["rules"])
      BY <2>1 DEF SeedUpsert, Inv, TypeOK, SeedOK
    <3>2. DOMAIN tables["rules"] = 1..Len(tables["rules"]) /\ Len(tables["rules"]) \in Nat
      BY <1>2, <2>1
    <3>3. QED BY <2>1, <3>1, <3>2
  <2>2. CASE SeedTable # "rules"
    BY <2>2 DEF WithKey, SeedTable
  <2>3. QED BY <2>1, <2>2
<1>6. CASE tables' = [tables EXCEPT ![SeedTable] = Append(tables[SeedTable], SeedItem)]
  BY <1>1, <1>2, <1>3, <1>4, <1>6, AppendGrows DEF Grows
<1>7. CASE \E id \in ids :
             tables' = [tables EXCEPT ![SeedTable] =
                          [tables[SeedTable] EXCEPT ![id] = Reset(tables[SeedTable][id], SeedItem)]]
  <2>1. PICK id \in ids :
          tables' = [tables EXCEPT ![SeedTable] =
                       [tables[SeedTable] EXCEPT ![id] = Reset(tables[SeedTable][id], SeedItem)]]
    BY <1>7
  <2>2. id \in DOMAIN tables[SeedTable]
    BY <1>5
  <2>3. tables[SeedTable][id] \in Row
    BY <1>2, <2>2
  <2>4. Reset(tables[SeedTable][id], SeedItem) \in Row
    BY <1>3, <2>3, ResetTyped
  <2>5. QED BY <1>1, <1>2, <1>4, <2>1, <2>2, <2>4, ReplaceGrows DEF Grows
<1>8. QED BY <1>6, <1>7 DEF SeedUpsert

LEMMA SeedUpsertPreserves ==
  ASSUME Inv, SeedUpsert
  PROVE  Inv'
<1>1. /\ seedFound' = NotRead /\ reloaded' = FALSE
      /\ serial' = (serial /\ Active = {})
      /\ UNCHANGED <<pc, job, wrote, cacheVars, seeds, restarts>>
  BY DEF SeedUpsert
<1>2. seedAt' \in 0..(Len(SeedRules) + Len(SeedEntries)) /\ quiet' \in BOOLEAN
  <2>1. Len(SeedRules) \in Nat /\ Len(SeedEntries) \in Nat
    BY SafetyCacheAssumption
  <2>2. seedAt \in 0..(Len(SeedRules) + Len(SeedEntries)) /\ quiet \in BOOLEAN
    BY DEF Inv, TypeOK, SeedOK
  <2>3. /\ seedAt' \in {0, IF seedAt < Len(SeedRules) + Len(SeedEntries) THEN seedAt + 1 ELSE 0}
        /\ quiet' \in {quiet, FALSE}
    BY DEF SeedUpsert, NextItem
  <2>4. quiet' \in BOOLEAN
    BY <2>2, <2>3
  <2>5. seedAt \in Nat /\ Len(SeedRules) + Len(SeedEntries) \in Nat
    BY <2>1, <2>2
  <2>6. seedAt' \in 0..(Len(SeedRules) + Len(SeedEntries))
    BY <2>1, <2>2, <2>3, <2>5
  <2>7. QED BY <2>4, <2>6
<1>3. SeedTable \in Tables
  BY SeedGrows
<1>4. PICK new : Grows(SeedTable, new)
  BY SeedGrows
<1>5. DatabaseOK
  BY DEF Inv, TypeOK
<1>6. /\ tables' \in [Tables -> Seq(Row)]
      /\ version' \in [Tables -> Nat]
      /\ \A t \in Tables : DOMAIN tables[t] \subseteq DOMAIN tables'[t]
      /\ \A t \in Tables : version[t] <= version'[t]
  BY <1>3, <1>4, <1>5, GrowsTables
<1>7. TypeOK'
  <2>1. ClientsOK' /\ CacheOK'
    BY <1>1 DEF Inv, TypeOK, ClientsOK, CacheOK, cacheVars
  <2>2. DatabaseOK'
    BY <1>1, <1>5, <1>6 DEF DatabaseOK
  <2>3. SeedOK'
    BY <1>1, <1>2 DEF Inv, TypeOK, SeedOK
  <2>4. QED BY <1>1, <1>2, <2>1, <2>2, <2>3 DEF Inv, TypeOK
<1>8. \A r \in Requests : pc[r] # "idle" => job[r].table \in Tables
  <2>1. \A r \in Requests : pc[r] # "idle" => job[r] \in Jobs
    BY DEF Inv, TypeOK, ClientsOK
  <2>2. QED BY <2>1, SafetyCacheAssumption DEF Job
<1>9. CreatesAreAsked' /\ ReadsOfReloads'
  BY <1>1 DEF Inv, CreatesAreAsked, ReadsOfReloads, cacheVars
<1>10. TargetExists'
  BY <1>1, <1>6, <1>8 DEF Inv, TargetExists
<1>11. ReadsOwnWrite'
  <2> SUFFICES ASSUME NEW r \in Requests, pc[r] = "reload"
               PROVE  /\ wrote[r] <= version'[job[r].table]
                      /\ read[r][job[r].table] # NotRead
                           => read[r][job[r].table].version >= wrote[r]
    BY <1>1 DEF ReadsOwnWrite, cacheVars
  <2>1. job[r].table \in Tables
    BY <1>8
  <2>2. /\ wrote[r] \in Nat
        /\ version[job[r].table] \in Nat /\ version'[job[r].table] \in Nat
    BY <1>5, <1>6, <2>1 DEF DatabaseOK
  <2>3. /\ wrote[r] <= version[job[r].table]
        /\ read[r][job[r].table] # NotRead => read[r][job[r].table].version >= wrote[r]
    BY DEF Inv, ReadsOwnWrite
  <2>4. version[job[r].table] <= version'[job[r].table]
    BY <1>6, <2>1
  <2>5. QED BY <2>2, <2>3, <2>4
<1>12. SerialOK'
  <2> SUFFICES ASSUME serial'
               PROVE  SerialOK'
    BY DEF SerialOK
  <2>1. Active = {} /\ Active' = {}
    BY <1>1 DEF Active
  <2>2. \A c \in Clients : read[c] = Unread
    BY <2>1 DEF Inv, ReadsOfReloads, Active
  <2>3. \A c \in Clients : \A tb \in Tables : read'[c][tb] = NotRead
    BY <1>1, <2>2 DEF Unread, cacheVars
  <2>4. QED BY <1>1, <2>1, <2>3 DEF SerialOK
<1>13. QED BY <1>7, <1>9, <1>10, <1>11, <1>12 DEF Inv

LEMMA StutterPreserves ==
  ASSUME Inv, UNCHANGED vars
  PROVE  Inv'
<1>1. ClientsOK' /\ DatabaseOK' /\ CacheOK' /\ SeedOK'
  BY DEF Inv, TypeOK, ClientsOK, DatabaseOK, CacheOK, SeedOK, vars, cacheVars, seedVars
<1>2. TypeOK'
  BY <1>1 DEF Inv, TypeOK, vars, seedVars
<1>3. CreatesAreAsked' /\ TargetExists' /\ ReadsOfReloads' /\ ReadsOwnWrite'
  BY DEF Inv, CreatesAreAsked, TargetExists, ReadsOfReloads, ReadsOwnWrite, vars, cacheVars
<1>4. SerialOK'
  <2>1. \A tb \in Tables : Snapshot(tb)' = Snapshot(tb)
    BY DEF Snapshot, vars
  <2>2. QED BY <2>1 DEF Inv, SerialOK, Active, vars, cacheVars
<1>5. QED BY <1>2, <1>3, <1>4 DEF Inv

LEMMA Invariance == Spec => []Inv
<1>1. Init => Inv
  BY InitEstablishes
<1>2. ASSUME Inv, Next
      PROVE  Inv'
  <2>1. ASSUME NEW r \in Requests, Mutate(r)
        PROVE  Inv'
    BY <1>2, <2>1, CommitPreserves DEF Mutate
  <2>2. CASE Serve
    BY <1>2, <2>1, <2>2, SubmitPreserves, AssertExistsPreserves, FailPreserves,
       AssignPreserves, ReadPreserves DEF Serve
  <2>3. CASE Seed
    BY <1>2, <2>3, SeedIdlePreserves, SeedUpsertPreserves DEF Seed
  <2>4. CASE Restart
    BY <1>2, <2>4, RestartPreserves
  <2>5. QED BY <1>2, <2>2, <2>3, <2>4 DEF Next
<1>3. Inv /\ [Next]_vars => Inv'
  BY <1>2, StutterPreserves
<1>4. QED BY <1>1, <1>3, PTL DEF Spec

-----------------------------------------------------------------------------
\* Only the assignment answers a request, from what it read itself.
LEMMA OnlyAssignAnswers ==
  ASSUME Inv, [Next]_vars, NEW r \in Requests, pc[r] # "answered", pc'[r] = "answered"
  PROVE  AssignCache(r)
<1>1. r \in Clients /\ pc \in [Clients -> {"idle", "exists", "create", "change", "reload",
                                           "answered", "failed"}]
  BY DEF Clients, Inv, TypeOK, ClientsOK
<1>2. ASSUME NEW q \in Requests, Submit(q)
      PROVE  FALSE
  <2>1. PICK asked \in Jobs : pc' = [pc EXCEPT ![q] = asked.call]
    BY <1>2 DEF Submit
  <2>2. asked.call \in {"create", "exists"}
    BY SafetyCacheAssumption DEF Job
  <2>3. QED BY <1>1, <2>1, <2>2
<1>3. ASSUME NEW q \in Requests, AssertExists(q) \/ Mutate(q)
      PROVE  FALSE
  BY <1>1, <1>3 DEF AssertExists, Mutate, Commit
<1>4. ASSUME NEW c \in Clients, Fail(c) \/ \E tb \in Tables : ReadTable(c, tb)
      PROVE  FALSE
  BY <1>1, <1>4 DEF Fail, ReadTable
<1>5. ASSUME NEW c \in Clients, AssignCache(c)
      PROVE  c = r
  BY <1>1, <1>5 DEF AssignCache
<1>6. ~Restart
  BY <1>1 DEF Restart
<1>7. ~Seed
  BY DEF Seed, SeedStart, SeedFind, SeedUpsert, SeedFail
<1>8. ~UNCHANGED vars
  BY DEF vars
<1>9. QED BY <1>2, <1>3, <1>4, <1>5, <1>6, <1>7, <1>8 DEF Next, Serve

\* The two halves of the blacklist, and the rules, as the tables have them.
LEMMA VerdictOfSnapshots ==
  ASSUME DatabaseOK, NEW message
  PROVE  LET verdict == Verdict(Snapshot("rules").rows, Snapshot("blacklist").rows, message)
         IN /\ verdict = "admitted" <=> ~RuleFound(message) /\ ~EntryFound(Types, message)
            /\ verdict = "confidential"
                 <=> /\ ~RuleFound(message)
                     /\ EntryFound({"confidential", "internal"}, message)
                     /\ ~EntryFound(Types \ {"confidential", "internal"}, message)
<1> DEFINE rules == Snapshot("rules").rows
           blacklist == Snapshot("blacklist").rows
           category == ScanPrompt(rules, blacklist, message)
<1>1. \A tb \in Tables :
        /\ DOMAIN Snapshot(tb).rows = {id \in DOMAIN tables[tb] : tables[tb][id].isActive}
        /\ \A id \in DOMAIN Snapshot(tb).rows : Snapshot(tb).rows[id] = tables[tb][id]
  BY DEF Snapshot, Restrict
<1>2. "rules" \in Tables /\ "blacklist" \in Tables
  BY DEF Tables
<1>3. DOMAIN rules = {id \in DOMAIN tables["rules"] : tables["rules"][id].isActive}
      /\ \A id \in DOMAIN rules : rules[id] = tables["rules"][id]
  BY <1>1, <1>2
<1>4. DOMAIN blacklist = {id \in DOMAIN tables["blacklist"] : tables["blacklist"][id].isActive}
      /\ \A id \in DOMAIN blacklist : blacklist[id] = tables["blacklist"][id]
  BY <1>1, <1>2
<1> HIDE DEF rules, blacklist
<1>5. \A id \in DOMAIN tables["blacklist"] : tables["blacklist"][id].type \in Types
  <2>1. tables["blacklist"] \in Seq(Row)
    BY <1>2 DEF DatabaseOK
  <2>2. \A id \in DOMAIN tables["blacklist"] : tables["blacklist"][id] \in Row
    BY <2>1
  <2>3. QED BY <2>2 DEF Row
<1>6. MatchedRules(rules, message) # {} <=> RuleFound(message)
  BY <1>3 DEF MatchedRules, RuleFound, InForce
<1>7. {id \in Occurring(blacklist, message) : ~Secret(blacklist[id])} # {}
        <=> EntryFound(Types \ {"confidential", "internal"}, message)
  BY <1>4, <1>5 DEF Occurring, Secret, EntryFound, InForce
<1>8. CheckConfidentiality(blacklist, message)
        <=> EntryFound({"confidential", "internal"}, message)
  BY <1>4 DEF CheckConfidentiality, Occurring, Secret, EntryFound, InForce
<1>9. EntryFound(Types, message)
        <=> \/ EntryFound({"confidential", "internal"}, message)
            \/ EntryFound(Types \ {"confidential", "internal"}, message)
  BY DEF EntryFound, Types
<1>10. \A type : RuleTypeToCategory(type) # "not blocked"
  BY DEF RuleTypeToCategory
<1>11. category = "not blocked"
         <=> ~RuleFound(message) /\ ~EntryFound(Types \ {"confidential", "internal"}, message)
  BY <1>6, <1>7, <1>10 DEF ScanPrompt
<1> HIDE DEF category
<1>12. Verdict(rules, blacklist, message)
         = IF category # "not blocked"
           THEN IF IsSensitiveCategory(category) THEN "sensitive" ELSE "blocked"
           ELSE IF CheckConfidentiality(blacklist, message) THEN "confidential" ELSE "admitted"
  BY DEF Verdict, category
<1>13. QED BY <1>8, <1>9, <1>11, <1>12 DEF rules, blacklist

\* Requests, tables, cache and seed keep their types: no row is ever half
\* filled in, and the seed never leaves its lists.
THEOREM TypeCorrect == Spec => []TypeOK
<1>1. Inv => TypeOK
  BY DEF Inv
<1>2. QED BY <1>1, Invariance, PTL

\* Reloads that do not overlap leave no stale rule in force and none out of
\* force, at the start of the server and after every mutation.
THEOREM SerialReloadIsAlwaysFresh == Spec => []SerialReloadIsFresh
<1>1. Inv => SerialReloadIsFresh
  BY DEF Inv, SerialOK, SerialReloadIsFresh
<1>2. QED BY <1>1, Invariance, PTL

\* An administrator who is answered finds the change in the cache, with any
\* number of requests, reloads, seeds and restarts in between.
THEOREM AnsweredStaysCached == Spec => AnsweredIsCached
<1>1. ASSUME Inv, [Next]_vars, NEW r \in Requests, pc[r] # "answered", pc'[r] = "answered"
      PROVE  cache'[job[r].table].version >= wrote'[r]
  <2>1. AssignCache(r)
    BY <1>1, OnlyAssignAnswers
  <2>2. /\ pc[r] = "reload" /\ cache' = read[r] /\ wrote' = wrote
        /\ \A tb \in Tables : read[r][tb] # NotRead
    BY <2>1 DEF AssignCache
  <2>3. job[r] \in Jobs
    BY <1>1, <2>2 DEF Inv, TypeOK, ClientsOK
  <2>4. job[r].table \in Tables
    BY <2>3, SafetyCacheAssumption DEF Job
  <2>5. QED BY <1>1, <2>2, <2>4 DEF Inv, ReadsOwnWrite
<1>2. Inv /\ [Next]_vars
        => [\A r \in Requests :
              pc[r] # "answered" /\ pc'[r] = "answered"
                => cache'[job[r].table].version >= wrote'[r]]_vars
  BY <1>1
<1>3. QED BY <1>2, Invariance, PTL DEF Spec, AnsweredIsCached

\* With a fresh cache the two safety checks admit a message exactly if no
\* active row of the tables occurs in it, whatever rules, malformed ones
\* included, keywords and messages there are.
THEOREM VerdictAlwaysFollowsTables == Spec => []VerdictFollowsTables
<1>1. ASSUME Inv
      PROVE  VerdictFollowsTables
  <2> SUFFICES ASSUME serial, reloaded
               PROVE  VerdictFollowsTables
    BY DEF VerdictFollowsTables
  <2>1. cache["rules"] = Snapshot("rules") /\ cache["blacklist"] = Snapshot("blacklist")
    BY <1>1 DEF Inv, SerialOK, Tables
  <2>2. DatabaseOK
    BY <1>1 DEF Inv, TypeOK
  <2>3. QED BY <2>1, <2>2, VerdictOfSnapshots DEF VerdictFollowsTables
<1>2. Inv => VerdictFollowsTables
  BY <1>1
<1>3. QED BY <1>2, Invariance, PTL

-----------------------------------------------------------------------------
(***************************************************************************)
(* The seed script, and the patterns and keywords of the rows.             *)
(***************************************************************************)
Keyed(table, key) == {id \in DOMAIN table : table[id].key = key}

\* No row is gone, and none has another key.
KeysKept(old, new) ==
  \A id \in DOMAIN old : id \in DOMAIN new /\ new[id].key = old[id].key

\* One row at most has got the key 'given', and none any other.
OneGets(old, new, given) ==
  \E id : \A key \in Keys :
    Keyed(new, key) \subseteq Keyed(old, key) \cup (IF key = given THEN {id} ELSE {})

LEMMA AppendKeys ==
  ASSUME NEW table \in Seq(Row), NEW row \in Row
  PROVE  /\ KeysKept(table, Append(table, row))
         /\ OneGets(table, Append(table, row), row.key)
<1> DEFINE new == Append(table, row)
           last == Len(table) + 1
<1>1. /\ DOMAIN table = 1..Len(table) /\ DOMAIN new = 1..last /\ Len(table) \in Nat
      /\ new[last] = row
      /\ \A id \in 1..Len(table) : new[id] = table[id]
  OBVIOUS
<1>2. DOMAIN new = DOMAIN table \cup {last}
  BY <1>1
<1> HIDE DEF last, new
<1>3. KeysKept(table, new)
  BY <1>1, <1>2 DEF KeysKept
<1>4. \A key \in Keys :
        Keyed(new, key) \subseteq Keyed(table, key) \cup (IF key = row.key THEN {last} ELSE {})
  BY <1>1, <1>2 DEF Keyed
<1>5. OneGets(table, new, row.key)
  BY <1>4 DEF OneGets
<1>6. QED BY <1>3, <1>5 DEF new

LEMMA ReplaceKeys ==
  ASSUME NEW table \in Seq(Row), NEW id \in DOMAIN table, NEW row \in Row,
         NEW new, new = [table EXCEPT ![id] = row]
  PROVE  /\ OneGets(table, new, row.key)
         /\ row.key = table[id].key =>
              /\ KeysKept(table, new)
              /\ \A key \in Keys : Keyed(new, key) \subseteq Keyed(table, key)
<1>1. /\ DOMAIN new = DOMAIN table /\ new[id] = row
      /\ \A i \in DOMAIN table : i # id => new[i] = table[i]
  OBVIOUS
<1>2. \A key \in Keys :
        Keyed(new, key) \subseteq Keyed(table, key) \cup (IF key = row.key THEN {id} ELSE {})
  BY <1>1 DEF Keyed
<1>3. OneGets(table, new, row.key)
  BY <1>2 DEF OneGets
<1>4. ASSUME row.key = table[id].key
      PROVE  /\ KeysKept(table, new)
             /\ \A key \in Keys : Keyed(new, key) \subseteq Keyed(table, key)
  BY <1>1, <1>4 DEF KeysKept, Keyed
<1>5. QED BY <1>3, <1>4

\* What a request does to the keys of its table.
LEMMA CommitKeys ==
  ASSUME Inv, NEW r \in Requests, NEW next, Commit(r, next)
  PROVE  LET tb == job[r].table
         IN /\ tb \in Tables
            /\ OneGets(tables[tb], tables'[tb], job[r].change.key)
            /\ ~Renames(r) => KeysKept(tables[tb], tables'[tb])
            /\ \A t \in Tables : t # tb => tables'[t] = tables[t]
<1> DEFINE tb == job[r].table
           change == job[r].change
           table == tables[tb]
<1>1. pc[r] \in {"create", "change"} /\ tables' = [tables EXCEPT ![tb] = After(r)]
  BY DEF Commit
<1>2. job[r] \in Jobs
  BY <1>1 DEF Inv, TypeOK, ClientsOK
<1>3. /\ tb \in Tables /\ change \in Change
      /\ job[r].call = "create" => change.key \in Keys /\ change.type \in Types
  BY <1>2, SafetyCacheAssumption DEF Job
<1>4. tables \in [Tables -> Seq(Row)] /\ table \in Seq(Row)
  BY <1>3 DEF Inv, TypeOK, DatabaseOK
<1>5. tables'[tb] = After(r) /\ \A t \in Tables : t # tb => tables'[t] = tables[t]
  BY <1>1, <1>3, <1>4
<1>6. CASE pc[r] = "create"
  <2>1. After(r) = Append(table, Created(change))
    BY <1>6 DEF After
  <2>2. job[r].call = "create"
    BY <1>6 DEF Inv, CreatesAreAsked
  <2>3. Created(change) \in Row /\ Created(change).key = change.key
    BY <1>3, <2>2, CreatedTyped DEF Created
  <2>4. KeysKept(table, After(r)) /\ OneGets(table, After(r), change.key)
    BY <1>4, <2>1, <2>3, AppendKeys
  <2>5. QED BY <1>3, <1>5, <2>4
<1>7. CASE pc[r] = "change"
  <2> DEFINE row == Patched(table[job[r].id], change)
  <2>1. After(r) = [table EXCEPT ![job[r].id] = row]
    BY <1>7 DEF After
  <2>2. job[r].id \in DOMAIN table
    BY <1>7 DEF Inv, TargetExists
  <2>3. table[job[r].id] \in Row
    BY <1>4, <2>2
  <2>4. row \in Row /\ row.key = Given(change.key, table[job[r].id].key)
    BY <1>3, <2>3, PatchedTyped DEF Patched
  <2> HIDE DEF row
  <2>5. /\ OneGets(table, After(r), row.key)
        /\ row.key = table[job[r].id].key =>
             /\ KeysKept(table, After(r))
             /\ \A key \in Keys : Keyed(After(r), key) \subseteq Keyed(table, key)
    BY <1>4, <2>1, <2>2, <2>4, ReplaceKeys
  <2>6. CASE change.key = Unset
    <3>1. row.key = table[job[r].id].key
      BY <2>4, <2>6 DEF Given
    <3>2. OneGets(table, After(r), change.key)
      BY <2>5, <3>1 DEF OneGets
    <3>3. QED BY <1>3, <1>5, <2>5, <3>1, <3>2
  <2>7. CASE change.key # Unset
    <3>1. row.key = change.key
      BY <2>4, <2>7 DEF Given
    <3>2. Renames(r)
      BY <1>7, <2>7 DEF Renames
    <3>3. QED BY <1>3, <1>5, <2>5, <3>1, <3>2
  <2>8. QED BY <2>6, <2>7
<1>8. QED BY <1>1, <1>6, <1>7

\* The item the seed is at, and the next one.
LEMMA SeedPlaces ==
  ASSUME Inv, seedAt # 0
  PROVE  /\ Len(SeedRules) \in Nat /\ Len(SeedEntries) \in Nat /\ seedAt \in Nat
         /\ DOMAIN SeedRules = 1..Len(SeedRules) /\ DOMAIN SeedEntries = 1..Len(SeedEntries)
         /\ SeedTable = "rules" =>
              /\ seedAt \in DOMAIN SeedRules /\ SeedItem = SeedRules[seedAt]
              /\ seedAt <= Len(SeedRules)
         /\ SeedTable # "rules" =>
              /\ SeedTable = "blacklist" /\ seedAt > Len(SeedRules)
              /\ seedAt - Len(SeedRules) \in DOMAIN SeedEntries
              /\ SeedItem = SeedEntries[seedAt - Len(SeedRules)]
         /\ SeedItem \in Row
<1>1. /\ Len(SeedRules) \in Nat /\ Len(SeedEntries) \in Nat
      /\ DOMAIN SeedRules = 1..Len(SeedRules) /\ DOMAIN SeedEntries = 1..Len(SeedEntries)
  BY SafetyCacheAssumption
<1>2. seedAt \in 1..(Len(SeedRules) + Len(SeedEntries))
  BY <1>1 DEF Inv, TypeOK, SeedOK
<1>3. CASE seedAt <= Len(SeedRules)
  <2>1. SeedTable = "rules" /\ SeedItem = SeedRules[seedAt] /\ seedAt \in DOMAIN SeedRules
    BY <1>1, <1>2, <1>3 DEF SeedTable, SeedItem
  <2>2. SeedRules[seedAt] \in Row
    BY <2>1, SafetyCacheAssumption
  <2>3. QED BY <1>1, <1>2, <1>3, <2>1, <2>2
<1>4. CASE ~(seedAt <= Len(SeedRules))
  <2>1. seedAt - Len(SeedRules) \in 1..Len(SeedEntries)
    BY <1>1, <1>2, <1>4
  <2>2. SeedTable = "blacklist" /\ SeedItem = SeedEntries[seedAt - Len(SeedRules)]
    BY <1>4 DEF SeedTable, SeedItem
  <2>3. SeedEntries[seedAt - Len(SeedRules)] \in Row
    BY <1>1, <2>1, SafetyCacheAssumption
  <2>4. seedAt > Len(SeedRules)
    BY <1>1, <1>2, <1>4
  <2>5. QED BY <1>1, <1>2, <2>1, <2>2, <2>3, <2>4
<1>5. QED BY <1>3, <1>4

\* What the seed does to the keys of its table: it adds its item, or writes to a
\* row that keeps its key.
LEMMA UpsertKeys ==
  ASSUME Inv, SeedUpsert
  PROVE  /\ SeedTable \in Tables
         /\ \A tb \in Tables : KeysKept(tables[tb], tables'[tb])
         /\ \A tb \in Tables : tb # SeedTable => tables'[tb] = tables[tb]
         /\ \/ /\ SeedTable = "rules" => seedFound # NotRead /\ seedFound = 0
               /\ SeedTable = "blacklist" => Keyed(tables["blacklist"], SeedItem.key) = {}
               /\ OneGets(tables[SeedTable], tables'[SeedTable], SeedItem.key)
               /\ Keyed(tables'[SeedTable], SeedItem.key) # {}
            \/ /\ SeedTable = "rules" => seedFound # NotRead /\ seedFound # 0
               /\ SeedTable = "blacklist" => Keyed(tables["blacklist"], SeedItem.key) # {}
               /\ \A key \in Keys :
                    Keyed(tables'[SeedTable], key) \subseteq Keyed(tables[SeedTable], key)
<1>1. seedAt # 0 /\ (SeedTable = "rules" => seedFound # NotRead)
  BY DEF SeedUpsert
<1>2. SeedTable \in {"rules", "blacklist"} /\ SeedTable \in Tables
  BY DEF SeedTable, Tables
<1>3. SeedItem \in Row
  BY <1>1, SeedPlaces
<1> DEFINE table == tables[SeedTable]
           ids == IF SeedTable = "rules" THEN {seedFound} \ {0}
                  ELSE WithKey("blacklist", SeedItem.key)
<1>4. tables \in [Tables -> Seq(Row)] /\ table \in Seq(Row)
  BY <1>2 DEF Inv, TypeOK, DatabaseOK
<1>5. \A id \in ids : id \in DOMAIN table
  <2>1. CASE SeedTable = "rules"
    <3>1. seedFound \in 0..Len(table)
      BY <1>1, <2>1 DEF Inv, TypeOK, SeedOK
    <3>2. DOMAIN table = 1..Len(table) /\ Len(table) \in Nat
      BY <1>4
    <3>3. QED BY <2>1, <3>1, <3>2
  <2>2. CASE SeedTable # "rules"
    BY <1>2, <2>2 DEF WithKey
  <2>3. QED BY <2>1, <2>2
<1>6. /\ SeedTable = "rules" => (ids = {} <=> seedFound = 0)
      /\ SeedTable = "blacklist" => ids = Keyed(tables["blacklist"], SeedItem.key)
  BY DEF WithKey, Keyed
<1>7. \/ ids = {} /\ tables' = [tables EXCEPT ![SeedTable] = Append(tables[SeedTable], SeedItem)]
      \/ \E id \in ids :
           tables' = [tables EXCEPT ![SeedTable] =
                        [tables[SeedTable] EXCEPT ![id] = Reset(tables[SeedTable][id], SeedItem)]]
  BY DEF SeedUpsert
<1> HIDE DEF ids
<1>8. \A t : KeysKept(t, t)
  BY DEF KeysKept
<1>9. CASE ids = {} /\ tables' = [tables EXCEPT ![SeedTable] = Append(tables[SeedTable], SeedItem)]
  <2>1. tables'[SeedTable] = Append(table, SeedItem)
        /\ \A tb \in Tables : tb # SeedTable => tables'[tb] = tables[tb]
    BY <1>2, <1>4, <1>9
  <2>2. KeysKept(table, tables'[SeedTable]) /\ OneGets(table, tables'[SeedTable], SeedItem.key)
    BY <1>3, <1>4, <2>1, AppendKeys
  <2>3. /\ Len(table) + 1 \in DOMAIN Append(table, SeedItem)
        /\ Append(table, SeedItem)[Len(table) + 1] = SeedItem
    BY <1>3, <1>4
  <2>4. Keyed(tables'[SeedTable], SeedItem.key) # {}
    BY <2>1, <2>3 DEF Keyed
  <2>5. QED BY <1>1, <1>2, <1>6, <1>8, <1>9, <2>1, <2>2, <2>4
<1>10. ASSUME NEW id \in ids,
              tables' = [tables EXCEPT ![SeedTable] =
                           [tables[SeedTable] EXCEPT ![id] = Reset(tables[SeedTable][id], SeedItem)]]
       PROVE  /\ KeysKept(table, tables'[SeedTable])
              /\ \A key \in Keys : Keyed(tables'[SeedTable], key) \subseteq Keyed(table, key)
              /\ \A tb \in Tables : tb # SeedTable => tables'[tb] = tables[tb]
  <2> DEFINE row == Reset(table[id], SeedItem)
  <2>1. tables'[SeedTable] = [table EXCEPT ![id] = row]
        /\ \A tb \in Tables : tb # SeedTable => tables'[tb] = tables[tb]
    BY <1>2, <1>4, <1>10
  <2>2. id \in DOMAIN table /\ table[id] \in Row
    BY <1>4, <1>5
  <2>3. row \in Row /\ row.key = table[id].key
    BY <1>3, <2>2, ResetTyped DEF Reset, Row
  <2> HIDE DEF row
  <2>4. QED BY <1>4, <2>1, <2>2, <2>3, ReplaceKeys
<1>11. CASE \E id \in ids :
              tables' = [tables EXCEPT ![SeedTable] =
                           [tables[SeedTable] EXCEPT ![id] = Reset(tables[SeedTable][id], SeedItem)]]
  <2>1. ids # {}
    BY <1>11
  <2>2. /\ KeysKept(table, tables'[SeedTable])
        /\ \A key \in Keys : Keyed(tables'[SeedTable], key) \subseteq Keyed(table, key)
        /\ \A tb \in Tables : tb # SeedTable => tables'[tb] = tables[tb]
    BY <1>10, <1>11
  <2>3. QED BY <1>1, <1>2, <1>6, <1>8, <2>1, <2>2
<1>12. QED BY <1>7, <1>9, <1>11

\* A request writes once.
Early == {"idle", "exists", "create", "change"}
WritesOnce == \A r \in Requests : pc[r] \in Early => wrote[r] = 0

LEMMA WritesOnceStep ==
  ASSUME Inv, WritesOnce, [Next]_vars
  PROVE  WritesOnce'
<1>1. \A q \in Requests : q \in Clients
  BY DEF Clients
<1>2. pc \in [Clients -> {"idle", "exists", "create", "change", "reload", "answered", "failed"}]
      /\ wrote \in [Requests -> Nat]
  BY DEF Inv, TypeOK, ClientsOK, DatabaseOK
<1> SUFFICES ASSUME NEW q \in Requests, pc'[q] \in Early
             PROVE  wrote'[q] = 0
  BY DEF WritesOnce
<1>3. SUFFICES pc[q] \in Early /\ wrote'[q] = wrote[q]
  BY DEF WritesOnce
<1>4. ASSUME NEW r \in Requests, Submit(r) \/ AssertExists(r)
      PROVE  pc[q] \in Early /\ wrote'[q] = wrote[q]
  <2>1. pc[r] \in Early /\ wrote' = wrote /\ \E p : pc' = [pc EXCEPT ![r] = p]
    BY <1>4 DEF Submit, AssertExists, Early
  <2>2. QED BY <1>1, <1>2, <2>1
<1>5. ASSUME NEW r \in Requests, Mutate(r)
      PROVE  pc[q] \in Early /\ wrote'[q] = wrote[q]
  <2>1. PICK next \in {"reload", "failed"} : Commit(r, next)
    BY <1>5 DEF Mutate
  <2>2. /\ pc' = [pc EXCEPT ![r] = next]
        /\ wrote' = [wrote EXCEPT ![r] = version[job[r].table] + 1]
    BY <2>1 DEF Commit
  <2>3. q # r
    BY <1>1, <1>2, <2>1, <2>2 DEF Early
  <2>4. QED BY <1>1, <1>2, <2>2, <2>3
<1>6. ASSUME NEW c \in Clients, Fail(c) \/ AssignCache(c) \/ \E tb \in Tables : ReadTable(c, tb)
      PROVE  pc[q] \in Early /\ wrote'[q] = wrote[q]
  <2>1. wrote' = wrote /\ (pc' = pc \/ \E end \in {"answered", "failed"} : pc' = [pc EXCEPT ![c] = end])
    BY <1>6 DEF Fail, AssignCache, ReadTable
  <2>2. QED BY <1>1, <1>2, <2>1 DEF Early
<1>7. CASE Restart
  BY <1>1, <1>2, <1>7, SafetyCacheAssumption DEF Restart, Early
<1>8. CASE Seed
  BY <1>8 DEF Seed, SeedStart, SeedFind, SeedUpsert, SeedFail
<1>9. CASE UNCHANGED vars
  BY <1>9 DEF vars
<1>10. QED BY <1>4, <1>5, <1>6, <1>7, <1>8, <1>9 DEF Next, Serve

\* The steps that write no row and are no steps of the seed.
LEMMA OtherSteps ==
  ASSUME Inv, WritesOnce, [Next]_vars
  PROVE  \/ \E r \in Requests, next \in {"reload", "failed"} : Commit(r, next)
         \/ Seed
         \/ /\ UNCHANGED <<tables, wrote, seedAt, seedFound, quiet>>
            /\ \A r \in Requests : wrote[r] # 0 => job'[r] = job[r]
<1>1. ASSUME NEW r \in Requests, Submit(r)
      PROVE  /\ UNCHANGED <<tables, wrote, seedAt, seedFound, quiet>>
             /\ \A q \in Requests : wrote[q] # 0 => job'[q] = job[q]
  <2>1. /\ pc[r] = "idle" /\ UNCHANGED <<tables, wrote, seedVars>>
        /\ \E asked : job' = [job EXCEPT ![r] = asked]
    BY <1>1 DEF Submit
  <2>2. wrote[r] = 0
    BY <2>1 DEF WritesOnce, Early
  <2>3. QED BY <2>1, <2>2 DEF seedVars, Inv, TypeOK, ClientsOK
<1>2. ASSUME NEW r \in Requests, AssertExists(r)
      PROVE  UNCHANGED <<job, tables, wrote, seedVars>>
  BY <1>2 DEF AssertExists
<1>3. ASSUME NEW r \in Requests, Mutate(r)
      PROVE  \E next \in {"reload", "failed"} : Commit(r, next)
  BY <1>3 DEF Mutate
<1>4. ASSUME NEW c \in Clients, Fail(c) \/ AssignCache(c) \/ \E tb \in Tables : ReadTable(c, tb)
      PROVE  UNCHANGED <<job, tables, wrote, seedVars>>
  BY <1>4 DEF Fail, AssignCache, ReadTable
<1>5. ASSUME Restart \/ UNCHANGED vars
      PROVE  UNCHANGED <<job, tables, wrote, seedVars>>
  BY <1>5 DEF Restart, vars
<1>6. CASE UNCHANGED <<job, tables, wrote, seedVars>>
  BY <1>6 DEF seedVars
<1>7. QED BY <1>1, <1>2, <1>3, <1>4, <1>5, <1>6 DEF Next, Serve

-----------------------------------------------------------------------------
(***************************************************************************)
(* The seed puts in whatever is missing.                                   *)
(***************************************************************************)
\* What getOrReserveId() found has its pattern still when the rule is written.
FoundKept ==
  quiet /\ seedFound # NotRead /\ seedFound # 0 =>
    /\ seedAt # 0 /\ SeedTable = "rules"
    /\ seedFound \in Keyed(tables["rules"], SeedItem.key)

\* The items before the one the seed is at are in the tables.
Done ==
  quiet =>
    /\ \A n \in DOMAIN SeedRules :
         seedAt = 0 \/ n < seedAt => Keyed(tables["rules"], SeedRules[n].key) # {}
    /\ \A n \in DOMAIN SeedEntries :
         seedAt = 0 \/ Len(SeedRules) + n < seedAt
           => Keyed(tables["blacklist"], SeedEntries[n].key) # {}

\* Rows keep their keys, and the seed stays where it is.
LEMMA KeptStays ==
  ASSUME \A tb \in Tables : KeysKept(tables[tb], tables'[tb]),
         UNCHANGED <<seedAt, seedFound, quiet>>
  PROVE  (FoundKept => FoundKept') /\ (Done => Done')
<1>1. "rules" \in Tables /\ "blacklist" \in Tables
  BY DEF Tables
<1>2. \A tb \in Tables : \A key : Keyed(tables[tb], key) \subseteq Keyed(tables'[tb], key)
  BY DEF KeysKept, Keyed
<1>3. SeedTable' = SeedTable /\ SeedItem' = SeedItem
  BY DEF SeedTable, SeedItem
<1>4. \A key : Keyed(tables["rules"], key) \subseteq Keyed(tables'["rules"], key)
  BY <1>1, <1>2
<1>5. \A key : Keyed(tables["blacklist"], key) \subseteq Keyed(tables'["blacklist"], key)
  BY <1>1, <1>2
<1>6. FoundKept => FoundKept'
  BY <1>3, <1>4 DEF FoundKept
<1>7. Done => Done'
  BY <1>4, <1>5 DEF Done
<1>8. QED BY <1>6, <1>7

\* The upsert adds one item to those that are done.
LEMMA UpsertGetsDone ==
  ASSUME Inv, FoundKept, Done, SeedUpsert
  PROVE  Done'
<1> SUFFICES ASSUME quiet'
             PROVE  Done'
  BY DEF Done
<1>1. seedAt # 0 /\ quiet /\ seedAt' = NextItem
  BY DEF SeedUpsert
<1>2. /\ SeedTable \in Tables
      /\ \A tb \in Tables : KeysKept(tables[tb], tables'[tb])
      /\ Keyed(tables[SeedTable], SeedItem.key) = {} => Keyed(tables'[SeedTable], SeedItem.key) # {}
  <2>1. SeedTable = "rules" \/ SeedTable = "blacklist"
    BY DEF SeedTable
  <2>2. CASE SeedTable = "rules"
    BY <1>1, <2>2, UpsertKeys DEF FoundKept
  <2>3. CASE SeedTable = "blacklist"
    BY <2>3, UpsertKeys
  <2>4. QED BY <2>1, <2>2, <2>3
<1>3. \A tb \in Tables : \A key : Keyed(tables[tb], key) \subseteq Keyed(tables'[tb], key)
  BY <1>2 DEF KeysKept, Keyed
<1>4. Keyed(tables'[SeedTable], SeedItem.key) # {}
  BY <1>2, <1>3
<1>5. /\ Len(SeedRules) \in Nat /\ Len(SeedEntries) \in Nat /\ seedAt \in Nat
      /\ DOMAIN SeedRules = 1..Len(SeedRules) /\ DOMAIN SeedEntries = 1..Len(SeedEntries)
      /\ SeedTable = "rules" =>
           seedAt \in DOMAIN SeedRules /\ SeedItem = SeedRules[seedAt] /\ seedAt <= Len(SeedRules)
      /\ SeedTable # "rules" =>
           /\ SeedTable = "blacklist" /\ seedAt > Len(SeedRules)
           /\ seedAt - Len(SeedRules) \in DOMAIN SeedEntries
           /\ SeedItem = SeedEntries[seedAt - Len(SeedRules)]
  BY <1>1, SeedPlaces
<1>6. "rules" \in Tables /\ "blacklist" \in Tables
  BY DEF Tables
<1>7. seedAt' = 0 \/ seedAt' = seedAt + 1
  BY <1>1 DEF NextItem
<1>8. seedAt' = 0 => seedAt >= Len(SeedRules) + Len(SeedEntries)
  BY <1>1, <1>5 DEF NextItem
<1>9. ASSUME NEW n \in DOMAIN SeedRules, seedAt' = 0 \/ n < seedAt'
      PROVE  Keyed(tables'["rules"], SeedRules[n].key) # {}
  <2>1. n <= seedAt /\ n \in Nat /\ n <= Len(SeedRules)
    BY <1>5, <1>7, <1>8, <1>9
  <2>2. CASE n = seedAt
    BY <1>4, <1>5, <2>1, <2>2
  <2>3. CASE n # seedAt
    <3>1. n < seedAt
      BY <1>5, <2>1, <2>3
    <3>2. Keyed(tables["rules"], SeedRules[n].key) # {}
      BY <1>1, <3>1 DEF Done
    <3>3. QED BY <1>3, <1>6, <3>2
  <2>4. QED BY <2>2, <2>3
<1>10. ASSUME NEW n \in DOMAIN SeedEntries, seedAt' = 0 \/ Len(SeedRules) + n < seedAt'
       PROVE  Keyed(tables'["blacklist"], SeedEntries[n].key) # {}
  <2>1. Len(SeedRules) + n <= seedAt /\ n \in Nat /\ n > 0
    BY <1>5, <1>7, <1>8, <1>10
  <2>2. SeedTable = "blacklist" /\ SeedItem = SeedEntries[seedAt - Len(SeedRules)]
    BY <1>5, <2>1
  <2>3. CASE n = seedAt - Len(SeedRules)
    BY <1>4, <2>2, <2>3
  <2>4. CASE n # seedAt - Len(SeedRules)
    <3>1. Len(SeedRules) + n < seedAt
      BY <1>5, <2>1, <2>4
    <3>2. Keyed(tables["blacklist"], SeedEntries[n].key) # {}
      BY <1>1, <3>1 DEF Done
    <3>3. QED BY <1>3, <1>6, <3>2
  <2>5. QED BY <2>3, <2>4
<1>11. QED BY <1>9, <1>10 DEF Done

LEMMA DoneStep ==
  ASSUME Inv, WritesOnce, FoundKept, Done, [Next]_vars
  PROVE  FoundKept' /\ Done'
<1>1. ASSUME NEW r \in Requests, NEW next, Commit(r, next)
      PROVE  FoundKept' /\ Done'
  <2>1. quiet' = (quiet /\ ~Renames(r)) /\ UNCHANGED <<seedAt, seedFound>>
    BY <1>1 DEF Commit
  <2>2. CASE Renames(r)
    BY <2>1, <2>2 DEF FoundKept, Done
  <2>3. CASE ~Renames(r)
    <3>1. \A t : KeysKept(t, t)
      BY DEF KeysKept
    <3>2. \A tb \in Tables : KeysKept(tables[tb], tables'[tb])
      BY <1>1, <2>3, <3>1, CommitKeys
    <3>3. quiet' = quiet
      BY <2>1, <2>3 DEF Inv, TypeOK
    <3>4. QED BY <2>1, <3>2, <3>3, KeptStays
  <2>4. QED BY <2>2, <2>3
<1>2. CASE SeedStart
  <2>1. seedAt' = 1 /\ seedFound' = NotRead
    BY <1>2 DEF SeedStart
  <2>2. /\ Len(SeedRules) \in Nat
        /\ DOMAIN SeedRules = 1..Len(SeedRules) /\ DOMAIN SeedEntries = 1..Len(SeedEntries)
    BY SafetyCacheAssumption
  <2>3. /\ \A n \in DOMAIN SeedRules : ~(seedAt' = 0 \/ n < seedAt')
        /\ \A n \in DOMAIN SeedEntries : ~(seedAt' = 0 \/ Len(SeedRules) + n < seedAt')
    BY <2>1, <2>2
  <2>4. QED BY <2>1, <2>3 DEF FoundKept, Done
<1>3. CASE SeedFind
  <2>1. /\ seedAt # 0 /\ SeedTable = "rules"
        /\ seedFound' \in WithKey("rules", SeedItem.key) \/ seedFound' = 0
        /\ UNCHANGED <<tables, seedAt, quiet>>
    BY <1>3 DEF SeedFind
  <2>2. SeedTable' = SeedTable /\ SeedItem' = SeedItem
    BY <2>1 DEF SeedTable, SeedItem
  <2>3. WithKey("rules", SeedItem.key) = Keyed(tables["rules"], SeedItem.key)
    BY DEF WithKey, Keyed
  <2>4. FoundKept'
    BY <2>1, <2>2, <2>3 DEF FoundKept
  <2>5. QED BY <2>1, <2>4 DEF Done
<1>4. CASE SeedUpsert
  <2>1. seedFound' = NotRead
    BY <1>4 DEF SeedUpsert
  <2>2. QED BY <1>4, <2>1, UpsertGetsDone DEF FoundKept
<1>5. CASE SeedFail
  BY <1>5 DEF SeedFail, FoundKept, Done
<1>6. CASE UNCHANGED <<tables, seedAt, seedFound, quiet>>
  <2>1. \A tb \in Tables : KeysKept(tables[tb], tables'[tb])
    BY <1>6 DEF KeysKept
  <2>2. QED BY <1>6, <2>1, KeptStays
<1>7. QED BY <1>1, <1>2, <1>3, <1>4, <1>5, <1>6, OtherSteps DEF Seed

\* A seed that runs to its end leaves every item of both its lists in the tables,
\* for lists of any length, over whatever the tables held, after any number of
\* runs that stopped early, and between any writes of administrators that do not
\* rename a row.
THEOREM SeedIsAlwaysComplete == Spec => []SeedIsComplete
<1>1. Init => WritesOnce /\ FoundKept /\ Done
  BY DEF Init, WritesOnce, FoundKept, Done
<1>2. Inv /\ WritesOnce /\ FoundKept /\ Done /\ [Next]_vars => WritesOnce' /\ FoundKept' /\ Done'
  BY WritesOnceStep, DoneStep
<1>3. Done => SeedIsComplete
  BY DEF Done, Keyed, WithKey, SeedIsComplete
<1>4. QED BY <1>1, <1>2, <1>3, Invariance, PTL DEF Spec

-----------------------------------------------------------------------------
(***************************************************************************)
(* The seed adds no row a second time.                                     *)
(***************************************************************************)
\* All rows of table tb with that key, but 'spare' of them, were given it by
\* requests.
AtMost(tb, key, spare) ==
  Cardinality(Keyed(tables[tb], key)) <= spare + Cardinality(Writers(tb, key))
Bounded == \A tb \in Tables, key \in Keys : AtMost(tb, key, 1)

\* As long as getOrReserveId() has found nothing, only requests have.
Pending ==
  seedFound # NotRead /\ seedFound = 0 =>
    seedAt # 0 /\ SeedTable = "rules" /\ AtMost("rules", SeedItem.key, 0)

LEMMA KeyedFinite ==
  ASSUME NEW table \in Seq(Row), NEW key
  PROVE  IsFiniteSet(Keyed(table, key)) /\ Cardinality(Keyed(table, key)) \in Nat
<1>1. Len(table) \in Nat /\ DOMAIN table = 1..Len(table)
  OBVIOUS
<1>2. IsFiniteSet(DOMAIN table)
  BY <1>1, FS_Interval
<1>3. Keyed(table, key) \in SUBSET (DOMAIN table)
  BY DEF Keyed
<1>4. IsFiniteSet(Keyed(table, key))
  BY <1>2, <1>3, FS_Subset
<1>5. QED BY <1>4, FS_CardinalityType

LEMMA WritersFinite ==
  ASSUME NEW tb, NEW key
  PROVE  IsFiniteSet(Writers(tb, key)) /\ Cardinality(Writers(tb, key)) \in Nat
<1>1. Writers(tb, key) \in SUBSET Requests
  BY DEF Writers
<1>2. IsFiniteSet(Writers(tb, key))
  BY <1>1, SafetyCacheAssumption, FS_Subset
<1>3. QED BY <1>2, FS_CardinalityType

LEMMA OneMore ==
  ASSUME NEW S, IsFiniteSet(S), NEW x, NEW T, T \subseteq S \cup {x}
  PROVE  Cardinality(T) <= Cardinality(S) + 1
<1>1. IsFiniteSet(S \cup {x})
      /\ Cardinality(S \cup {x}) = IF x \in S THEN Cardinality(S) ELSE Cardinality(S) + 1
  BY FS_AddElement
<1>2. T \in SUBSET (S \cup {x})
  OBVIOUS
<1>3. IsFiniteSet(T) /\ Cardinality(T) <= Cardinality(S \cup {x})
  BY <1>1, <1>2, FS_Subset
<1>4. Cardinality(S) \in Nat /\ Cardinality(T) \in Nat
  BY <1>3, FS_CardinalityType
<1>5. QED BY <1>1, <1>3, <1>4

\* A request that gives a row a key is counted among its writers.
LEMMA CommitBalances ==
  ASSUME Inv, Inv', WritesOnce, NEW r \in Requests, NEW next, Commit(r, next),
         NEW tb \in Tables, NEW key \in Keys, NEW spare \in {0, 1}, AtMost(tb, key, spare)
  PROVE  Cardinality(Keyed(tables'[tb], key)) <= spare + Cardinality(Writers(tb, key)')
<1>1. /\ pc[r] \in Early /\ job' = job
      /\ wrote' = [wrote EXCEPT ![r] = version[job[r].table] + 1]
  BY DEF Commit, Early
<1>2. job[r].table \in Tables
      /\ OneGets(tables[job[r].table], tables'[job[r].table], job[r].change.key)
      /\ \A t \in Tables : t # job[r].table => tables'[t] = tables[t]
  BY CommitKeys
<1>3. wrote \in [Requests -> Nat] /\ version[job[r].table] \in Nat
  BY <1>2 DEF Inv, TypeOK, DatabaseOK
<1>4. /\ wrote[r] = 0 /\ wrote'[r] # 0
      /\ \A q \in Requests : q # r => wrote'[q] = wrote[q]
  BY <1>1, <1>3 DEF WritesOnce
<1>5. tables[tb] \in Seq(Row) /\ tables'[tb] \in Seq(Row)
  BY DEF Inv, TypeOK, DatabaseOK
<1> DEFINE old == Keyed(tables[tb], key)
           new == Keyed(tables'[tb], key)
           writers == Writers(tb, key)
<1>6. /\ IsFiniteSet(old) /\ Cardinality(old) \in Nat
      /\ IsFiniteSet(new) /\ Cardinality(new) \in Nat
      /\ IsFiniteSet(writers) /\ Cardinality(writers) \in Nat
  BY <1>5, KeyedFinite, WritersFinite
<1>7. Cardinality(old) <= spare + Cardinality(writers)
  BY DEF AtMost
<1>8. CASE job[r].table = tb /\ job[r].change.key = key
  <2>1. PICK id : new \subseteq old \cup {id}
    BY <1>2, <1>8 DEF OneGets
  <2>2. Cardinality(new) <= Cardinality(old) + 1
    BY <1>6, <2>1, OneMore
  <2>3. r \notin writers /\ Writers(tb, key)' = writers \cup {r}
    BY <1>1, <1>4, <1>8 DEF Writers
  <2>4. Cardinality(Writers(tb, key)') = Cardinality(writers) + 1
    BY <1>6, <2>3, FS_AddElement
  <2>5. QED BY <1>6, <1>7, <2>2, <2>4
<1>9. CASE ~(job[r].table = tb /\ job[r].change.key = key)
  <2>1. new \in SUBSET old
    BY <1>2, <1>9 DEF OneGets
  <2>2. Cardinality(new) <= Cardinality(old)
    BY <1>6, <2>1, FS_Subset
  <2>3. Writers(tb, key)' = writers
    BY <1>1, <1>4, <1>9 DEF Writers
  <2>4. QED BY <1>6, <1>7, <2>2, <2>3
<1>10. QED BY <1>8, <1>9

\* The upsert adds its item only where none is, but for those of requests.
LEMMA UpsertStaysBounded ==
  ASSUME Inv, Inv', Bounded, Pending, SeedUpsert
  PROVE  Bounded'
<1> SUFFICES ASSUME NEW tb \in Tables, NEW key \in Keys
             PROVE  AtMost(tb, key, 1)'
  BY DEF Bounded
<1>1. wrote' = wrote /\ job' = job
  BY DEF SeedUpsert
<1>2. Writers(tb, key)' = Writers(tb, key)
  BY <1>1 DEF Writers
<1>3. tables[tb] \in Seq(Row) /\ tables'[tb] \in Seq(Row)
  BY DEF Inv, TypeOK, DatabaseOK
<1> DEFINE old == Keyed(tables[tb], key)
           new == Keyed(tables'[tb], key)
           writers == Writers(tb, key)
<1>4. /\ IsFiniteSet(old) /\ Cardinality(old) \in Nat
      /\ IsFiniteSet(new) /\ Cardinality(new) \in Nat
      /\ Cardinality(writers) \in Nat
  BY <1>3, KeyedFinite, WritersFinite
<1>5. Cardinality(old) <= 1 + Cardinality(writers)
  BY DEF Bounded, AtMost
<1>6. CASE new \subseteq old
  <2>1. new \in SUBSET old
    BY <1>6
  <2>2. Cardinality(new) <= Cardinality(old)
    BY <1>4, <2>1, FS_Subset
  <2>3. QED BY <1>2, <1>4, <1>5, <2>2 DEF AtMost
<1>7. CASE ~(new \subseteq old)
  <2>1. /\ tb = SeedTable /\ key = SeedItem.key
        /\ OneGets(tables[tb], tables'[tb], key)
        /\ SeedTable = "rules" => seedFound # NotRead /\ seedFound = 0
        /\ SeedTable = "blacklist" => old = {}
    BY <1>7, UpsertKeys DEF OneGets
  <2>2. PICK id : new \subseteq old \cup {id}
    BY <2>1 DEF OneGets
  <2>3. Cardinality(new) <= Cardinality(old) + 1
    BY <1>4, <2>2, OneMore
  <2>4. Cardinality(old) <= Cardinality(writers)
    <3>1. CASE SeedTable = "rules"
      BY <1>4, <2>1, <3>1 DEF Pending, AtMost
    <3>2. CASE SeedTable = "blacklist"
      BY <1>4, <2>1, <3>2, FS_EmptySet
    <3>3. QED BY <3>1, <3>2 DEF SeedTable
  <2>5. QED BY <1>2, <1>4, <2>3, <2>4 DEF AtMost
<1>8. QED BY <1>6, <1>7

LEMMA BoundedStep ==
  ASSUME Inv, Inv', WritesOnce, Bounded, Pending, [Next]_vars
  PROVE  Bounded' /\ Pending'
<1>0. "rules" \in Tables /\ (seedAt # 0 => SeedItem.key \in Keys)
  <2>1. seedAt # 0 => SeedItem \in Row
    BY SeedPlaces
  <2>2. QED BY <2>1 DEF Tables, Row
<1>1. ASSUME NEW r \in Requests, NEW next, Commit(r, next)
      PROVE  Bounded' /\ Pending'
  <2>1. UNCHANGED <<seedAt, seedFound>>
    BY <1>1 DEF Commit
  <2>2. SeedTable' = SeedTable /\ SeedItem' = SeedItem
    BY <2>1 DEF SeedTable, SeedItem
  <2>3. Bounded'
    BY <1>1, CommitBalances DEF Bounded, AtMost
  <2>4. ASSUME seedFound # NotRead, seedFound = 0
        PROVE  AtMost("rules", SeedItem.key, 0)'
    <3>1. seedAt # 0 /\ AtMost("rules", SeedItem.key, 0)
      BY <2>4 DEF Pending
    <3>2. PICK key \in Keys : key = SeedItem.key
      BY <1>0, <3>1
    <3>3. Cardinality(Keyed(tables'["rules"], key)) <= 0 + Cardinality(Writers("rules", key)')
      BY <1>0, <1>1, <3>1, <3>2, CommitBalances
    <3>4. QED BY <2>2, <3>2, <3>3 DEF AtMost, Writers
  <2>5. QED BY <2>1, <2>2, <2>3, <2>4 DEF Pending
<1>2. ASSUME UNCHANGED <<tables, wrote>>, \A r \in Requests : wrote[r] # 0 => job'[r] = job[r]
      PROVE  Bounded' /\ \A tb, key, spare : AtMost(tb, key, spare) => AtMost(tb, key, spare)'
  <2>1. \A tb, key : Writers(tb, key)' = Writers(tb, key)
    BY <1>2 DEF Writers
  <2>2. QED BY <1>2, <2>1 DEF Bounded, AtMost
<1>3. CASE SeedStart \/ SeedFail
  <2>1. UNCHANGED <<tables, wrote, job>> /\ seedFound' = NotRead
    BY <1>3 DEF SeedStart, SeedFail
  <2>2. QED BY <1>2, <2>1 DEF Pending
<1>4. CASE SeedFind
  <2>1. /\ seedAt # 0 /\ SeedTable = "rules"
        /\ \/ seedFound' \in WithKey("rules", SeedItem.key)
           \/ WithKey("rules", SeedItem.key) = {} /\ seedFound' = 0
        /\ UNCHANGED <<tables, wrote, job, seedAt>>
    BY <1>4 DEF SeedFind
  <2>2. SeedTable' = SeedTable /\ SeedItem' = SeedItem
    BY <2>1 DEF SeedTable, SeedItem
  <2>3. WithKey("rules", SeedItem.key) = Keyed(tables["rules"], SeedItem.key)
    BY DEF WithKey, Keyed
  <2>4. 0 \notin Keyed(tables["rules"], SeedItem.key)
    <3>1. tables["rules"] \in Seq(Row)
      BY <1>0 DEF Inv, TypeOK, DatabaseOK
    <3>2. QED BY <3>1 DEF Keyed
  <2>5. ASSUME seedFound' = 0
        PROVE  AtMost("rules", SeedItem.key, 0)'
    <3>1. Cardinality(Keyed(tables["rules"], SeedItem.key)) = 0
      BY <2>1, <2>3, <2>4, <2>5, FS_EmptySet
    <3>2. Cardinality(Writers("rules", SeedItem.key)) \in Nat
      BY WritersFinite
    <3>3. AtMost("rules", SeedItem.key, 0)
      BY <3>1, <3>2 DEF AtMost
    <3>4. QED BY <2>1, <2>2, <3>3 DEF AtMost, Writers
  <2>6. QED BY <1>2, <2>1, <2>2, <2>5 DEF Pending
<1>5. CASE SeedUpsert
  <2>1. seedFound' = NotRead
    BY <1>5 DEF SeedUpsert
  <2>2. QED BY <1>5, <2>1, UpsertStaysBounded DEF Pending
<1>6. CASE /\ UNCHANGED <<tables, wrote, seedAt, seedFound, quiet>>
           /\ \A r \in Requests : wrote[r] # 0 => job'[r] = job[r]
  <2>1. SeedTable' = SeedTable /\ SeedItem' = SeedItem
    BY <1>6 DEF SeedTable, SeedItem
  <2>2. \A tb, key : Writers(tb, key)' = Writers(tb, key)
    BY <1>6 DEF Writers
  <2>3. QED BY <1>2, <1>6, <2>1, <2>2 DEF Pending, AtMost, Writers
<1>7. QED BY <1>1, <1>3, <1>4, <1>5, <1>6, OtherSteps DEF Seed

\* The tables to begin with have no pattern and no keyword twice.
UniqueKeys(table) == \A i, j \in DOMAIN table : table[i].key = table[j].key => i = j
InitialUnique == \A initial \in Initial : \A tb \in Tables : UniqueKeys(initial[tb])

LEMMA UniqueIsBounded ==
  ASSUME InitialUnique, Init
  PROVE  Bounded
<1> SUFFICES ASSUME NEW tb \in Tables, NEW key \in Keys
             PROVE  AtMost(tb, key, 1)
  BY DEF Bounded
<1> DEFINE rows == Keyed(tables[tb], key)
<1>1. \A i, j \in rows : i = j
  BY DEF InitialUnique, UniqueKeys, Keyed, Init
<1>2. Cardinality(rows) = 0 \/ Cardinality(rows) = 1
  <2>1. CASE rows = {}
    BY <2>1, FS_EmptySet
  <2>2. CASE rows # {}
    <3>1. PICK i : rows = {i}
      BY <1>1, <2>2
    <3>2. QED BY <3>1, FS_Singleton
  <2>3. QED BY <2>1, <2>2
<1>3. Cardinality(Writers(tb, key)) \in Nat
  BY WritersFinite
<1>4. QED BY <1>2, <1>3 DEF AtMost

\* However often the seed runs and wherever it stops, and whatever requests write
\* between its two queries for a rule, a pattern or a keyword that was there once
\* has at most as many rows more as requests wrote it.
THEOREM SeedAddsNothingTwice == InitialUnique => (Spec => []SeedNeverDuplicates)
<1> SUFFICES ASSUME InitialUnique
             PROVE  Spec => []SeedNeverDuplicates
  OBVIOUS
<1>1. Init => WritesOnce /\ Bounded /\ Pending
  BY UniqueIsBounded DEF Init, WritesOnce, Pending
<1>2. /\ Inv /\ WritesOnce /\ [Next]_vars => WritesOnce'
      /\ Inv /\ Inv' /\ WritesOnce /\ Bounded /\ Pending /\ [Next]_vars => Bounded' /\ Pending'
  BY WritesOnceStep, BoundedStep
<1>3. Bounded => SeedNeverDuplicates
  BY DEF Bounded, AtMost, Keyed, WithKey, SeedNeverDuplicates
<1>4. QED BY <1>1, <1>2, <1>3, Invariance, PTL DEF Spec
=============================================================================
