----------------------------- MODULE Knowledge -----------------------------
(***************************************************************************)
(* The knowledge base under the admin API (admin-knowledge.service.ts,     *)
(* knowledge.repository.ts), while turns of the chat retrieve from it      *)
(* (PostgresRetrievalService.retrieve, and steps 6 and 7 of the pipeline). *)
(* A retrieval is up to four queries, each of which may see other          *)
(* contents: the message's language, then any language, and for each the   *)
(* pg_trgm query and, when that fails, the ILIKE query.                    *)
(*                                                                         *)
(* A mutation is one UPDATE or INSERT.  If it is refused nothing changes;  *)
(* if it is not acknowledged the effect is the same: the administrator is  *)
(* told 404 in either case (the repository's catch), which nothing here    *)
(* depends on.  All turns ask the same message, of which extractTerms()    *)
(* finds more or fewer terms by the turn's language; what an entry's text  *)
(* has to do with it is a record of Retrieval.                             *)
(***************************************************************************)
EXTENDS Retrieval, FiniteSets, SequencesExt

CONSTANTS
  Entries,          \* ids of knowledge entries
  Turns,            \* turns that retrieve
  Languages,        \* languages of entries and of turns
  Texts,            \* the texts an entry may have
  Statuses,         \* the values administrators give to 'status'
  Terms,            \* how many terms the message may have
  Limits,           \* the limits a turn may ask for (the pipeline: 5)
  MinimumScore,     \* SystemConfig 'rag_minimum_score', in hundredths
  AnswerThreshold,  \* SystemConfig 'rag_answer_threshold', in hundredths
  QueriesFail,      \* whether queries can fail
  MaxMutations      \* bound: mutations of the administrators

ASSUME KnowledgeAssumption ==
  /\ IsFiniteSet(Entries)
  /\ Languages # {} /\ Terms # {} /\ Limits # {}
  /\ Texts \subseteq Text
  /\ {"draft", "approved"} \subseteq Statuses
  /\ Terms \subseteq Nat
  /\ Limits \subseteq Nat \ {0}
  /\ {MinimumScore, AnswerThreshold} \subseteq Nat
  /\ QueriesFail \in BOOLEAN
  /\ MaxMutations \in Nat

VARIABLES
  entries,      \* the table: a function on the ids created so far
  clock,        \* mutations so far, the time of the last one
  trgmEnabled,  \* the environment's PG_TRGM_ENABLED
  pc,           \* pc[t]: whether turn t awaits a query, or how its retrieval ended
  at,           \* at[t]: the pass and the strategy of that query
  query,        \* query[t]: language, number of terms, intent detected or not, limit
  results,      \* results[t]: ctx.ragResults
  flagged,      \* flagged[t]: ctx.isCrossLanguageFallback
  confidence,   \* confidence[t]: ctx.confidenceLevel
  published,    \* published[t]: entries retrievable at some time since t began
  untouched,    \* untouched[t]: entries not mutated since t began
  gone          \* gone[t]: entries already deleted when t began

turnVars == <<pc, at, query, results, flagged, confidence>>
vars == <<entries, clock, trgmEnabled, turnVars, published, untouched, gone>>

Visibilities == {"public", "private"}
Entry ==
  [status: Statuses, visibility: Visibilities, deleted: BOOLEAN,
   language: Languages, text: Texts, updatedAt: Nat]
Query == [language: Languages, terms: Terms, intent: BOOLEAN, limit: Limits]
Result == [entry: Entries, text: Texts, language: Languages, base: 0..100, score: 0..100]
Retrieved == {"noHits", "prompted"}

TypeOK ==
  /\ DOMAIN entries \subseteq Entries /\ entries \in [DOMAIN entries -> Entry]
  /\ clock \in 0..MaxMutations
  /\ trgmEnabled \in BOOLEAN
  /\ pc \in [Turns -> {"idle", "querying", "failed"} \cup Retrieved]
  /\ at \in [Turns -> [pass: {"same", "cross"}, strategy: {"trgm", "ilike"}]]
  /\ query \in [Turns -> Query]
  /\ results \in [Turns -> Seq(Result)]
  /\ flagged \in [Turns -> BOOLEAN]
  /\ confidence \in [Turns -> {"none", "low", "high"}]
  /\ {published, untouched, gone} \subseteq [Turns -> SUBSET Entries]

\* The part of the WHERE clause that no caller can relax.
Retrievable(entry) ==
  /\ entry.status = "approved"
  /\ entry.visibility = "public"
  /\ ~entry.deleted

\* The seeds: some entries, approved and public.
Seeds ==
  {[status |-> "approved", visibility |-> "public", deleted |-> FALSE,
    language |-> language, text |-> text, updatedAt |-> 0] :
     language \in Languages, text \in Texts}

Init ==
  /\ entries \in UNION {[ids -> Seeds] : ids \in SUBSET Entries}
  /\ clock = 0
  /\ trgmEnabled \in BOOLEAN
  /\ pc = [t \in Turns |-> "idle"]
  /\ at = [t \in Turns |-> [pass |-> "same", strategy |-> "ilike"]]
  /\ query = [t \in Turns |-> CHOOSE asked \in Query : TRUE]
  /\ results = [t \in Turns |-> <<>>]
  /\ flagged = [t \in Turns |-> FALSE]
  /\ confidence = [t \in Turns |-> "none"]
  /\ published = [t \in Turns |-> {}]
  /\ untouched = [t \in Turns |-> {}]
  /\ gone = [t \in Turns |-> {}]

-----------------------------------------------------------------------------
\* A mutation sets the entry to 'entry' (@updatedAt is the time of it).
Mutate(e, entry) ==
  /\ clock < MaxMutations
  /\ clock' = clock + 1
  /\ entries' = [id \in DOMAIN entries \cup {e} |->
                   IF id = e THEN [entry EXCEPT !.updatedAt = clock + 1] ELSE entries[id]]
  /\ published' = [t \in Turns |-> IF Retrievable(entries'[e]) /\ pc[t] # "idle"
                                  THEN published[t] \cup {e} ELSE published[t]]
  /\ untouched' = [t \in Turns |-> untouched[t] \ {e}]
  /\ UNCHANGED <<trgmEnabled, turnVars, gone>>

\* POST admin/knowledge: always a private draft.
Create(e) ==
  /\ e \notin DOMAIN entries
  /\ \E language \in Languages, text \in Texts :
       Mutate(e, [status |-> "draft", visibility |-> "private",
                  deleted |-> FALSE, language |-> language, text |-> text, updatedAt |-> 0])

\* Mutant of Update: the row is written with its defaults for what the patch
\* does not say, and deletedAt has none.
UpdateWholeRow(e) ==
  /\ e \in DOMAIN entries
  /\ \E status \in Statuses, visibility \in Visibilities :
       Mutate(e, [entries[e] EXCEPT !.status = status, !.visibility = visibility,
                                    !.deleted = FALSE])

\* PATCH admin/knowledge/:id: any of the fields, of a deleted entry too.
Update(e) ==
  /\ e \in DOMAIN entries
  /\ \E status \in Statuses, visibility \in Visibilities, language \in Languages, text \in Texts :
       Mutate(e, [entries[e] EXCEPT !.status = status, !.visibility = visibility,
                                    !.language = language, !.text = text])

\* DELETE admin/knowledge/:id: deletedAt is set, again if it was set already.
SoftDelete(e) == e \in DOMAIN entries /\ Mutate(e, [entries[e] EXCEPT !.deleted = TRUE])

-----------------------------------------------------------------------------
Strategy == IF trgmEnabled THEN "trgm" ELSE "ilike"

\* retrieve() is called with a message, and sends the first query.
Retrieve(t) ==
  /\ pc[t] = "idle"
  /\ pc' = [pc EXCEPT ![t] = "querying"]
  /\ at' = [at EXCEPT ![t] = [pass |-> "same", strategy |-> Strategy]]
  /\ \E asked \in Query : query' = [query EXCEPT ![t] = asked]
  /\ published' = [published EXCEPT ![t] = {e \in DOMAIN entries : Retrievable(entries[e])}]
  /\ untouched' = [untouched EXCEPT ![t] = Entries]
  /\ gone' = [gone EXCEPT ![t] = {e \in DOMAIN entries : entries[e].deleted}]
  /\ UNCHANGED <<entries, clock, trgmEnabled, results, flagged, confidence>>

\* The normalised message is empty: [] without a query.
RetrieveBlank(t) ==
  /\ pc[t] = "idle"
  /\ pc' = [pc EXCEPT ![t] = "noHits"]
  /\ UNCHANGED <<entries, clock, trgmEnabled, at, query, results, flagged, confidence,
                 published, untouched, gone>>

\* Mutant of Selected: the visibility clause is missing.
SelectedByStatus(t) ==
  {e \in DOMAIN entries :
     /\ entries[e].status = "approved" /\ ~entries[e].deleted
     /\ Hit(at[t].strategy, entries[e].text)
     /\ query[t].intent => entries[e].text.labelled
     /\ at[t].pass = "same" => entries[e].language = query[t].language}

\* The WHERE clause of the query t awaits.
Selected(t) ==
  {e \in DOMAIN entries :
     /\ Retrievable(entries[e])
     /\ Hit(at[t].strategy, entries[e].text)
     /\ query[t].intent => entries[e].text.labelled
     /\ at[t].pass = "same" => entries[e].language = query[t].language}

\* ORDER BY: pg_trgm by score alone, ILIKE by score and then the latest update.
InOrder(strategy, e, f) ==
  LET score(g) == Score(strategy, entries[g].text)
  IN \/ score(e) > score(f)
     \/ /\ score(e) = score(f)
        /\ strategy = "ilike" => entries[e].updatedAt >= entries[f].updatedAt

\* The row of an entry, copied into the answer with its score.
Row(strategy, e) ==
  [entry |-> e, text |-> entries[e].text, language |-> entries[e].language,
   base |-> Score(strategy, entries[e].text), score |-> Score(strategy, entries[e].text)]

\* What the query may answer: ordered, and cut at the limit.
Answers(t) ==
  {[i \in 1..Smaller(query[t].limit, Cardinality(Selected(t))) |-> Row(at[t].strategy, ids[i])] :
     ids \in {ids \in SetToSeqs(Selected(t)) :
               \A i, j \in DOMAIN ids : i < j => InOrder(at[t].strategy, ids[i], ids[j])}}

\* Step 7: no hits or too low a score, a cautious prompt, or a normal one.
Evaluate(t, found) ==
  LET top == IF found = <<>> THEN 0 ELSE found[1].score
      enough == found # <<>> /\ top >= MinimumScore
  IN /\ pc' = [pc EXCEPT ![t] = IF enough THEN "prompted" ELSE "noHits"]
     /\ confidence' = [confidence EXCEPT ![t] =
          IF ~enough THEN "none" ELSE IF top < AnswerThreshold THEN "low" ELSE "high"]

\* The query answers.  Nothing in the message's language: the second pass.
Answer(t) ==
  /\ pc[t] = "querying"
  /\ IF Selected(t) = {} /\ at[t].pass = "same"
     THEN /\ at' = [at EXCEPT ![t] = [pass |-> "cross", strategy |-> Strategy]]
          /\ UNCHANGED <<pc, results, flagged, confidence>>
     ELSE \E answer \in Answers(t) : \E found \in Rerank(query[t].terms, answer) :
            /\ results' = [results EXCEPT ![t] = found]
            /\ flagged' = [flagged EXCEPT ![t] = found # <<>> /\ at[t].pass = "cross"]
            /\ Evaluate(t, found)
            /\ UNCHANGED at
  /\ UNCHANGED <<entries, clock, trgmEnabled, query, published, untouched, gone>>

\* Mutant of Fail: a failed pg_trgm query is taken for one without hits.
FailEmpty(t) ==
  /\ QueriesFail
  /\ pc[t] = "querying"
  /\ IF at[t].strategy = "trgm" /\ at[t].pass = "same"
     THEN at' = [at EXCEPT ![t].pass = "cross"] /\ UNCHANGED pc
     ELSE pc' = [pc EXCEPT ![t] = "failed"] /\ UNCHANGED at
  /\ UNCHANGED <<entries, clock, trgmEnabled, query, results, flagged, confidence,
                 published, untouched, gone>>

\* The query fails: pg_trgm falls back to ILIKE, ILIKE's exception leaves
\* retrieve() (it may be that pg_trgm is not installed).
Fail(t) ==
  /\ QueriesFail
  /\ pc[t] = "querying"
  /\ IF at[t].strategy = "trgm"
     THEN at' = [at EXCEPT ![t].strategy = "ilike"] /\ UNCHANGED pc
     ELSE pc' = [pc EXCEPT ![t] = "failed"] /\ UNCHANGED at
  /\ UNCHANGED <<entries, clock, trgmEnabled, query, results, flagged, confidence,
                 published, untouched, gone>>

Next ==
  \/ \E e \in Entries : Create(e) \/ Update(e) \/ SoftDelete(e)
  \/ \E t \in Turns : Retrieve(t) \/ RetrieveBlank(t) \/ Answer(t) \/ Fail(t)

Spec == Init /\ [][Next]_vars

-----------------------------------------------------------------------------
Found(t) == {results[t][i].entry : i \in DOMAIN results[t]}

\* Whatever administrators publish, withdraw, change and delete between the
\* queries of a retrieval, by whichever pass and strategy an entry was found:
\* it was approved, public and not deleted at some time since the retrieval
\* began (the SQL of both strategies enforces it).
OnlyPublished == \A t \in Turns : Found(t) \subseteq published[t]

\* A deleted entry does not come back, although PATCH accepts it and may set it
\* to approved and public: no turn that begins after the deletion finds it.
DeletedIsFinal == \A t \in Turns : Found(t) \cap gone[t] = {}

\* An entry in the message's language that is retrievable, untouched, and a
\* hit of both strategies keeps a retrieval from falling back to other
\* languages, and is left out only for entries with a base score as good, when
\* the limit is reached: a failure of pg_trgm loses nothing.
Steady(t) ==
  {e \in untouched[t] \cap DOMAIN entries :
     /\ Retrievable(entries[e])
     /\ entries[e].language = query[t].language
     /\ query[t].intent => entries[e].text.labelled
     /\ TrgmHit(entries[e].text) /\ IlikeHit(entries[e].text)}
NothingMissed ==
  \A t \in Turns : pc[t] \in Retrieved =>
    \A e \in Steady(t) :
      /\ ~flagged[t]
      /\ \/ e \in Found(t)
         \/ /\ Len(results[t]) = query[t].limit
            /\ \A i \in DOMAIN results[t] :
                 results[t][i].base >= Score(at[t].strategy, entries[e].text)

\* The confidence of an answer is judged on the best of its results: after the
\* bonuses of the terms, which can put an entry before one with a higher base
\* score, results are still in order, and no entry occurs twice.
BestFirst ==
  \A t \in Turns :
    /\ \A i, j \in DOMAIN results[t] :
         i < j => /\ results[t][i].score >= results[t][j].score
                  /\ results[t][i].entry # results[t][j].entry
    /\ \A i \in DOMAIN results[t] :
         /\ confidence[t] = "high" => results[t][1].score >= AnswerThreshold
         /\ confidence[t] = "low" => results[t][i].score < AnswerThreshold
         /\ pc[t] = "noHits" => results[t][i].score < MinimumScore
=============================================================================
