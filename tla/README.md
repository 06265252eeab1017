# A TLA+ model of the chatbot back end

The repository is a NestJS service that answers visitors' questions over
Server-Sent Events: a message is checked by safety rules, a prompt is built from
the conversation and the knowledge base, and an LLM streams the answer. This
directory models its stateful core in TLA+, model-checks it with TLC, and proves
theorems about it with TLAPS. File names below are relative to `src/src/` of the
repository unless they say otherwise.

## The system

One Node process runs every request. A handler runs without interruption between
two `await`s, so requests interleave at awaits only. PostgreSQL (through Prisma)
holds everything durable; every query is a statement of its own, there is no
transaction that spans two of them in the modelled paths. Four services keep
state in process memory, which a restart loses.

| Component | State | Operations | Talks to |
|---|---|---|---|
| Chat controller (`chat/chat.controller.ts`) | per request: abort controller, `close` listener | `createSession`, `sendMessage`, `getHistory`, `handoff` (stub) | conversation store, pipeline |
| Chat pipeline (`chat/chat-pipeline.service.ts`) | per turn: `fullContent`, the chunks' metadata, the position in `run()` | `run()` with the degraded path, refusals, no-answer path, LLM path | everything below |
| Conversation store (`conversation/*`) | sessions, rows, `type`, `sensitiveIntentCount` | `createSession`, `addMessage`, `getHistoryByToken`, `updateConversation`, `incrementSensitiveIntentCount` | database |
| Audit log (`audit/*`) | append-only events | `log()`, which never throws | database |
| AI status breaker (`health/ai-status.service.ts`) | `degraded`, `consecutiveFailures` in memory | `recordFailure`, `recordSuccess`, `isDegraded` | called by the pipeline |
| LLM providers (`llm/*`) | per call: a timer and a combined abort signal for each model | `stream()`: primary, fallback, handoff message; `chat()` (no caller) | OpenAI client |
| Safety (`safety/*`, `admin/safety/*`) | rules and blacklist in the database, a cache of both in memory | `scanPrompt`, `checkConfidentiality`, `invalidateCache`; six admin mutations | database, audit, seed script |
| Intent (`intent/*`) | templates and glossary, cached | `detect`, glossary expansion | retrieval |
| Knowledge (`knowledge/*`, `admin/knowledge/*`) | entries with status, visibility, language, `deletedAt` | create (always a private draft), partial update (status and visibility included), soft delete, `findForRetrieval` | retrieval |
| Retrieval (`retrieval/*`) | none | normalise, score, rank, fall back across languages | knowledge, intent |
| Prompt builder (`chat/prompt-builder.ts`) | none | builds the messages, cutting the history to the token budget | pipeline |
| Seed script (`../prisma/seeds/*`) | none (a process of its own) | writes its lists into the tables, again at each run | database |
| Configuration (`system-config/*`, `widget-config/*`) | cached key/value pairs | read, `invalidateCache` (no caller: the admin routes answer 501) | everything |
| HTTP and persistence shell | none | health probes, filters, interceptors, throttling, validation | – |

What is hard here, and what makes each part correct:

* **Overlapping turns.** Two turns of one conversation interleave at some ten
  awaits each. Rows of a turn must be stored once, in order; the history read for
  a prompt must hold what the client saw answered and not the question itself;
  counts returned by the atomic increment must be distinct, so that each alert
  level is raised once.
* **Partial failure.** A turn is up to seven writes with no transaction. Whatever
  fails, what the client is told, what is stored and what is audited have to agree.
* **The response.** Five helpers and two catches can end the response. It must
  carry one terminal event, after which nothing is written, and should not end
  without one.
* **The breaker** is read at the start of a turn and written at its end; meanwhile
  other turns report. Its two fields must agree, and its recovery is a matter of
  who may still report.
* **Disconnects and timers.** A disconnect can fall at any await, together with
  the timer of either model; an abandoned answer must not be stored as an answer.
* **Retrieval against administration.** A retrieval is up to four queries, between
  which entries are withdrawn, changed and deleted. It must show published entries
  only, lose none that stayed a hit, and put the best first.
* **Caches.** A reload that is overtaken by another one may install old rules.
* **Rules.** Two checks share the rows of the blacklist, and patterns that are no
  regular expressions sit among the rules: every active row must be enforced by
  one of the checks, whatever else is stored.
* **Restarts and the seed.** A restart loses the breaker and the caches and cuts every
  response. The seed script writes to the tables of a running server without telling
  it, and may stop halfway and be run again.
* **The token budget** is a matter of rounding and of limits at zero, and the history
  must be cut from its old end only.

`PROJECT.json` lists these as hazards, each at the line where it bites and with
the properties that cover it.

## Modules

| Module | Models | Kind |
|---|---|---|
| `SseStream` | what the endpoint promises of a response: opened once, closed by one terminal event, or cut | abstract specification |
| `AiStatus` | the breaker and the protocol of those who use it | component, and abstract specification for the pipeline |
| `LlmStream` | what a turn and the stream of its LLM provider promise each other: asked once, tokens until the signal fires, an answer only if it finished before that | abstract specification |
| `ChatPipeline` | `sendMessage` and the whole of `run()`, the conversation store, the audit log, the breaker; many turns at once | detailed specification |
| `OpenAiProvider` | `stream()` and the loop that consumes it, composed with `AiStatus` | detailed specification |
| `SafetyScan` | `scanPrompt`, `checkConfidentiality` and what steps 3 and 4 make of them, on cached rows | operators |
| `SafetyCache` | the two safety tables and their cache under overlapping admin mutations, restarts and the seed script | component, uses `SafetyScan` |
| `Intent` | `detect` with the glossary and the order of the templates | operators |
| `AnswerPreparation` | what a turn computes before the LLM is called: the label (step 5) and the prompt (step 8), the loop of `truncateHistory` round by round | component, uses `Intent` |
| `Retrieval` | the scores and the ranking of `PostgresRetrievalService`, both strategies | operators |
| `Knowledge` | the entries under the admin API, and turns that retrieve from them and judge the result | component, uses `Retrieval` |
| `MCSafetyCache` | rows, requests, seed lists and messages of the runs, and the symmetry of requests | TLC only |
| `MCAnswerPreparation` | the words, templates, glossary and lengths of the run | TLC only |
| `MCKnowledge` | the texts and languages of the run, and the symmetry of entries | TLC only |
| `MCChatPipeline` | gives `ChatPipeline`'s function constant a value, and the symmetry of turns | TLC only |
| `AiStatusProofs`, `SseStreamProofs`, `ChatPipelineProofs`, `ChatPipelineRefinement`, `OpenAiProviderProofs`, `KnowledgeProofs`, `SafetyCacheProofs`, `AnswerPreparationProofs` | theorems | TLAPS |

`ChatPipeline` implements `SseStream`, `AiStatus` and `LlmStream`: the refinement
mappings are `StreamState` (from the position of the turn), `InFlight` (the positions
from which a turn may still report), and `StreamPhase` with `content` (how far the turn
has come with its stream, and the tokens it took). `SseSpec`, `AiStatusSpec` and
`LlmSpec` are checked as properties, and proved in `ChatPipelineRefinement`.
`OpenAiProvider` is composed with `AiStatus` instead: its actions are
conjunctions with the breaker's `Enter`, `Leave` and `RecordSuccess`. It implements
`LlmStream` too (its own `LlmSpec`, proved in `OpenAiProviderProofs`), with `Faults`
empty, where the pipeline allows streams that throw and a process that stops: the two
detailed specifications meet in this contract, each on its side of it. The verdict
that `ChatPipeline` chooses freely is what `Verdict` of `SafetyScan` computes from the
cache of `SafetyCache`; the label and the prompt do not steer a turn.

### How the models correspond to the code

*An action is one await*: the effect of the awaited call, then the synchronous
code up to the next await. `pc[t]` (in `OpenAiProvider`, `at[c]`) names the call
that is awaited. `PROJECT.json` maps each definition to its lines.

*Queries fail in three ways* (constant `DbFaults`): `"refused"`, nothing is written
and the caller sees an exception; `"unacked"`, the write is committed and the
caller sees an exception all the same (the connection is lost after the commit);
`"unlogged"`, an insert into the audit log fails, which `auditService.log()`
swallows, so that nobody sees it. A read that fails just throws.

*Streams fail in three ways* (constant `LlmFaults`): `"timeout"`, an
`LlmTimeoutError`; `"error"`, any other one; `"abort_error"`, one whose code is
`ABORT_ERR` while the signal has not fired. The last ends the turn as interrupted,
like a disconnect, and reports nothing to the breaker.

*Data is reduced to the branch it leads to.* Texts, scores, languages and
categories are a `verdict`; an LLM answer is the number of its chunks; a row keeps
the columns that the properties tell apart; the audit log is a set of pairs of a
turn and an event type.

*Auxiliary state.* `known` (which turns the client had seen answered when it sent
this one), `received` (where each token came from), `wrote`, `serial`, `reloaded`,
`published`, `untouched` and `gone`, the `version` of a table and of what was read of
it, `quiet` (in `SafetyCache`) and `kept` (in `AnswerPreparation`) record facts for the
properties; no guard reads them.

*The start of the server* is a client of `SafetyCache`, `Boot`, whose only call is the
reload of `onModuleInit()`; no request is served before it has succeeded. A restart
ends every request where it is: a mutation that was sent but is not yet committed is
taken as lost. The seed is a process of its own, which finds and upserts item by item
and stops at the first query that fails.

*Messages and rows.* To the safety checks a message is the set of keys that
`includes()` finds in it and the set of those that match as regular expressions; both
steps of a turn see one cache, as nothing but a microtask lies between them. To
`Intent` a text is the set of words found in it. To the prompt builder a text is its
length.

*External parts.* The OpenAI client is modelled as `stream()` uses it: a pending
call is rejected when its signal fires, or the iteration ends early, and buffered
chunks may still come. The database is the effects above. In `Retrieval`, what a
text has to do with the message (`similarity()`, the columns that contain it, how
many of its terms are found) is a record, from which scores, bonuses and order are
computed as the SQL and `rerankWithTerms()` do, in hundredths; PostgreSQL may put
rows of equal rank in any order, JavaScript's sort keeps it.

`ChatPipeline` is written against the interface `ILlmProvider`, whose streams may
throw `LlmTimeoutError` or any other error. With the one production provider they
never do, because `OpenAiProvider.stream()` catches both: `OpenAiProvider` shows
this by implementing `LlmSpec` with no faults, and the run `provider_timeouts` shows
what it does to the breaker. The pipeline's branches for failed streams are
therefore checked as the code's own error handling, not as what happens today.

## Runs

| Run | Question | Bounds |
|---|---|---|
| `aistatus` | Do flag and counter agree in every order of reports; how far can the counter overshoot? | 5 turns, threshold 3 |
| `pipeline_faults` | Do rows, responses, audit events and what the breaker is told agree under every fault; does the pipeline implement `SseStream`, `AiStatus` and `LlmStream`? | 2 turns of one session, all six verdicts, all query faults, all LLM faults, 1 chunk, 1 restart |
| `pipeline_live` | Does every turn stop, and is each admitted one told how it ended; with a log that can be written, is each alert level raised once and each answer and timeout recorded? | 2 turns of one session, sensitive, confidential or answered, refused queries, all LLM faults, alert threshold 2, disconnects |
| `provider` | Is the model on record the one that spoke; can an abandoned call be stored; does a call end when the LLM service is silent; does the provider implement `LlmStream`? | 2 calls, 1 chunk for each model, threshold 1 |
| `safety_cache` | Is an answered mutation in the cache; is a reload without overlap fresh, and is every active row then in force; may the seed be stopped, run again and overlapped by mutations? | 2 requests of 5 jobs, empty tables or 2 rules (one malformed, one disabled) and 1 entry, 2 seed runs of 1 rule and 1 entry, 1 restart, both query faults, the 8 messages over 3 keys |
| `knowledge` | What may a turn be shown while entries change; is anything lost when pg_trgm fails; is the first result the best? | 2 entries, 1 turn, 3 texts, 2 languages, 2 mutations, limits 1 and 2, query failures |
| `preparation` | Does a message get the label of the first template in the order of priorities, and does the glossary only add; is the history cut to the longest end that fits? | any of 3 templates and 2 glossary rows, any message over 5 words, up to 4 history rows of 0, 3 or 4 characters, limits absent, 0, 8 and 9 tokens |
| five `violation` runs | see Findings | 2 turns or requests; for `provider_timeouts` 3 calls, threshold 3 |

Why these bounds suffice. Every property of the pipeline relates one turn with
one other turn, or with the store; two turns of the same session are enough for
each such pair, and every fault can hit either at every await. What more turns add
is counting. With two turns and a threshold of two there is an alert level below the
threshold and one at it; for those above, and for any number of turns,
`EveryLevelDoesAlert` is proved. The breaker's overshoot has five turns and a
threshold of three: two reports after it has opened. Turns of different sessions
share the breaker only, which `aistatus` and the refinement cover. One chunk tells
an empty answer from one with text, and allows a disconnect or a failure before and
after it. `HistoryLimit` is larger than the rows two turns can write, except in
`pipeline_history`, where it is one. One restart is enough: it returns the process
memory to its initial value, and the turns it kills stay dead. In `SafetyCache` a
reload reads whole tables, and the first rule of a message is a matter of pairs: two
rules (the malformed one first), one of which the seed knows and an administrator has
disabled, and one entry whose kind the seed and requests change. Two requests are the
least that overlap, and two seed runs the least of which the second finds what the
first left; a restart, of which one is enough, may fall anywhere. In
`AnswerPreparation` three templates give two priorities and a tie, two glossary rows
a chain of synonyms, a compound word the synonym that holds a keyword;
lengths of 0, 3 and 4 characters are no token, one, and one that is rounded up to two,
and the limits are around the size of four rows. In `Knowledge` turns
do not touch each other's state, so one is enough; two entries are the least that
can be out of order or compete for a limit of one; two mutations are an entry that
is deleted and then published again, one that is created (a private draft) and then
published, or two that fall between two queries. The three texts
are a hit that the terms' bonuses lift above a better base score, that better one,
and a weak one that only pg_trgm finds and the minimum score rejects; the seeds may
be of any of them, in either language.

The symmetry of turns is used in `pipeline_faults`, which checks safety and step
properties only, that of entries in `knowledge`, that of requests in
`safety_cache`, and none in a run that checks liveness.

`CHECK_DEADLOCK FALSE` is set for the modules whose turns, calls or requests are a
finite batch: when all have stopped there is nothing left to do. `AiStatus` never
stops, and deadlock is checked there.

### Fairness

* `ChatPipeline!FairSpec`: weak fairness of each turn's server steps. The event
  loop runs every callback, each query answers or fails, and each LLM call has a
  timer (`EveryCallEnds` shows that for the provider). Nothing is assumed of
  visitors (they may never send, and may close or not) or of restarts.
* `OpenAiProvider!FairSpec`: timers fire, the client rejects a call whose signal
  has fired, the answer is stored. Nothing is assumed of the LLM service.

## Findings

Each is a run that TLC must find violated.

* `pipeline_silent`: the degraded path is awaited outside the `try` of `run()`;
  when one of its inserts fails the client gets no terminal event (FR-007).
* `pipeline_history`: `getHistory()` returns the oldest rows of a long session,
  its comment says the most recent.
* `pipeline_disconnect`: the `close` listener is registered after the session
  lookup; a client that leaves during the lookup is not noticed (FR-004b).
* `safety_cache_stale`: of two overlapping reloads the older can be assigned last
  and stay.
* `provider_timeouts`: task.md:309 (T2-009) expects the degraded state after three
  timeouts of the LLM in a row. The provider turns them into a delivered handoff
  message, which the pipeline stores and reports as a success, so no number of
  timeouts opens the breaker.

These are disagreements between text and code without a run, since the code does what
it does in one place and no interleaving is needed to see it:

* design.md:840 says that the degraded state ends with the next LLM call that
  succeeds. No call begins while it lasts, and `setDegraded()` has no caller: only a
  turn that was in flight before, or a restart, ends it (the guard of `Enter` in
  `AiStatus`).
* plan.md:55 has the seed fill the tables initially, and design.md:644 has it decoupled
  from what administrators maintain afterwards. Each run of it updates the rows of its
  lists that exist with `isActive: true` and the seed's type
  (`../prisma/seeds/safety-rules.seed.ts:77`, `../prisma/seeds/blacklist.seed.ts:35`): what an
  administrator disabled or retyped is undone, and a running server is not told.
  `SeedUpsert` does so; the properties of the seed promise the presence of its rows, and
  leave open what an update should keep.
* `prompt-build-context.type.ts:18` calls `maxContextTokens` the maximum of the
  assembled prompt. It bounds the history: a fixed part (persona, knowledge entries,
  message) that is longer than the limit is sent as it is, which is the second case of
  `WithinBudget`.
* `intent.service.ts:88` says that a keyword must be found as an exact token; `detect()`
  calls `includes()` on the expanded text, as the comment of `expandWithGlossary()` says
  (substring matching). `Detect` matches substrings: in the run, the word `sealing kit`
  holds the keyword `seal`. `BestTemplate` takes what matches as given, and speaks of
  the order of priorities.
* The comment of `scanPrompt()` orders the detection by categories; rules are tried by
  id, so the category that is reported, and with it whether the turn counts as
  sensitive, is that of the oldest rule that matches (`ScanPrompt`).
* `widget-config.service.ts:63` says that the response reflects the database at once;
  it reflects what was loaded when the server started, and the breaker.

## Proofs

TLC's runs show the properties for the bounds above; these theorems hold for all
values of the constants that satisfy the modules' assumptions (any number of turns,
any thresholds and limits, any subset of the faults).

* `AiStatusProofs`: `TypeCorrect`; `DegradedIsConsistent` (the invariant is
  inductive once the type is known); `OvershootIsBounded`, where the bound on
  `consecutiveFailures + Cardinality(inFlight)` is not kept by `Enter` alone: it is
  strengthened with `DegradedConsistent`, as a closed breaker bounds the counter, and
  a report trades one turn in flight for at most one failure.
* `SseStreamProofs`: `OneTerminalAlways`. The invariant is inductive with the type;
  the work is in `ClosingEvents`, about the sequence that `Close` writes.
* `ChatPipelineProofs`: `TypeCorrect`, by lemmas for each *kind* of step (a step that
  only moves control, an insert, an audit write, an increment, a breaker report)
  which the branches of `run()` then cite; `DegradedIsConsistent`, from the lemma
  that only two kinds of step change the breaker: a turn the LLM failed reports a
  failure (`Fails`), one that stored its reply a success (`Succeeds`; `ReportMoves`);
  `SeenCountsAreDistinct`, from the lemma that every step leaves counts and
  `seenCount` alone or raises one count and hands out the new value, possibly to
  nobody (`CountMoves`). The conjunct `seenCount[t] <= sensitiveIntentCount[...]`
  is what makes distinctness inductive: a new count is above all that were handed out.
  `RowsAreInOrder`, `ResponseMatchesWhatIsStored` and `AuditMatchesWhatIsSaid` share one
  invariant, the *ledger* of a turn: which rows it has (none, its question, or both) by
  the step it is at, and what it has said, audited and collected by then. None of the
  three is inductive alone: that no second question is stored holds because a turn that
  is about to store one has none. Each kind of step is described once by what it does to
  a ledger, and the edges of `run()` cite that; a turn that does not move is spared.
  `ReportsMatchOutcomes` follows from it, too: a turn that is about to report a success
  has its reply stored (`SuccessIsStored`).
  `HistoryIsFaithful` adds what was read (`Recall`): a turn seen answered has both rows
  (from the ledger), a turn reads before it stores its question, and a history below the
  limit is the whole session. `EveryLevelDoesAlert`, for which queries may be
  refused but commits are acknowledged and the log can be written, counts, for each session, the turns
  that alert or have alerted (`AlertLedger`): an increment from the threshold on adds
  one, and an alert moves one from the first sort to the second.
* `ChatPipelineRefinement`: `ImplementsSseStream`, `ImplementsAiStatus` and
  `ImplementsLlmStream`. For the first two, each branch
  of `run()` is shown to move along an edge of a small table (`Edge`, `BreakerEdge`):
  between open steps with nothing or a token, or to the end with one of the endings;
  into the active steps only from the lookup with the breaker closed, and out of them
  with at most one report. The two refinements are then about that table, not about the
  pipeline. For the third the steps are divided into those before the stream, the
  stream, the answer and what is over: a turn walks from before the stream to anywhere
  but an answer (`ToStream`), leaves the stream for the answer only while its signal has
  not fired, and without one only if its client has gone or the stream has thrown
  (`StreamEnds`), and never comes back (`FromStream`). A disconnect must be a
  step of the contract, so it must not clear the signal. It assigns `FALSE` when it comes
  during the session lookup, hence the invariant `AbortedIsClosed`: a signal that has
  fired belongs to a connection that has closed, and no connection closes twice.
* `OpenAiProviderProofs`: `AbortIsFinal`, an action property, by
  cases on the ways out of the loop. `TypeCorrect` needs that a call in the client is at
  one of the two models (`Staged`): the handoff message is an attempt without a model.
  `ProvenanceIsRecorded` strengthens `AnswerProvenance` by what an answer may hold
  *while* it grows: nothing but the primary's text at the primary attempt, and no handoff
  message as long as a model is being asked. `ImplementsLlmStream` maps the three
  attempts and their retries to one phase: a rejection only moves on within it, or ends
  in the handoff message, which finishes the stream if the caller is still there.
* `SafetyCacheProofs`: `TypeCorrect`; `SerialReloadIsAlwaysFresh`, by an invariant
  (`SerialOK`) which says what a reload that nothing overlaps has read so far: each
  snapshot is that of the table now, since nobody else writes; `AnsweredStaysCached`,
  where overlaps are allowed and the argument is by versions instead: what a client
  reads after its own commit is at least as new as that commit (`ReadsOwnWrite`), and
  it is its own reading that it assigns; `VerdictAlwaysFollowsTables` from freshness,
  and from the facts about `SafetyScan` that a first rule exists when any matches and
  that the two checks divide the entries between them. The seed is overlapped by any writes of
  requests. `SeedIsAlwaysComplete` needs that none of them renames a row while the seed
  runs: then a row keeps its key (`KeysKept`), the row that `getOrReserveId()` found
  still has the key of the item when the upsert uses it (`FoundKept`), and the items
  before this one are in the tables (`Done`). `SeedAddsNothingTwice` assumes that the
  tables have no duplicates at first (`InitialUnique`) and lets requests do anything: a
  key has at most one row more than requests wrote, where an item that was looked up and
  not found is counted as a row already (`Pending`, `Bounded`); a request that inserts
  in that window pays for the duplicate itself (`CommitBalances`).
* `AnswerPreparationProofs`: `TypeCorrect`, where the ranges of `i` and `cutoff` need
  each other; `PromptWithinBudget`, whose invariant relates `kept` to `accumulated`
  (three characters to a token at most), `accumulated` to the budget, and the budget to
  the fixed part. The step of arithmetic is that rounding parts up separately is never
  less than rounding up their sum. `HistoryKeepsLongestEnd` has the invariant that both
  accumulators are sums over the end of the history the loop has walked (`EndKept`), and
  that the row at which it stopped would not have fitted. What a sum is comes from the
  recursion of `FoldLeft()`: `FoldExists` shows that its equation has a solution, and
  `FoldAdds` that the solution adds one row at a time; `EndsAddUp` and `EndSumsFall`
  carry that over to ends, of which a longer one has no smaller sum.
  `LabelIsOfBestTemplate` and `GlossaryHidesNothing` rest on the order of the templates:
  the number of rows ahead of a row is its place, places are a bijection, hence the
  sequence that the query returns exists (`OrderExists`) and the first hit in it is
  before all others (`DetectFindsFirst`); a template that would be detected alone is one
  that matches (`FoundAlone`). They use what the table guarantees, a unique
  id and a unique intent (`TemplateTable`): with two rows of one intent, a label would
  not tell which of them it comes from.
* `KnowledgeProofs`: `TypeCorrect`, where the work is that scores and bonuses stay on
  the scale of the thresholds and that the answers of a query are sequences of
  results; `OnlyPublishedAlways` and `DeletedStaysOut`, for any number of entries,
  turns and queries. Neither is inductive alone: a query's answer is published because
  a turn that awaits one has seen every retrievable entry be published
  (`PublishedIsCurrent`), and not deleted before because nothing clears `deletedAt`
  (`GoneIsDeleted`). The lemmas `AnswersAreSelected` and `RerankAddsNothing` carry
  this through the limit and the second ranking. `BestIsFirst` and `NothingIsMissed`
  rest on what an answer is (`AnswersAreBest`: an ordered sequence without repetition of
  as many elements as were selected leaves none out, by `FS_Injection`) and on the
  second ranking being a permutation (`RerankKeepsAll`); `NothingIsMissed` needs in
  addition that no steady entry is left once other languages are searched
  (`NothingYet`), and that mutations make no entry steady.

Only model-checked: liveness (`EveryTurnStops`, `AdmittedTurnTerminates`,
`EveryCallEnds`), which needs ENABLED and fairness and is out of the prover's
reach. The library's induction theorems take an operator as a parameter, which the
provers cannot instantiate; where a proof goes along the positions of a sequence it
takes the least counterexample instead (`LeastExists`, from the well-foundedness of
`<` on the naturals).

## What is not modelled, and why

* Wording, language detection, token usage, durations, request ids, logging.
* `getHistory` and `handoff` of the controller change no state.
* `setDegraded()`, `chat()` of the provider, `IntentService.invalidateCache()` and
  `SystemConfigService.invalidateCache()` have no caller.
* `MockLlmProvider` is the test double of the provider.
* Configuration values are constants of the models: the service loads them at
  start, and nothing in the modelled paths changes them. Numbers are whole
  (`parseFloat()` would allow fractions).
* `isHighIntent()` is a stub that answers false.
* The HTTP shell (filters, interceptors, middleware, throttling, validation, health
  probes) and the persistence shell hold no state of their own that the modelled parts
  depend on.
* `generated/prisma/` is the client that Prisma generates from the schema: types and
  query builders without decisions, and more than two thirds of the implementation's
  lines. The schema is what the models use of it.
* The seeds of intents, glossary and configuration are upserts by a unique key, as that
  of the blacklist, which is modelled; those of the knowledge base set columns
  (aliases, language) that `Knowledge` takes as given.
* `ChatPipeline` chooses the verdict of the safety checks and of retrieval freely, which
  covers whatever `SafetyScan` and `Retrieval` compute.
* Letter case: all comparisons are between lower-case texts. That a glossary term may be
  found across the blank between two appended synonyms is left out.
* `normalize()` and `extractTerms()` are regular expressions over strings: what they
  find is part of the records of `Retrieval`. `findForRetrieval()` has no caller
  (retrieval writes its own SQL), and the `tags` filter of a query is never passed.
* The answer to an administrator: the repository turns every failure into "not found".

## Plan

1. Done: breaker, response contract, pipeline, provider, safety tables, cache and
   checks, seeds of the safety tables, intent detection, prompt building, knowledge and
   retrieval; proofs in every component.
2. The seeds of the knowledge base against administrators (aliases that are read,
   merged and written back), which needs these columns in `Knowledge`.
