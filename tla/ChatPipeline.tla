---------------------------- MODULE ChatPipeline ----------------------------
(***************************************************************************)
(* One message turn of the chat API, from POST .../messages to the end of  *)
(* its SSE response, as many turns run it at once in one Node process:     *)
(*   - ChatController.sendMessage (chat.controller.ts),                    *)
(*   - ChatPipelineService.run (chat-pipeline.service.ts),                 *)
(*   - the conversation repository and the audit log it writes,            *)
(*   - the AI circuit breaker (ai-status.service.ts) it consults and feeds.*)
(*                                                                         *)
(* An action is one await: the effect of the call, and the synchronous     *)
(* code that follows it up to the next await.  pc[t] names the call that   *)
(* turn t is waiting for.  Node interleaves turns only at awaits, so this  *)
(* is the granularity of the code.  Message texts, languages and scores    *)
(* are abstracted to the branch they lead to; an LLM answer to the number  *)
(* of its chunks.                                                          *)
(***************************************************************************)
EXTENDS Naturals, Sequences, FiniteSets

CONSTANTS
  Turns,              \* the messages visitors send, each a run of the handler
  Sessions,           \* the conversations
  SessionOf,          \* SessionOf[t]: the session whose token t's request carries
  Verdicts,           \* what the rules and the knowledge base can say of a message
  LlmFaults,          \* how an LLM stream can fail: "timeout", "error", or an
                      \* "abort_error" (code ABORT_ERR) with no signal fired
  DbFaults,           \* how a query can fail: "refused", "unacked" (its effect
                      \* is committed but the caller sees an error), or, for an
                      \* entry of the audit log, "unlogged"
  DegradedThreshold,  \* SystemConfig 'ai_degraded_threshold'
  AlertThreshold,     \* SystemConfig 'sensitive_intent_alert_threshold'
  HistoryLimit,       \* the default 'limit' of getHistory
  MaxChunks,          \* bound: chunks of one LLM answer
  MaxRestarts         \* bound: restarts of the process

\* "blocked": by the prompt guard; "sensitive": blocked in one of the
\* categories isSensitiveCategory() accepts.
AllVerdicts == {"too_long", "blocked", "sensitive", "confidential", "no_hits", "answer"}

ASSUME ConstantsAssumption ==
  /\ SessionOf \in [Turns -> Sessions]
  /\ Verdicts \subseteq AllVerdicts
  /\ LlmFaults \subseteq {"timeout", "error", "abort_error"}
  /\ DbFaults \subseteq {"refused", "unacked", "unlogged"}
  /\ DegradedThreshold \in Nat \ {0}
  /\ AlertThreshold \in Nat \ {0}
  /\ HistoryLimit \in Nat
  /\ MaxChunks \in Nat
  /\ MaxRestarts \in Nat

VARIABLES
  pc,         \* pc[t]: the call turn t awaits, or how it stopped
  events,     \* events[t]: the SSE events written to t's response
  closed,     \* closed[t]: the client of t has gone away
  aborted,    \* aborted[t]: t's AbortController has fired
  history,    \* history[t]: the rows read for t's prompt
  content,    \* content[t]: chunks collected in fullContent
  seenCount,  \* seenCount[t]: the count t's increment returned; 0 for none
  known,      \* known[t]: turns of the session answered when t was sent
  created,    \* sessions that exist in the database
  messages,   \* messages[s]: the rows of s, in order of creation
  sessionType,            \* Conversation.type
  sensitiveIntentCount,   \* Conversation.sensitiveIntentCount
  audit,      \* the audit log: pairs <<turn, event type>>
  degraded, consecutiveFailures,  \* AiStatusService, in process memory
  restarts    \* restarts so far

turnVars == <<history, content, seenCount, known>>
clientVars == <<closed, aborted>>
rowVars == <<created, messages, sessionType, sensitiveIntentCount>>
dbVars == <<rowVars, audit>>
breakerVars == <<degraded, consecutiveFailures>>
vars == <<pc, events, clientVars, turnVars, dbVars, breakerVars, restarts>>

-----------------------------------------------------------------------------
\* The awaits of run(), grouped by the branch they belong to.
DegradedSteps == {"fallbackUser", "fallbackAssistant", "fallbackAudit"}
BlockedSteps ==
  {"blockedAudit", "sensitiveAudit", "blockedIncrement", "blockedAlert", "blockedUser",
   "blockedAssistant"}
ConfidentialSteps ==
  {"confidentialMark", "confidentialIncrement", "confidentialAlert",
   "confidentialUser", "confidentialAssistant", "confidentialAudit"}
NoHitsSteps == {"noHitsUser", "noHitsAssistant", "noHitsAudit"}
LlmFailureSteps == {"timeoutAudit", "degradedAudit", "errorAudit"}
AnswerSteps == {"history", "retrieve", "answerUser", "llm", "answerAssistant", "answerAudit"}

\* Inside the try block of run(), whose catch is the step "catchAll".
TrySteps ==
  BlockedSteps \cup ConfidentialSteps \cup NoHitsSteps \cup AnswerSteps \cup LlmFailureSteps
Running == {"lookup"} \cup DegradedSteps \cup TrySteps \cup {"catchAll"}
\* "ended": res.end() was called; "httpError": failed before any SSE header;
\* "escaped": an exception left run(); "killed": the process stopped.
Stopped == {"ended", "httpError", "escaped", "killed"}
Responding == Running \ {"lookup"}     \* the SSE headers are out

TerminalEvents == {"done", "error", "timeout", "interrupted"}
AuditEvents ==
  {"llm_fallback", "prompt_guard_blocked", "sensitive_intent_alert", "confidential_refused",
   "chat_response", "llm_timeout", "llm_degraded", "llm_error", "pipeline_error"}

\* The columns of a ConversationMessage the properties tell apart; guidance:
\* the text ends with the handoff guidance; chunks: LLM chunks in the text.
Row == [turn: Turns, role: {"user", "assistant"}, type: {"normal", "blocked", "confidential"},
        guidance: BOOLEAN, chunks: Nat]

Steps == {"idle"} \cup Running \cup Stopped
SseEvents == TerminalEvents \cup {"token"}

ControlOK == pc \in [Turns -> Steps] /\ events \in [Turns -> Seq(SseEvents)]
ClientOK == closed \in [Turns -> BOOLEAN] /\ aborted \in [Turns -> BOOLEAN]
TurnOK ==
  /\ history \in [Turns -> Seq(Row)]
  /\ content \in [Turns -> Nat]
  /\ seenCount \in [Turns -> Nat]
  /\ known \in [Turns -> SUBSET Turns]
DbOK ==
  /\ created \in SUBSET Sessions
  /\ messages \in [Sessions -> Seq(Row)]
  /\ sessionType \in [Sessions -> {"normal", "confidential"}]
  /\ sensitiveIntentCount \in [Sessions -> Nat]
  /\ audit \in SUBSET (Turns \X AuditEvents)
BreakerOK == degraded \in BOOLEAN /\ consecutiveFailures \in Nat

TypeOK ==
  ControlOK /\ ClientOK /\ TurnOK /\ DbOK /\ BreakerOK /\ restarts \in 0..MaxRestarts

Init ==
  /\ pc = [t \in Turns |-> "idle"]
  /\ events = [t \in Turns |-> <<>>]
  /\ closed = [t \in Turns |-> FALSE]
  /\ aborted = [t \in Turns |-> FALSE]
  /\ history = [t \in Turns |-> <<>>]
  /\ content = [t \in Turns |-> 0]
  /\ seenCount = [t \in Turns |-> 0]
  /\ known = [t \in Turns |-> {}]
  /\ created = {}
  /\ messages = [s \in Sessions |-> <<>>]
  /\ sessionType = [s \in Sessions |-> "normal"]
  /\ sensitiveIntentCount = [s \in Sessions |-> 0]
  /\ audit = {}
  /\ degraded = FALSE
  /\ consecutiveFailures = 0
  /\ restarts = 0

-----------------------------------------------------------------------------
(***************************************************************************)
(* What every step is made of.                                             *)
(***************************************************************************)
\* The handler goes on to 'next' after writing 'out' to the response; 'next'
\* is "ended" after writeSseAndEnd().
Proceed(t, next, out) ==
  /\ pc' = [pc EXCEPT ![t] = next]
  /\ events' = [events EXCEPT ![t] = @ \o out]

FixedText == <<"token", "done">>     \* a canned reply, and the end

\* Some query the turn waits for may be rejected.
QueriesFail == DbFaults \cap {"refused", "unacked"} # {}

\* A rejected query: the catch of run(), which does not cover the degraded path.
Throw(t) == Proceed(t, IF pc[t] \in DegradedSteps THEN "escaped" ELSE "catchAll", <<>>)

\* A write is committed and acknowledged, committed and not acknowledged, or refused.
Write(t, committed, kept, acknowledged, rejected) ==
  \/ committed /\ acknowledged
  \/ "unacked" \in DbFaults /\ committed /\ Throw(t) /\ rejected
  \/ "refused" \in DbFaults /\ kept /\ Throw(t) /\ rejected

\* Nothing but the control of the turn changes.
Step(t, step, next, out) ==
  /\ pc[t] = step
  /\ Proceed(t, next, out)
  /\ UNCHANGED <<clientVars, turnVars, dbVars, breakerVars, restarts>>

NewRow(t, role, type, guidance, chunks) ==
  [turn |-> t, role |-> role, type |-> type, guidance |-> guidance, chunks |-> chunks]

\* Mutant of Insert: an insert whose outcome is unknown is tried again.
InsertRetried(t, row, acknowledged) ==
  /\ messages' = [messages EXCEPT ![SessionOf[t]] = Append(@, row)]
  /\ \/ acknowledged
     \/ "unacked" \in DbFaults /\ UNCHANGED <<pc, events, breakerVars>>

Insert(t, row, acknowledged) ==
  Write(t, messages' = [messages EXCEPT ![SessionOf[t]] = Append(@, row)], UNCHANGED messages,
        acknowledged, UNCHANGED breakerVars)

\* conversationService.addMessage() and what follows it.
AddMessage(t, step, row, next, out) ==
  /\ pc[t] = step
  /\ Insert(t, row, Proceed(t, next, out) /\ UNCHANGED breakerVars)
  /\ UNCHANGED <<clientVars, turnVars, created, sessionType, sensitiveIntentCount, audit, restarts>>

\* auditService.log(): a failure to write is logged and swallowed.
Log(t, step, event, next, out) ==
  /\ pc[t] = step
  /\ \/ audit' = audit \cup {<<t, event>>}
     \/ "unlogged" \in DbFaults /\ UNCHANGED audit
  /\ Proceed(t, next, out)
  /\ UNCHANGED <<clientVars, turnVars, rowVars, breakerVars, restarts>>

IncrementTo(t, step, count, next) ==
  /\ pc[t] = step
  /\ Write(t, sensitiveIntentCount' = [sensitiveIntentCount EXCEPT ![SessionOf[t]] = count],
           UNCHANGED sensitiveIntentCount,
           seenCount' = [seenCount EXCEPT ![t] = count] /\ Proceed(t, next, <<>>),
           UNCHANGED seenCount)
  /\ UNCHANGED <<clientVars, history, content, known, created, messages, sessionType, audit,
                 breakerVars, restarts>>

\* Mutant of Increment: the count is taken from the refusals stored so far,
\* the read-then-write that the atomic increment avoids.
IncrementByRecount(t, step, alertStep, next) ==
  LET count == Cardinality({i \in DOMAIN messages[SessionOf[t]] :
                              /\ messages[SessionOf[t]][i].role = "user"
                              /\ messages[SessionOf[t]][i].type # "normal"}) + 1
  IN IncrementTo(t, step, count, IF count >= AlertThreshold THEN alertStep ELSE next)

\* Mutant of Increment: '>' where the code compares with '>='.
IncrementAlertsLate(t, step, alertStep, next) ==
  LET count == sensitiveIntentCount[SessionOf[t]] + 1
  IN IncrementTo(t, step, count, IF count > AlertThreshold THEN alertStep ELSE next)

\* The atomic increment of incrementAndCheckSensitiveIntent(), and its
\* comparison of the count it returned with the threshold.
Increment(t, step, alertStep, next) ==
  LET count == sensitiveIntentCount[SessionOf[t]] + 1
  IN IncrementTo(t, step, count, IF count >= AlertThreshold THEN alertStep ELSE next)

\* includeHandoff: what incrementAndCheckSensitiveIntent() returned.
IncludeHandoff(t) == seenCount[t] >= AlertThreshold

-----------------------------------------------------------------------------
(***************************************************************************)
(* The controller, the client and the process.                             *)
(***************************************************************************)
\* POST /chat/sessions
CreateSession(s) ==
  /\ s \notin created
  /\ created' = created \cup {s}
  /\ UNCHANGED <<pc, events, clientVars, turnVars, messages, sessionType, sensitiveIntentCount,
                 audit, breakerVars, restarts>>

Answered(t) == \E i \in DOMAIN events[t] : events[t][i] = "done"

\* POST /chat/sessions/:sessionToken/messages: the handler looks the session up.
SendMessage(t) ==
  /\ pc[t] = "idle"
  /\ pc' = [pc EXCEPT ![t] = "lookup"]
  /\ known' = [known EXCEPT ![t] =
                 {u \in Turns : SessionOf[u] = SessionOf[t] /\ Answered(u)}]
  /\ UNCHANGED <<events, clientVars, history, content, seenCount, dbVars, breakerVars, restarts>>

\* No such session, or the lookup fails: a plain HTTP error.
LookupFails(t) ==
  (SessionOf[t] \notin created \/ QueriesFail) /\ Step(t, "lookup", "httpError", <<>>)

\* The lookup answered; run() proceeds to its first await in one go.
Begin(t, next, out) == SessionOf[t] \in created /\ Step(t, "lookup", next, out)

BeginDegraded(t) == degraded /\ Begin(t, "fallbackUser", <<>>)
RejectTooLong(t) ==
  "too_long" \in Verdicts /\ ~degraded /\ Begin(t, "ended", <<"error">>)

\* scanPrompt() matches a rule or a keyword; isSensitiveCategory().
Block(t) ==
  \/ "blocked" \in Verdicts /\ ~degraded /\ Begin(t, "blockedAudit", <<>>)
  \/ "sensitive" \in Verdicts /\ ~degraded /\ Begin(t, "sensitiveAudit", <<>>)

\* checkConfidentiality() matches a keyword.
Refuse(t) == "confidential" \in Verdicts /\ ~degraded /\ Begin(t, "confidentialMark", <<>>)

\* Mutant of Admit: the degraded check is missing.
AdmitAlways(t) == Verdicts \cap {"no_hits", "answer"} # {} /\ Begin(t, "history", <<>>)

\* The message passes both checks.
Admit(t) ==
  Verdicts \cap {"no_hits", "answer"} # {} /\ ~degraded /\ Begin(t, "history", <<>>)

\* The client disconnects: res emits 'close', which only aborts a turn whose
\* listener is registered, that is, after the session lookup.
ClientClose(t) ==
  /\ pc[t] \in Running
  /\ ~closed[t]
  /\ closed' = [closed EXCEPT ![t] = TRUE]
  /\ aborted' = [aborted EXCEPT ![t] = pc[t] # "lookup"]
  /\ UNCHANGED <<pc, events, turnVars, dbVars, breakerVars, restarts>>

\* The process stops and starts again: the turns in progress are gone, and so
\* is the breaker.
Restart ==
  /\ restarts < MaxRestarts
  /\ restarts' = restarts + 1
  /\ pc' = [t \in Turns |-> IF pc[t] = "lookup" THEN "httpError"
                           ELSE IF pc[t] \in Running THEN "killed" ELSE pc[t]]
  /\ degraded' = FALSE
  /\ consecutiveFailures' = 0
  /\ UNCHANGED <<events, clientVars, turnVars, dbVars>>

-----------------------------------------------------------------------------
(***************************************************************************)
(* streamFallbackResponse(): the breaker is open.                          *)
(***************************************************************************)
FallbackUser(t) ==
  AddMessage(t, "fallbackUser", NewRow(t, "user", "normal", FALSE, 0), "fallbackAssistant", <<>>)
FallbackAssistant(t) ==
  AddMessage(t, "fallbackAssistant", NewRow(t, "assistant", "normal", FALSE, 0),
             "fallbackAudit", <<>>)
FallbackAudit(t) == Log(t, "fallbackAudit", "llm_fallback", "ended", FixedText)

Degraded(t) == FallbackUser(t) \/ FallbackAssistant(t) \/ FallbackAudit(t)

(***************************************************************************)
(* Step 3: the prompt guard blocked the message.                           *)
(***************************************************************************)
BlockedAudit(t) ==
  \/ Log(t, "blockedAudit", "prompt_guard_blocked", "blockedUser", <<>>)
  \/ Log(t, "sensitiveAudit", "prompt_guard_blocked", "blockedIncrement", <<>>)
BlockedIncrement(t) == Increment(t, "blockedIncrement", "blockedAlert", "blockedUser")
BlockedAlert(t) == Log(t, "blockedAlert", "sensitive_intent_alert", "blockedUser", <<>>)
BlockedUser(t) ==
  AddMessage(t, "blockedUser", NewRow(t, "user", "blocked", FALSE, 0), "blockedAssistant", <<>>)
BlockedAssistant(t) ==
  AddMessage(t, "blockedAssistant", NewRow(t, "assistant", "blocked", IncludeHandoff(t), 0),
             "ended", FixedText)

Blocked(t) ==
  \/ BlockedAudit(t) \/ BlockedIncrement(t) \/ BlockedAlert(t)
  \/ BlockedUser(t) \/ BlockedAssistant(t)

(***************************************************************************)
(* Step 4: the message mentions a confidential topic.                      *)
(***************************************************************************)
\* Mutant of ConfidentialMark: the type is that of the matched entry, which
\* may be 'internal'.
ConfidentialMarkAsMatched(t) ==
  /\ pc[t] = "confidentialMark"
  /\ \E type \in {"confidential", "internal"} :
       sessionType' = [sessionType EXCEPT ![SessionOf[t]] = type]
  /\ Proceed(t, "confidentialIncrement", <<>>)
  /\ UNCHANGED <<clientVars, turnVars, created, messages, sensitiveIntentCount, audit,
                 breakerVars, restarts>>

ConfidentialMark(t) ==
  /\ pc[t] = "confidentialMark"
  /\ Write(t, sessionType' = [sessionType EXCEPT ![SessionOf[t]] = "confidential"],
           UNCHANGED sessionType, Proceed(t, "confidentialIncrement", <<>>), TRUE)
  /\ UNCHANGED <<clientVars, turnVars, created, messages, sensitiveIntentCount, audit,
                 breakerVars, restarts>>
ConfidentialIncrement(t) ==
  Increment(t, "confidentialIncrement", "confidentialAlert", "confidentialUser")
ConfidentialAlert(t) ==
  Log(t, "confidentialAlert", "sensitive_intent_alert", "confidentialUser", <<>>)
ConfidentialUser(t) ==
  AddMessage(t, "confidentialUser", NewRow(t, "user", "confidential", FALSE, 0),
             "confidentialAssistant", <<>>)
ConfidentialAssistant(t) ==
  AddMessage(t, "confidentialAssistant",
             NewRow(t, "assistant", "confidential", IncludeHandoff(t), 0),
             "confidentialAudit", <<>>)
ConfidentialAudit(t) == Log(t, "confidentialAudit", "confidential_refused", "ended", FixedText)

Confidential(t) ==
  \/ ConfidentialMark(t) \/ ConfidentialIncrement(t) \/ ConfidentialAlert(t)
  \/ ConfidentialUser(t) \/ ConfidentialAssistant(t) \/ ConfidentialAudit(t)

(***************************************************************************)
(* Steps 5 to 8: history, retrieval, confidence.                           *)
(***************************************************************************)
\* A read that fails throws; nothing else is at stake.
ReadFails(t) ==
  QueriesFail /\ (Step(t, "history", "catchAll", <<>>) \/ Step(t, "retrieve", "catchAll", <<>>))

\* Mutant of HistoryRows: only the rows of ordinary turns are read.
HistoryOfNormalRows(s) ==
  LET normal == SelectSeq(messages[s], LAMBDA row : row.type = "normal")
  IN SubSeq(normal, 1, IF Len(normal) < HistoryLimit THEN Len(normal) ELSE HistoryLimit)

\* getHistory(): ORDER BY createdAt ASC LIMIT HistoryLimit.
HistoryRows(s) ==
  SubSeq(messages[s], 1,
         IF Len(messages[s]) < HistoryLimit THEN Len(messages[s]) ELSE HistoryLimit)

ReadHistory(t) ==
  /\ pc[t] = "history"
  /\ history' = [history EXCEPT ![t] = HistoryRows(SessionOf[t])]
  /\ Proceed(t, "retrieve", <<>>)
  /\ UNCHANGED <<clientVars, content, seenCount, known, dbVars, breakerVars, restarts>>

\* The best score is below rag_minimum_score (or there is no hit), or it is not.
Retrieve(t) ==
  \/ "no_hits" \in Verdicts /\ Step(t, "retrieve", "noHitsUser", <<>>)
  \/ "answer" \in Verdicts /\ Step(t, "retrieve", "answerUser", <<>>)

NoHitsUser(t) ==
  AddMessage(t, "noHitsUser", NewRow(t, "user", "normal", FALSE, 0), "noHitsAssistant", <<>>)
NoHitsAssistant(t) ==
  AddMessage(t, "noHitsAssistant", NewRow(t, "assistant", "normal", FALSE, 0),
             "noHitsAudit", <<>>)
NoHitsAudit(t) == Log(t, "noHitsAudit", "chat_response", "ended", FixedText)

Prepare(t) ==
  \/ ReadHistory(t) \/ Retrieve(t) \/ ReadFails(t)
  \/ NoHitsUser(t) \/ NoHitsAssistant(t) \/ NoHitsAudit(t)

(***************************************************************************)
(* Step 9: the LLM stream.                                                 *)
(***************************************************************************)
AnswerUser(t) ==
  AddMessage(t, "answerUser", NewRow(t, "user", "normal", FALSE, 0), "llm", <<>>)

\* A chunk with text arrives while the abort signal is not set.
LlmChunk(t) ==
  /\ pc[t] = "llm"
  /\ ~aborted[t]
  /\ content[t] < MaxChunks
  /\ content' = [content EXCEPT ![t] = @ + 1]
  /\ Proceed(t, "llm", <<"token">>)
  /\ UNCHANGED <<clientVars, history, seenCount, known, dbVars, breakerVars, restarts>>

\* Mutant of LlmFinish: the answer is audited before it is stored.
LlmFinishAudited(t) == ~aborted[t] /\ Log(t, "llm", "chat_response", "answerAssistant", <<>>)

\* Mutant of LlmFinish: no look at the signal after the loop.
LlmFinishUnchecked(t) == Step(t, "llm", "answerAssistant", <<>>)

\* The done chunk arrives, or the iterator returns without one.
LlmFinish(t) == ~aborted[t] /\ Step(t, "llm", "answerAssistant", <<>>)

\* Mutant of LlmInterrupted: no return after the interrupted event.
LlmInterruptedGoesOn(t) ==
  /\ aborted[t] \/ "abort_error" \in LlmFaults
  /\ Step(t, "llm", "answerAssistant", <<"interrupted">>)

\* Anything but a timeout happens to the stream of a client that has gone, or
\* the stream throws an ABORT_ERR while the client is there.
LlmInterrupted(t) ==
  /\ aborted[t] \/ "abort_error" \in LlmFaults
  /\ Step(t, "llm", "ended", <<"interrupted">>)

\* Mutant of RecordFailure: '>' where the code has '>='.
RecordFailureLate ==
  /\ consecutiveFailures' = consecutiveFailures + 1
  /\ degraded' = (degraded \/ consecutiveFailures + 1 > DegradedThreshold)

\* AiStatusService.recordFailure() and recordSuccess()
RecordFailure ==
  /\ consecutiveFailures' = consecutiveFailures + 1
  /\ degraded' = (degraded \/ consecutiveFailures + 1 >= DegradedThreshold)

RecordSuccess ==
  /\ consecutiveFailures' = 0
  /\ degraded' = FALSE

\* The stream throws LlmTimeoutError, aborted or not.
LlmTimeout(t) ==
  /\ pc[t] = "llm"
  /\ "timeout" \in LlmFaults
  /\ RecordFailure
  /\ Proceed(t, "timeoutAudit", <<>>)
  /\ UNCHANGED <<clientVars, turnVars, dbVars, restarts>>

\* The stream throws anything else, but an ABORT_ERR, while the client is there.
LlmError(t) ==
  /\ pc[t] = "llm"
  /\ "error" \in LlmFaults
  /\ ~aborted[t]
  /\ RecordFailure
  /\ Proceed(t, IF degraded' THEN "degradedAudit" ELSE "errorAudit", <<>>)
  /\ UNCHANGED <<clientVars, turnVars, dbVars, restarts>>

\* Mutant of TimeoutAudit: the timeout is audited and the response forgotten.
TimeoutAuditSilent(t) == Log(t, "timeoutAudit", "llm_timeout", "ended", <<>>)

TimeoutAudit(t) == Log(t, "timeoutAudit", "llm_timeout", "ended", <<"timeout">>)
DegradedAudit(t) == Log(t, "degradedAudit", "llm_degraded", "ended", <<"error">>)
ErrorAudit(t) == Log(t, "errorAudit", "llm_error", "ended", <<"error">>)

Stream(t) ==
  \/ AnswerUser(t) \/ LlmChunk(t) \/ LlmFinish(t) \/ LlmInterrupted(t)
  \/ LlmTimeout(t) \/ LlmError(t) \/ TimeoutAudit(t) \/ DegradedAudit(t) \/ ErrorAudit(t)

(***************************************************************************)
(* Step 10, and the catch of run().                                        *)
(***************************************************************************)
StoreAnswer(t, chunks) ==
  /\ pc[t] = "answerAssistant"
  /\ Insert(t, NewRow(t, "assistant", "normal", FALSE, chunks),
            Proceed(t, "answerAudit", <<>>) /\ RecordSuccess)
  /\ UNCHANGED <<clientVars, turnVars, created, sessionType, sensitiveIntentCount, audit, restarts>>

\* Mutant of AnswerAssistant: an answer is stored without what was streamed last.
AnswerAssistantShort(t) == StoreAnswer(t, IF content[t] > 0 THEN content[t] - 1 ELSE 0)

\* Mutant of AnswerAssistant: the success is reported before the insert is.
AnswerAssistantReportsFirst(t) ==
  /\ pc[t] = "answerAssistant"
  /\ Write(t, messages' = [messages EXCEPT ![SessionOf[t]] =
                 Append(@, NewRow(t, "assistant", "normal", FALSE, content[t]))],
           UNCHANGED messages, Proceed(t, "answerAudit", <<>>), TRUE)
  /\ RecordSuccess
  /\ UNCHANGED <<clientVars, turnVars, created, sessionType, sensitiveIntentCount, audit, restarts>>

AnswerAssistant(t) == StoreAnswer(t, content[t])

\* Mutant of AnswerAudit: the turn ends without its entry in the audit log.
AnswerAuditForgotten(t) == Step(t, "answerAudit", "ended", <<"done">>)

AnswerAudit(t) == Log(t, "answerAudit", "chat_response", "ended", <<"done">>)

\* Mutant of CatchAll: the turn is tried again.
CatchAllRetries(t) == Log(t, "catchAll", "pipeline_error", "lookup", <<>>)

CatchAll(t) == Log(t, "catchAll", "pipeline_error", "ended", <<"error">>)

Store(t) == AnswerAssistant(t) \/ AnswerAudit(t) \/ CatchAll(t)

-----------------------------------------------------------------------------
Start(t) ==
  \/ LookupFails(t) \/ BeginDegraded(t) \/ RejectTooLong(t)
  \/ Block(t) \/ Refuse(t) \/ Admit(t)

\* Everything the server does for a turn.
TurnStep(t) ==
  \/ Start(t) \/ Degraded(t) \/ Blocked(t) \/ Confidential(t)
  \/ Prepare(t) \/ Stream(t) \/ Store(t)

Next ==
  \/ \E s \in Sessions : CreateSession(s)
  \/ \E t \in Turns : SendMessage(t) \/ ClientClose(t) \/ TurnStep(t)
  \/ Restart

Spec == Init /\ [][Next]_vars

\* Every call the server awaits eventually answers or fails: the event loop
\* runs every callback, and the LLM provider has a timeout.  Nothing is
\* assumed of the visitors.
FairSpec == Spec /\ \A t \in Turns : WF_vars(TurnStep(t))

-----------------------------------------------------------------------------
(***************************************************************************)
(* Safety.                                                                 *)
(***************************************************************************)
Wrote(t, event) == \E i \in DOMAIN events[t] : events[t][i] = event
Audited(t, event) == <<t, event>> \in audit
RowsOf(t, role) ==
  {i \in DOMAIN messages[SessionOf[t]] :
     messages[SessionOf[t]][i].turn = t /\ messages[SessionOf[t]][i].role = role}

\* The response contract: each turn's response is opened once, carries tokens,
\* and is closed by one terminal event or cut, and nothing is written after it
\* (each writeSseAndEnd of run() is followed by a return, in the catches too).
StreamState ==
  [t \in Turns |-> IF pc[t] \in {"idle", "lookup", "httpError"} THEN "unopened"
                   ELSE IF pc[t] \in Responding THEN "open"
                   ELSE IF pc[t] = "ended" THEN "closed" ELSE "cut"]
Sse == INSTANCE SseStream WITH stream <- StreamState
SseSpec == Sse!Spec

\* The pipeline uses the breaker as AiStatus says: a turn reports at most once,
\* only if it was let in while the breaker was closed, and nothing else moves
\* the breaker but a restart.
InFlight ==
  {t \in Turns : pc[t] \in BlockedSteps \cup ConfidentialSteps \cup NoHitsSteps
                             \cup (AnswerSteps \ {"answerAudit"})}
Breaker == INSTANCE AiStatus WITH Threshold <- DegradedThreshold, inFlight <- InFlight
AiStatusSpec == Breaker!Spec

\* The pipeline uses the stream of its provider as LlmStream says: it asks at
\* most once, and takes for an answer what a stream gave that finished before
\* the signal, and nothing else (run() looks at abortSignal after each chunk,
\* after the loop and in the catch).
StreamPhase ==
  [t \in Turns |-> IF pc[t] = "llm" THEN "streaming"
                   ELSE IF pc[t] = "answerAssistant" THEN "answer"
                   ELSE IF pc[t] \in Stopped \cup LlmFailureSteps \cup {"answerAudit", "catchAll"}
                   THEN "over" ELSE "before"]
Llm == INSTANCE LlmStream WITH
         phase <- StreamPhase, taken <- content,
         Faults <- IF LlmFaults = {} THEN {"stop"} ELSE {"stop", "throw"}
LlmSpec == Llm!Spec

\* The flag and the counter of the breaker agree in every interleaving of the
\* turns that report to it.
DegradedConsistent == degraded <=> consecutiveFailures >= DegradedThreshold

\* A turn stores its user message at most once, its reply at most once, and
\* never a reply without the message it replies to before it, whichever call
\* fails, however turns interleave in the session (addMessage is not in a
\* transaction).
RowsInOrder ==
  \A t \in Turns :
    /\ \A role \in {"user", "assistant"} : Cardinality(RowsOf(t, role)) <= 1
    /\ \A i \in RowsOf(t, "assistant") : \E j \in RowsOf(t, "user") : j < i

\* What the client is told agrees with what was stored: after 'done' (which
\* carries the messageId of the reply) both rows are there, and an answer has
\* exactly the chunks that were streamed; after 'interrupted' and 'timeout'
\* the question is there and no reply.
ResponseMatchesStore ==
  \A t \in Turns :
    /\ Wrote(t, "done") => RowsOf(t, "user") # {} /\ RowsOf(t, "assistant") # {}
    /\ Wrote(t, "interrupted") \/ Wrote(t, "timeout")
         => RowsOf(t, "user") # {} /\ RowsOf(t, "assistant") = {}
    /\ Audited(t, "chat_response") /\ content[t] > 0
         => \A i \in RowsOf(t, "assistant") :
              messages[SessionOf[t]][i].chunks
                = Cardinality({j \in DOMAIN events[t] : events[t][j] = "token"})

\* What the audit log says of a turn agrees with what the client was told: an
\* outcome that 'done' announces is never audited as a failure, nor the
\* reverse.  If the log can be written, it does say something, whichever other
\* queries fail.
Failures == {"llm_timeout", "llm_degraded", "llm_error", "pipeline_error"}
Outcomes == {"llm_fallback", "prompt_guard_blocked", "confidential_refused", "chat_response"}
AuditMatchesResponse ==
  \A t \in Turns :
    /\ Wrote(t, "done") => \A e \in Failures : ~Audited(t, e)
    /\ Wrote(t, "timeout") \/ Wrote(t, "interrupted") \/ Wrote(t, "error")
         => \A e \in Outcomes \ {"prompt_guard_blocked"} : ~Audited(t, e)
    /\ "unlogged" \notin DbFaults =>
         /\ Wrote(t, "done") => \E e \in Outcomes : Audited(t, e)
         /\ Wrote(t, "timeout") => Audited(t, "llm_timeout")

\* Two turns of a session never see the same sensitive count: the increment
\* is atomic in the database (conversation.repository.ts says it avoids the
\* read-then-write race).
SeenCountsDistinct ==
  \A t, u \in Turns :
    /\ seenCount[t] <= sensitiveIntentCount[SessionOf[t]]
    /\ t # u /\ SessionOf[t] = SessionOf[u] /\ seenCount[t] > 0
         => seenCount[t] # seenCount[u]

\* So every level from the threshold on raises one alert, and the alert and the
\* handoff guidance of the stored refusal go together, although queries may be
\* refused between the increment, the alert and the refusal.
EveryLevelAlerts ==
  DbFaults \cap {"unacked", "unlogged"} = {} /\ MaxRestarts = 0 =>
    /\ \A s \in Sessions :
         Cardinality({t \in Turns : /\ SessionOf[t] = s
                                    /\ \/ Audited(t, "sensitive_intent_alert")
                                       \/ pc[t] \in {"blockedAlert", "confidentialAlert"}})
           = IF sensitiveIntentCount[s] < AlertThreshold THEN 0
             ELSE sensitiveIntentCount[s] - AlertThreshold + 1
    /\ \A t \in Turns : \A i \in RowsOf(t, "assistant") :
         messages[SessionOf[t]][i].guidance <=> Audited(t, "sensitive_intent_alert")

\* The breaker hears of a turn what became of it, although the report comes
\* after other awaits: its count rises only when a stream is lost to a timeout
\* or to an error that is not the client's leaving, and falls, short of a
\* restart, only with an LLM answer that was stored (a refused insert, a canned
\* reply or an interruption is no sign that the LLM is well, or is not).
LostToLlm(t) ==
  /\ pc[t] = "llm" /\ pc'[t] \in LlmFailureSteps
  /\ aborted[t] => pc'[t] = "timeoutAudit"
AnswerStored(t) ==
  pc[t] \in AnswerSteps /\ RowsOf(t, "assistant") = {} /\ RowsOf(t, "assistant")' # {}
ReportsMatchOutcome ==
  [][/\ consecutiveFailures' > consecutiveFailures => \E t \in Turns : LostToLlm(t)
     /\ consecutiveFailures' < consecutiveFailures /\ restarts' = restarts
          => \E t \in Turns : AnswerStored(t)]_vars

\* The history a prompt is built from never holds the question itself (which
\* the prompt adds as its last message), and holds both rows of each turn the
\* client had seen answered when it sent this one, refused turns included,
\* unless the limit of getHistory is reached.
HistoryFaithful ==
  \A t \in Turns :
    LET read == {history[t][i].turn : i \in DOMAIN history[t]}
    IN /\ t \notin read
       /\ pc[t] \in AnswerSteps \ {"history"} /\ Len(history[t]) < HistoryLimit
            => \A u \in known[t] :
                 \A role \in {"user", "assistant"} :
                   \E i \in DOMAIN history[t] :
                     history[t][i].turn = u /\ history[t][i].role = role

-----------------------------------------------------------------------------
(***************************************************************************)
(* Liveness, under FairSpec.                                               *)
(***************************************************************************)
\* Every turn stops, whatever fails: no step of run() waits for another turn.
EveryTurnStops == \A t \in Turns : pc[t] \in Running ~> pc[t] \in Stopped

\* A turn that was let past the degraded check always tells the client how it
\* ended, whatever query or LLM call fails on the way: every exception reaches
\* one of the two catches of run(), and each ends the response.
AdmittedTurnTerminates ==
  \A t \in Turns :
    pc[t] \in TrySteps \cup {"catchAll"} ~> \E e \in TerminalEvents : Wrote(t, e)

-----------------------------------------------------------------------------
(***************************************************************************)
(* What documents say and the code does not do.                            *)
(***************************************************************************)
\* The comment on getHistory: "the most recent messages for a session".
HistoryIsMostRecent ==
  [][\A t \in Turns : ReadHistory(t) =>
       \A i \in DOMAIN messages[SessionOf[t]] :
         i > Len(messages[SessionOf[t]]) - HistoryLimit
           => \E j \in DOMAIN history'[t] : history'[t][j] = messages[SessionOf[t]][i]]_vars

\* FR-007: when no valid answer can be given an explicit error is returned, the
\* system never fails silently (to a client that is still there).
NeverSilent ==
  \A t \in Turns :
    pc[t] \in Responding ~> closed[t] \/ \E e \in TerminalEvents : Wrote(t, e)

\* FR-004b: the server notices that the client is gone and stops the LLM call.
DisconnectAborts == \A t \in Turns : pc[t] = "llm" /\ closed[t] => aborted[t]
=============================================================================
