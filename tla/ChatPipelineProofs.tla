------------------------- MODULE ChatPipelineProofs -------------------------
(***************************************************************************)
(* Proofs about ChatPipeline, for any turns, sessions, limits and faults.  *)
(***************************************************************************)
EXTENDS ChatPipeline, TLAPS, FiniteSetTheorems

-----------------------------------------------------------------------------
(***************************************************************************)
(* Type correctness, by the kinds of step run() is made of.                *)
(***************************************************************************)
\* Going on to a known step with documented events keeps the control typed.
LEMMA ProceedType ==
  ASSUME ControlOK, NEW t \in Turns, NEW next \in Steps, NEW out \in Seq(SseEvents),
         Proceed(t, next, out)
  PROVE  ControlOK'
BY DEF ControlOK, Proceed

\* So does an exception.
LEMMA ThrowType ==
  ASSUME ControlOK, NEW t \in Turns, Throw(t)
  PROVE  ControlOK'
<1>1. "escaped" \in Steps /\ "catchAll" \in Steps
  BY DEF Steps, Running, Stopped
<1>2. <<>> \in Seq(SseEvents)
  OBVIOUS
<1>3. QED BY <1>1, <1>2, ProceedType DEF Throw

\* A step that only moves the control keeps every type.
LEMMA StepType ==
  ASSUME TypeOK, NEW t \in Turns, NEW step, NEW next \in Steps, NEW out \in Seq(SseEvents),
         Step(t, step, next, out)
  PROVE  TypeOK'
<1>1. ControlOK'
  BY ProceedType DEF TypeOK, Step
<1>2. QED
  BY <1>1 DEF TypeOK, Step, ClientOK, TurnOK, DbOK, BreakerOK, clientVars, turnVars, dbVars,
     rowVars, breakerVars

\* An insert keeps the rows typed, however the query ends.
LEMMA InsertType ==
  ASSUME TypeOK, NEW t \in Turns, NEW row \in Row, NEW acknowledged,
         Insert(t, row, acknowledged), acknowledged => ControlOK' /\ BreakerOK'
  PROVE  /\ ControlOK' /\ BreakerOK'
         /\ messages' \in [Sessions -> Seq(Row)]
<1>1. ControlOK' /\ BreakerOK'
  BY ThrowType DEF TypeOK, Insert, Write, BreakerOK, breakerVars
<1>2. messages' = messages \/ messages' = [messages EXCEPT ![SessionOf[t]] = Append(@, row)]
  BY DEF Insert, Write
<1>3. messages \in [Sessions -> Seq(Row)] /\ SessionOf[t] \in Sessions
  BY ConstantsAssumption DEF TypeOK, DbOK
<1>4. Append(messages[SessionOf[t]], row) \in Seq(Row)
  BY <1>3
<1>5. messages' \in [Sessions -> Seq(Row)]
  BY <1>2, <1>3, <1>4
<1>6. QED BY <1>1, <1>5

\* addMessage() keeps every type.
LEMMA AddMessageType ==
  ASSUME TypeOK, NEW t \in Turns, NEW step, NEW row \in Row, NEW next \in Steps,
         NEW out \in Seq(SseEvents), AddMessage(t, step, row, next, out)
  PROVE  TypeOK'
<1> DEFINE ack == Proceed(t, next, out) /\ UNCHANGED breakerVars
<1>1. Insert(t, row, ack)
  BY DEF AddMessage
<1>2. ack => ControlOK' /\ BreakerOK'
  BY ProceedType DEF TypeOK, BreakerOK, breakerVars
<1> HIDE DEF ack
<1>3. ControlOK' /\ BreakerOK' /\ messages' \in [Sessions -> Seq(Row)]
  BY <1>1, <1>2, InsertType
<1>4. QED
  BY <1>3 DEF AddMessage, TypeOK, ClientOK, TurnOK, DbOK, clientVars, turnVars

\* auditService.log() keeps every type, written or not.
LEMMA LogType ==
  ASSUME TypeOK, NEW t \in Turns, NEW step, NEW event \in AuditEvents, NEW next \in Steps,
         NEW out \in Seq(SseEvents), Log(t, step, event, next, out)
  PROVE  TypeOK'
<1>1. ControlOK'
  BY ProceedType DEF TypeOK, Log
<1>2. audit' \in SUBSET (Turns \X AuditEvents)
  BY DEF TypeOK, DbOK, Log
<1>3. QED
  BY <1>1, <1>2 DEF TypeOK, Log, ClientOK, TurnOK, DbOK, BreakerOK, clientVars, turnVars,
     rowVars, breakerVars

\* The increment keeps every type, however the query ends.
LEMMA IncrementType ==
  ASSUME TypeOK, NEW t \in Turns, NEW step, NEW alertStep \in Steps, NEW next \in Steps,
         Increment(t, step, alertStep, next)
  PROVE  TypeOK'
<1> DEFINE count == sensitiveIntentCount[SessionOf[t]] + 1
           after == IF count >= AlertThreshold THEN alertStep ELSE next
<1>1. IncrementTo(t, step, count, after)
  BY DEF Increment
<1>2. count \in Nat /\ after \in Steps /\ SessionOf[t] \in Sessions
  <2>1. SessionOf[t] \in Sessions
    BY ConstantsAssumption
  <2>2. count \in Nat
    BY <2>1 DEF TypeOK, DbOK
  <2>3. after \in Steps
    OBVIOUS
  <2>4. QED BY <2>1, <2>2, <2>3
<1> HIDE DEF count, after
<1>3. ControlOK'
  <2>1. Proceed(t, after, <<>>) \/ Throw(t)
    BY <1>1 DEF IncrementTo, Write
  <2>2. ControlOK /\ <<>> \in Seq(SseEvents)
    BY DEF TypeOK
  <2>3. QED BY <1>2, <2>1, <2>2, ProceedType, ThrowType
<1>4. sensitiveIntentCount' \in [Sessions -> Nat] /\ seenCount' \in [Turns -> Nat]
  BY <1>1, <1>2 DEF TypeOK, DbOK, TurnOK, IncrementTo, Write
<1>5. QED
  BY <1>1, <1>3, <1>4 DEF TypeOK, IncrementTo, ClientOK, TurnOK, DbOK, BreakerOK, clientVars,
     breakerVars

\* The rows that the actions insert are rows.
LEMMA NewRowType ==
  ASSUME NEW t \in Turns, NEW role \in {"user", "assistant"},
         NEW type \in {"normal", "blocked", "confidential"},
         NEW guidance \in BOOLEAN, NEW chunks \in Nat
  PROVE  NewRow(t, role, type, guidance, chunks) \in Row
BY DEF NewRow, Row

\* Every step name and every output the actions use is one of those declared.
LEMMA NamesType ==
  /\ TrySteps \cup DegradedSteps \cup {"lookup", "catchAll"} \cup Stopped \subseteq Steps
  /\ <<>> \in Seq(SseEvents) /\ FixedText \in Seq(SseEvents)
  /\ \A e \in SseEvents : <<e>> \in Seq(SseEvents)
<1>1. TrySteps \cup DegradedSteps \cup {"lookup", "catchAll"} \cup Stopped \subseteq Steps
  BY DEF Steps, Running
<1>2. "token" \in SseEvents /\ "done" \in SseEvents
  BY DEF SseEvents, TerminalEvents
<1>3. FixedText \in Seq(SseEvents)
  BY <1>2 DEF FixedText
<1>4. QED BY <1>1, <1>3

\* The lookup and what run() does before its first await.
LEMMA StartType == ASSUME TypeOK, NEW t \in Turns, Start(t) PROVE TypeOK'
<1>1. {"httpError", "ended", "fallbackUser", "blockedAudit", "sensitiveAudit",
       "confidentialMark", "history"} \subseteq Steps
  BY DEF Steps, Running, Stopped, DegradedSteps, TrySteps, BlockedSteps, ConfidentialSteps,
     AnswerSteps
<1>2. <<"error">> \in Seq(SseEvents) /\ <<>> \in Seq(SseEvents)
  BY DEF SseEvents, TerminalEvents
<1>3. \E next \in Steps, out \in Seq(SseEvents) : Step(t, "lookup", next, out)
  BY <1>1, <1>2 DEF Start, LookupFails, BeginDegraded, RejectTooLong, Block, Refuse, Admit, Begin
<1>4. QED BY <1>3, StepType

\* The degraded path, step by step.
LEMMA DegradedType == ASSUME TypeOK, NEW t \in Turns, Degraded(t) PROVE TypeOK'
<1>1. {"fallbackAssistant", "fallbackAudit", "ended"} \subseteq Steps
  BY DEF Steps, Running, Stopped, DegradedSteps
<1>2. "llm_fallback" \in AuditEvents
  BY DEF AuditEvents
<1>3. CASE FallbackUser(t)
  BY <1>1, <1>3, NamesType, NewRowType, AddMessageType DEF FallbackUser
<1>4. CASE FallbackAssistant(t)
  BY <1>1, <1>4, NamesType, NewRowType, AddMessageType DEF FallbackAssistant
<1>5. CASE FallbackAudit(t)
  BY <1>1, <1>2, <1>5, NamesType, LogType DEF FallbackAudit
<1>6. QED BY <1>3, <1>4, <1>5 DEF Degraded

\* The refusal of a blocked message, step by step.
LEMMA BlockedType == ASSUME TypeOK, NEW t \in Turns, Blocked(t) PROVE TypeOK'
<1>1. {"blockedIncrement", "blockedAlert", "blockedUser", "blockedAssistant", "ended"}
        \subseteq Steps
  BY DEF Steps, Running, Stopped, TrySteps, BlockedSteps
<1>2. {"prompt_guard_blocked", "sensitive_intent_alert"} \subseteq AuditEvents
  BY DEF AuditEvents
<1>3. IncludeHandoff(t) \in BOOLEAN
  BY DEF IncludeHandoff
<1>4. CASE BlockedAudit(t)
  BY <1>1, <1>2, <1>4, NamesType, LogType DEF BlockedAudit
<1>5. CASE BlockedIncrement(t)
  BY <1>1, <1>5, IncrementType DEF BlockedIncrement
<1>6. CASE BlockedAlert(t)
  BY <1>1, <1>2, <1>6, NamesType, LogType DEF BlockedAlert
<1>7. CASE BlockedUser(t)
  BY <1>1, <1>7, NamesType, NewRowType, AddMessageType DEF BlockedUser
<1>8. CASE BlockedAssistant(t)
  BY <1>1, <1>3, <1>8, NamesType, NewRowType, AddMessageType DEF BlockedAssistant
<1>9. QED BY <1>4, <1>5, <1>6, <1>7, <1>8 DEF Blocked

\* The refusal of a confidential question, step by step.
LEMMA ConfidentialType == ASSUME TypeOK, NEW t \in Turns, Confidential(t) PROVE TypeOK'
<1>1. {"confidentialIncrement", "confidentialAlert", "confidentialUser",
       "confidentialAssistant", "confidentialAudit", "ended"} \subseteq Steps
  BY DEF Steps, Running, Stopped, TrySteps, ConfidentialSteps
<1>2. {"confidential_refused", "sensitive_intent_alert"} \subseteq AuditEvents
  BY DEF AuditEvents
<1>3. IncludeHandoff(t) \in BOOLEAN
  BY DEF IncludeHandoff
<1>4. CASE ConfidentialMark(t)
  <2>1. Proceed(t, "confidentialIncrement", <<>>) \/ Throw(t)
    BY <1>4 DEF ConfidentialMark, Write
  <2>2. ControlOK'
    BY <1>1, <2>1, NamesType, ProceedType, ThrowType DEF TypeOK
  <2>3. sessionType' \in [Sessions -> {"normal", "confidential"}]
    BY <1>4 DEF ConfidentialMark, Write, TypeOK, DbOK
  <2>4. QED
    BY <1>4, <2>2, <2>3 DEF ConfidentialMark, TypeOK, ClientOK, TurnOK, DbOK, BreakerOK,
       clientVars, turnVars, breakerVars
<1>5. CASE ConfidentialIncrement(t)
  BY <1>1, <1>5, IncrementType DEF ConfidentialIncrement
<1>6. CASE ConfidentialAlert(t)
  BY <1>1, <1>2, <1>6, NamesType, LogType DEF ConfidentialAlert
<1>7. CASE ConfidentialUser(t)
  BY <1>1, <1>7, NamesType, NewRowType, AddMessageType DEF ConfidentialUser
<1>8. CASE ConfidentialAssistant(t)
  BY <1>1, <1>3, <1>8, NamesType, NewRowType, AddMessageType DEF ConfidentialAssistant
<1>9. CASE ConfidentialAudit(t)
  BY <1>1, <1>2, <1>9, NamesType, LogType DEF ConfidentialAudit
<1>10. QED BY <1>4, <1>5, <1>6, <1>7, <1>8, <1>9 DEF Confidential

\* What getHistory() returns is rows, and at most as many as its limit.
LEMMA HistoryRowsType ==
  ASSUME TypeOK, NEW s \in Sessions
  PROVE  HistoryRows(s) \in Seq(Row) /\ Len(HistoryRows(s)) <= HistoryLimit
<1>1. messages[s] \in Seq(Row) /\ HistoryLimit \in Nat
  BY ConstantsAssumption DEF TypeOK, DbOK
<1> DEFINE n == IF Len(messages[s]) < HistoryLimit THEN Len(messages[s]) ELSE HistoryLimit
<1>2. n \in 0..Len(messages[s]) /\ n <= HistoryLimit
  BY <1>1
<1> HIDE DEF n
<1>3. /\ Len(SubSeq(messages[s], 1, n)) = n
      /\ \A i \in 1..n : SubSeq(messages[s], 1, n)[i] = messages[s][i]
      /\ SubSeq(messages[s], 1, n) \in Seq(Row)
  BY <1>1, <1>2
<1>4. QED BY <1>2, <1>3 DEF HistoryRows, n

\* The history, the retrieval and the no-answer path, step by step.
LEMMA PrepareType == ASSUME TypeOK, NEW t \in Turns, Prepare(t) PROVE TypeOK'
<1>1. {"catchAll", "retrieve", "noHitsUser", "noHitsAssistant", "noHitsAudit", "answerUser",
       "ended"} \subseteq Steps
  BY DEF Steps, Running, Stopped, TrySteps, NoHitsSteps, AnswerSteps
<1>2. "chat_response" \in AuditEvents
  BY DEF AuditEvents
<1>3. CASE ReadHistory(t)
  <2>1. ControlOK'
    BY <1>1, <1>3, NamesType, ProceedType DEF TypeOK, ReadHistory
  <2>2. history' \in [Turns -> Seq(Row)]
    BY <1>3, HistoryRowsType, ConstantsAssumption DEF ReadHistory, TypeOK, TurnOK
  <2>3. QED
    BY <1>3, <2>1, <2>2 DEF ReadHistory, TypeOK, ClientOK, TurnOK, DbOK, BreakerOK,
       clientVars, dbVars, rowVars, breakerVars
<1>4. CASE Retrieve(t)
  BY <1>1, <1>4, NamesType, StepType DEF Retrieve
<1>5. CASE ReadFails(t)
  BY <1>1, <1>5, NamesType, StepType DEF ReadFails
<1>6. CASE NoHitsUser(t)
  BY <1>1, <1>6, NamesType, NewRowType, AddMessageType DEF NoHitsUser
<1>7. CASE NoHitsAssistant(t)
  BY <1>1, <1>7, NamesType, NewRowType, AddMessageType DEF NoHitsAssistant
<1>8. CASE NoHitsAudit(t)
  BY <1>1, <1>2, <1>8, NamesType, LogType DEF NoHitsAudit
<1>9. QED BY <1>3, <1>4, <1>5, <1>6, <1>7, <1>8 DEF Prepare

\* A failure reported to the breaker keeps it typed.
LEMMA RecordFailureType ==
  ASSUME BreakerOK, RecordFailure PROVE BreakerOK'
<1>1. degraded' \in BOOLEAN
  BY Zenon DEF RecordFailure
<1>2. consecutiveFailures' \in Nat
  BY DEF RecordFailure, BreakerOK
<1>3. QED BY <1>1, <1>2 DEF BreakerOK

\* The LLM stream and the audits of its failures, step by step.
LEMMA StreamType == ASSUME TypeOK, NEW t \in Turns, Stream(t) PROVE TypeOK'
<1>1. {"llm", "answerAssistant", "ended", "timeoutAudit", "degradedAudit", "errorAudit"}
        \subseteq Steps
  BY DEF Steps, Running, Stopped, TrySteps, AnswerSteps, LlmFailureSteps
<1>2. {"llm_timeout", "llm_degraded", "llm_error"} \subseteq AuditEvents
  BY DEF AuditEvents
<1>3. {"token", "interrupted", "timeout", "error"} \subseteq SseEvents
  BY DEF SseEvents, TerminalEvents
<1>4. CASE AnswerUser(t)
  BY <1>1, <1>4, NamesType, NewRowType, AddMessageType DEF AnswerUser
<1>5. CASE LlmChunk(t)
  <2>1. ControlOK'
    BY <1>1, <1>3, <1>5, NamesType, ProceedType DEF TypeOK, LlmChunk
  <2>2. content' \in [Turns -> Nat]
    BY <1>5 DEF LlmChunk, TypeOK, TurnOK
  <2>3. QED
    BY <1>5, <2>1, <2>2 DEF LlmChunk, TypeOK, ClientOK, TurnOK, DbOK, BreakerOK,
       clientVars, dbVars, rowVars, breakerVars
<1>6. CASE LlmFinish(t)
  BY <1>1, <1>6, NamesType, StepType DEF LlmFinish
<1>7. CASE LlmInterrupted(t)
  BY <1>1, <1>3, <1>7, NamesType, StepType DEF LlmInterrupted
<1>8. CASE LlmTimeout(t) \/ LlmError(t)
  <2>1. PICK next \in Steps : Proceed(t, next, <<>>)
    BY <1>1, <1>8 DEF LlmTimeout, LlmError
  <2>2. ControlOK'
    BY <2>1, NamesType, ProceedType DEF TypeOK
  <2>3. BreakerOK'
    BY <1>8, RecordFailureType DEF TypeOK, LlmTimeout, LlmError
  <2>4. QED
    BY <1>8, <2>2, <2>3 DEF LlmTimeout, LlmError, TypeOK, ClientOK, TurnOK, DbOK, clientVars,
       turnVars, dbVars, rowVars
<1>9. CASE TimeoutAudit(t) \/ DegradedAudit(t) \/ ErrorAudit(t)
  BY <1>1, <1>2, <1>3, <1>9, NamesType, LogType DEF TimeoutAudit, DegradedAudit, ErrorAudit
<1>10. QED BY <1>4, <1>5, <1>6, <1>7, <1>8, <1>9 DEF Stream

\* Storing the answer, its audit, and the catch of run().
LEMMA StoreType == ASSUME TypeOK, NEW t \in Turns, Store(t) PROVE TypeOK'
<1>1. {"answerAudit", "ended"} \subseteq Steps
  BY DEF Steps, Running, Stopped, TrySteps, AnswerSteps
<1>2. {"chat_response", "pipeline_error"} \subseteq AuditEvents
  BY DEF AuditEvents
<1>3. {"done", "error"} \subseteq SseEvents
  BY DEF SseEvents, TerminalEvents
<1>4. CASE AnswerAssistant(t)
  <2> DEFINE row == NewRow(t, "assistant", "normal", FALSE, content[t])
             ack == Proceed(t, "answerAudit", <<>>) /\ RecordSuccess
  <2>1. row \in Row
    BY NewRowType DEF TypeOK, TurnOK
  <2>2. Insert(t, row, ack)
    BY <1>4 DEF AnswerAssistant, StoreAnswer
  <2>3. ack => ControlOK' /\ BreakerOK'
    <3>1. ack => ControlOK'
      BY <1>1, NamesType, ProceedType DEF TypeOK
    <3>2. RecordSuccess => degraded' \in BOOLEAN
      BY DEF RecordSuccess
    <3>3. RecordSuccess => consecutiveFailures' \in Nat
      BY DEF RecordSuccess
    <3>4. QED BY <3>1, <3>2, <3>3 DEF BreakerOK
  <2> HIDE DEF row, ack
  <2>4. ControlOK' /\ BreakerOK' /\ messages' \in [Sessions -> Seq(Row)]
    BY <2>1, <2>2, <2>3, InsertType
  <2>5. QED
    BY <1>4, <2>4 DEF AnswerAssistant, StoreAnswer, TypeOK, ClientOK, TurnOK, DbOK,
       clientVars, turnVars
<1>5. CASE AnswerAudit(t) \/ CatchAll(t)
  BY <1>1, <1>2, <1>3, <1>5, NamesType, LogType DEF AnswerAudit, CatchAll
<1>6. QED BY <1>4, <1>5 DEF Store

\* The steps that are not the server's work on a turn.
LEMMA EnvironmentType ==
  ASSUME TypeOK,
         \/ \E s \in Sessions : CreateSession(s)
         \/ \E t \in Turns : SendMessage(t) \/ ClientClose(t)
         \/ Restart
  PROVE  TypeOK'
<1>1. {"lookup", "httpError", "killed"} \subseteq Steps
  BY DEF Steps, Running, Stopped
<1>2. CASE \E s \in Sessions : CreateSession(s)
  BY <1>2 DEF CreateSession, TypeOK, ControlOK, ClientOK, TurnOK, DbOK, BreakerOK, clientVars,
     turnVars, breakerVars
<1>3. CASE \E t \in Turns : SendMessage(t)
  BY <1>1, <1>3 DEF SendMessage, TypeOK, ControlOK, ClientOK, TurnOK, DbOK, BreakerOK,
     clientVars, dbVars, rowVars, breakerVars
<1>4. CASE \E t \in Turns : ClientClose(t)
  <2>1. PICK t \in Turns : ClientClose(t)
    BY <1>4
  <2>2. ClientOK'
    BY <2>1 DEF ClientClose, TypeOK, ClientOK
  <2>3. QED
    BY <2>1, <2>2 DEF ClientClose, TypeOK, ControlOK, TurnOK, DbOK, BreakerOK, turnVars,
       dbVars, rowVars, breakerVars
<1>5. CASE Restart
  <2>1. ControlOK'
    BY <1>1, <1>5 DEF Restart, TypeOK, ControlOK
  <2>2. BreakerOK' /\ restarts' \in 0..MaxRestarts
    <3>1. degraded' \in BOOLEAN
      BY <1>5 DEF Restart
    <3>2. consecutiveFailures' \in Nat /\ restarts' \in 0..MaxRestarts
      BY <1>5, ConstantsAssumption DEF Restart, TypeOK
    <3>3. QED BY <3>1, <3>2 DEF BreakerOK
  <2>3. QED
    BY <1>5, <2>1, <2>2 DEF Restart, TypeOK, ClientOK, TurnOK, DbOK, clientVars, turnVars,
       dbVars, rowVars
<1>6. QED BY <1>2, <1>3, <1>4, <1>5

\* The initial state is well typed.
LEMMA InitType == Init => TypeOK
<1> SUFFICES ASSUME Init PROVE TypeOK
  OBVIOUS
<1>1. ControlOK /\ ClientOK
  BY DEF Init, ControlOK, ClientOK, Steps
<1>2. TurnOK /\ DbOK
  BY DEF Init, TurnOK, DbOK
<1>3. BreakerOK
  BY DEF Init, BreakerOK
<1>4. restarts \in 0..MaxRestarts
  BY ConstantsAssumption DEF Init
<1>5. QED BY <1>1, <1>2, <1>3, <1>4 DEF TypeOK

\* Every step of every turn, of the clients and of the process.
LEMMA NextType == TypeOK /\ [Next]_vars => TypeOK'
<1>1. ASSUME TypeOK, NEW t \in Turns, TurnStep(t) PROVE TypeOK'
  BY <1>1, StartType, DegradedType, BlockedType, ConfidentialType, PrepareType, StreamType,
     StoreType DEF TurnStep
<1>2. ASSUME TypeOK, Next PROVE TypeOK'
  BY <1>1, <1>2, EnvironmentType DEF Next
<1>3. ASSUME TypeOK, UNCHANGED vars PROVE TypeOK'
  BY <1>3 DEF vars, TypeOK, ControlOK, ClientOK, TurnOK, DbOK, BreakerOK, clientVars, turnVars,
     dbVars, rowVars, breakerVars
<1>4. QED BY <1>2, <1>3

\* Every state run() can reach, with any number of turns and sessions and any
\* faults, has the shape TypeOK gives: in particular each row written and each
\* value of Conversation.type is one the schema allows, and an event written
\* to a response is one the endpoint documents.
THEOREM TypeCorrect == Spec => []TypeOK
BY InitType, NextType, PTL DEF Spec

-----------------------------------------------------------------------------
(***************************************************************************)
(* The breaker.                                                            *)
(***************************************************************************)
\* The steps of a turn that report to the breaker: a stream that is lost, and
\* an answer whose insert was acknowledged.
Fails(t) == LostToLlm(t) /\ RecordFailure
Succeeds(t) ==
  pc[t] = "answerAssistant" /\ Proceed(t, "answerAudit", <<>>) /\ RecordSuccess

\* They and the restart of the process are all that ever moves the breaker.
LEMMA ReportMoves ==
  ASSUME TypeOK, [Next]_vars
  PROVE  UNCHANGED breakerVars \/ Restart \/ \E t \in Turns : Fails(t) \/ Succeeds(t)
<1> DEFINE Same == UNCHANGED breakerVars
<1>1. \A t, step, next, out : Step(t, step, next, out) => Same
  BY DEF Step
<1>2. \A t, step, row, next, out : AddMessage(t, step, row, next, out) => Same
  BY DEF AddMessage, Insert, Write
<1>3. \A t, step, event, next, out : Log(t, step, event, next, out) => Same
  BY DEF Log
<1>4. \A t, step, alertStep, next : Increment(t, step, alertStep, next) => Same
  BY DEF Increment, IncrementTo
<1>5. ASSUME NEW t \in Turns, TurnStep(t) PROVE Same \/ Fails(t) \/ Succeeds(t)
  <2>1. CASE Start(t)
    BY <1>1, <2>1 DEF Start, LookupFails, BeginDegraded, RejectTooLong, Block, Refuse, Admit,
       Begin
  <2>2. CASE Degraded(t)
    BY <1>2, <1>3, <2>2 DEF Degraded, FallbackUser, FallbackAssistant, FallbackAudit
  <2>3. CASE Blocked(t)
    BY <1>2, <1>3, <1>4, <2>3 DEF Blocked, BlockedAudit, BlockedIncrement, BlockedAlert,
       BlockedUser, BlockedAssistant
  <2>4. CASE Confidential(t)
    BY <1>2, <1>3, <1>4, <2>4 DEF Confidential, ConfidentialMark, ConfidentialIncrement,
       ConfidentialAlert, ConfidentialUser, ConfidentialAssistant, ConfidentialAudit
  <2>5. CASE Prepare(t)
    BY <1>1, <1>2, <1>3, <2>5 DEF Prepare, ReadHistory, Retrieve, ReadFails, NoHitsUser,
       NoHitsAssistant, NoHitsAudit
  <2>6. CASE Stream(t)
    <3>1. CASE LlmTimeout(t) \/ LlmError(t)
      <4>1. \E next \in LlmFailureSteps :
              Proceed(t, next, <<>>) /\ (aborted[t] => next = "timeoutAudit")
        BY <3>1 DEF LlmTimeout, LlmError, LlmFailureSteps
      <4>2. \E next \in LlmFailureSteps : pc'[t] = next /\ (aborted[t] => next = "timeoutAudit")
        BY <4>1 DEF Proceed, TypeOK, ControlOK
      <4>3. pc[t] = "llm" /\ RecordFailure
        BY <3>1 DEF LlmTimeout, LlmError
      <4>4. QED BY <4>2, <4>3 DEF Fails, LostToLlm
    <3>2. CASE ~(LlmTimeout(t) \/ LlmError(t))
      BY <1>1, <1>2, <1>3, <2>6, <3>2 DEF Stream, AnswerUser, LlmChunk, LlmFinish,
         LlmInterrupted, TimeoutAudit, DegradedAudit, ErrorAudit
    <3>3. QED BY <3>1, <3>2
  <2>7. CASE Store(t)
    BY <1>3, <2>7 DEF Store, AnswerAssistant, StoreAnswer, Insert, Write, AnswerAudit, CatchAll,
       Succeeds
  <2>8. QED
    BY <1>5, <2>1, <2>2, <2>3, <2>4, <2>5, <2>6, <2>7 DEF TurnStep
<1>6. QED
  BY <1>5 DEF Next, vars, CreateSession, SendMessage, ClientClose

\* None of the four ways makes flag and counter disagree.
LEMMA DegradedConsistentStep ==
  TypeOK /\ DegradedConsistent /\ [Next]_vars => DegradedConsistent'
<1> SUFFICES ASSUME TypeOK, DegradedConsistent, [Next]_vars PROVE DegradedConsistent'
  OBVIOUS
<1>1. consecutiveFailures \in Nat /\ DegradedThreshold \in Nat \ {0}
  BY ConstantsAssumption DEF TypeOK, BreakerOK
<1>2. CASE UNCHANGED breakerVars
  BY <1>2 DEF breakerVars, DegradedConsistent
<1>3. CASE RecordFailure
  <2>1. consecutiveFailures >= DegradedThreshold
          => consecutiveFailures + 1 >= DegradedThreshold
    BY <1>1
  <2>2. consecutiveFailures' = consecutiveFailures + 1
    BY <1>3 DEF RecordFailure
  <2>3. degraded' <=> (degraded \/ consecutiveFailures + 1 >= DegradedThreshold)
    BY <1>3, Zenon DEF RecordFailure
  <2>4. QED BY <2>1, <2>2, <2>3, Zenon DEF DegradedConsistent
<1>4. CASE RecordSuccess \/ Restart
  <2>1. ~degraded' /\ consecutiveFailures' = 0
    BY <1>4 DEF RecordSuccess, Restart
  <2>2. ~(0 >= DegradedThreshold)
    BY <1>1
  <2>3. QED BY <2>1, <2>2 DEF DegradedConsistent
<1>5. QED BY <1>2, <1>3, <1>4, ReportMoves DEF Fails, Succeeds

\* However many turns report to the breaker, in whatever order their calls end
\* and whatever fails in between, it is open exactly when the failures since
\* the last success have reached ai_degraded_threshold.
THEOREM DegradedIsConsistent == Spec => []DegradedConsistent
<1>1. Init => DegradedConsistent
  <2>1. ~(0 >= DegradedThreshold)
    BY ConstantsAssumption
  <2>2. QED BY <2>1 DEF Init, DegradedConsistent
<1>2. QED
  BY <1>1, DegradedConsistentStep, TypeCorrect, PTL DEF Spec

-----------------------------------------------------------------------------
(***************************************************************************)
(* The count of sensitive intents.                                         *)
(***************************************************************************)
\* The session of t is counted up by one, and t may learn the new count.
CountedUp(t) ==
  LET count == sensitiveIntentCount[SessionOf[t]] + 1
  IN /\ sensitiveIntentCount' = [sensitiveIntentCount EXCEPT ![SessionOf[t]] = count]
     /\ seenCount' = [seenCount EXCEPT ![t] = count] \/ UNCHANGED seenCount

\* Every step leaves the counts alone, or raises one and hands it to one turn or none.
LEMMA CountMoves ==
  ASSUME [Next]_vars
  PROVE  \/ UNCHANGED <<sensitiveIntentCount, seenCount>>
         \/ \E t \in Turns : CountedUp(t)
<1> DEFINE Same == UNCHANGED <<sensitiveIntentCount, seenCount>>
<1>1. \A t, step, next, out : Step(t, step, next, out) => Same
  BY DEF Step, turnVars, dbVars, rowVars
<1>2. \A t, step, row, next, out : AddMessage(t, step, row, next, out) => Same
  BY DEF AddMessage, turnVars
<1>3. \A t, step, event, next, out : Log(t, step, event, next, out) => Same
  BY DEF Log, turnVars, rowVars
<1>4. \A t, step, alertStep, next : Increment(t, step, alertStep, next) => Same \/ CountedUp(t)
  BY DEF Increment, IncrementTo, Write, CountedUp
<1>5. ASSUME NEW t \in Turns, TurnStep(t) PROVE Same \/ CountedUp(t)
  <2>1. CASE Start(t)
    BY <1>1, <2>1 DEF Start, LookupFails, BeginDegraded, RejectTooLong, Block, Refuse, Admit,
       Begin
  <2>2. CASE Degraded(t)
    BY <1>2, <1>3, <2>2 DEF Degraded, FallbackUser, FallbackAssistant, FallbackAudit
  <2>3. CASE Blocked(t)
    BY <1>2, <1>3, <1>4, <2>3 DEF Blocked, BlockedAudit, BlockedIncrement, BlockedAlert,
       BlockedUser, BlockedAssistant
  <2>4. CASE Confidential(t)
    BY <1>2, <1>3, <1>4, <2>4 DEF Confidential, ConfidentialMark, ConfidentialIncrement,
       ConfidentialAlert, ConfidentialUser, ConfidentialAssistant, ConfidentialAudit, turnVars
  <2>5. CASE Prepare(t)
    BY <1>1, <1>2, <1>3, <2>5 DEF Prepare, ReadHistory, Retrieve, ReadFails, NoHitsUser,
       NoHitsAssistant, NoHitsAudit, dbVars, rowVars
  <2>6. CASE Stream(t)
    BY <1>1, <1>2, <1>3, <2>6 DEF Stream, AnswerUser, LlmChunk, LlmFinish,
       LlmInterrupted, LlmTimeout, LlmError, TimeoutAudit, DegradedAudit, ErrorAudit,
       turnVars, dbVars, rowVars
  <2>7. CASE Store(t)
    BY <1>3, <2>7 DEF Store, AnswerAssistant, StoreAnswer, AnswerAudit, CatchAll, turnVars
  <2>8. QED
    BY <1>5, <2>1, <2>2, <2>3, <2>4, <2>5, <2>6, <2>7 DEF TurnStep
<1>6. QED
  BY <1>5 DEF Next, vars, CreateSession, SendMessage, ClientClose, Restart, turnVars, dbVars,
     rowVars

\* A raised count is above all that were handed out before it.
LEMMA SeenCountsDistinctStep ==
  TypeOK /\ SeenCountsDistinct /\ [Next]_vars => SeenCountsDistinct'
<1> SUFFICES ASSUME TypeOK, SeenCountsDistinct, [Next]_vars PROVE SeenCountsDistinct'
  OBVIOUS
<1>1. CASE UNCHANGED <<sensitiveIntentCount, seenCount>>
  BY <1>1 DEF SeenCountsDistinct
<1>2. ASSUME NEW v \in Turns, CountedUp(v) PROVE SeenCountsDistinct'
  <2> DEFINE count == sensitiveIntentCount[SessionOf[v]] + 1
  <2>1. /\ SessionOf \in [Turns -> Sessions]
        /\ sensitiveIntentCount \in [Sessions -> Nat]
        /\ seenCount \in [Turns -> Nat]
    BY ConstantsAssumption DEF TypeOK, DbOK, TurnOK
  <2>2. /\ sensitiveIntentCount' = [sensitiveIntentCount EXCEPT ![SessionOf[v]] = count]
        /\ \A t \in Turns : seenCount'[t] = seenCount[t] \/ (t = v /\ seenCount'[t] = count)
    <3>1. CASE UNCHANGED seenCount
      BY <1>2, <3>1 DEF CountedUp
    <3>2. CASE seenCount' = [seenCount EXCEPT ![v] = count]
      <4>1. \A t \in Turns : seenCount'[t] = IF t = v THEN count ELSE seenCount[t]
        BY <2>1, <3>2
      <4>2. QED BY <1>2, <4>1 DEF CountedUp
    <3>3. QED BY <1>2, <3>1, <3>2 DEF CountedUp
  <2>3. ASSUME NEW t \in Turns
        PROVE  seenCount'[t] <= sensitiveIntentCount'[SessionOf[t]]
    <3>1. /\ SessionOf[t] \in Sessions /\ SessionOf[v] \in Sessions
          /\ seenCount[t] \in Nat
          /\ sensitiveIntentCount[SessionOf[t]] \in Nat
          /\ seenCount[t] <= sensitiveIntentCount[SessionOf[t]]
      BY <2>1 DEF SeenCountsDistinct
    <3>2. CASE SessionOf[t] = SessionOf[v]
      <4>1. sensitiveIntentCount'[SessionOf[t]] = sensitiveIntentCount[SessionOf[t]] + 1
        BY <2>1, <2>2, <3>1, <3>2
      <4>2. seenCount'[t] \in {seenCount[t], sensitiveIntentCount[SessionOf[t]] + 1}
        BY <2>2, <3>2
      <4>3. QED BY <3>1, <4>1, <4>2
    <3>3. CASE SessionOf[t] # SessionOf[v]
      <4>1. sensitiveIntentCount'[SessionOf[t]] = sensitiveIntentCount[SessionOf[t]]
        BY <2>1, <2>2, <3>1, <3>3
      <4>2. seenCount'[t] = seenCount[t]
        BY <2>2, <3>3
      <4>3. QED BY <3>1, <4>1, <4>2
    <3>4. QED BY <3>2, <3>3
  <2>4. ASSUME NEW t \in Turns, NEW u \in Turns, t # u, SessionOf[t] = SessionOf[u],
               seenCount'[t] > 0
        PROVE  seenCount'[t] # seenCount'[u]
    <3>1. CASE t = v /\ seenCount'[t] = count
      <4>1. seenCount'[u] = seenCount[u]
        BY <2>2, <2>4, <3>1
      <4>2. seenCount[u] < count
        BY <2>1, <2>4, <3>1 DEF SeenCountsDistinct
      <4>3. QED BY <2>1, <3>1, <4>1, <4>2
    <3>2. CASE u = v /\ seenCount'[u] = count
      <4>1. seenCount'[t] = seenCount[t]
        BY <2>2, <2>4, <3>2
      <4>2. seenCount[t] < count
        BY <2>1, <2>4, <3>2 DEF SeenCountsDistinct
      <4>3. QED BY <2>1, <3>2, <4>1, <4>2
    <3>3. CASE seenCount'[t] = seenCount[t] /\ seenCount'[u] = seenCount[u]
      BY <2>4, <3>3 DEF SeenCountsDistinct
    <3>4. QED BY <2>2, <3>1, <3>2, <3>3
  <2>5. QED BY <2>3, <2>4 DEF SeenCountsDistinct
<1>3. QED BY <1>1, <1>2, CountMoves

\* However sensitive turns of a session interleave, and whichever increments
\* are lost or not acknowledged, no two of them are ever told the same count:
\* so no level of sensitive_intent_alert_threshold can be reached twice.
THEOREM SeenCountsAreDistinct == Spec => []SeenCountsDistinct
<1>1. Init => SeenCountsDistinct
  BY ConstantsAssumption DEF Init, SeenCountsDistinct
<1>2. QED
  BY <1>1, SeenCountsDistinctStep, TypeCorrect, PTL DEF Spec

-----------------------------------------------------------------------------
(***************************************************************************)
(* What is stored, said and audited of a turn.                             *)
(***************************************************************************)
\* No row of t, its question only, or its question and its reply.
NoRows(t) == RowsOf(t, "user") = {} /\ RowsOf(t, "assistant") = {}
Asked(t) == RowsOf(t, "assistant") = {} /\ \E i : RowsOf(t, "user") = {i}
Replied(t) == \E i, j : RowsOf(t, "user") = {i} /\ RowsOf(t, "assistant") = {j} /\ i < j

\* The reply of t, if there is one, has n chunks; the tokens that t's client got.
ReplyHas(t, n) == \A i \in RowsOf(t, "assistant") : messages[SessionOf[t]][i].chunks = n
Tokens(t) == Cardinality({j \in DOMAIN events[t] : events[t][j] = "token"})

\* The steps before the question is stored, before the reply is, and after it.
BeforeQuestion ==
  {"idle", "lookup", "httpError", "fallbackUser", "confidentialMark", "confidentialIncrement",
   "confidentialAlert", "confidentialUser", "blockedAudit", "sensitiveAudit",
   "blockedIncrement", "blockedAlert", "blockedUser", "history", "retrieve", "noHitsUser",
   "answerUser"}
BeforeReply ==
  {"fallbackAssistant", "confidentialAssistant", "blockedAssistant", "noHitsAssistant", "llm",
   "answerAssistant", "timeoutAudit", "degradedAudit", "errorAudit"}
AfterReply == {"fallbackAudit", "confidentialAudit", "noHitsAudit", "answerAudit"}
GuardAudited == {"blockedIncrement", "blockedAlert", "blockedUser", "blockedAssistant"}

\* The rows of a turn are those that its step says; an exception leaves any of
\* the three.
RowsByStep(t) ==
  /\ NoRows(t) \/ Asked(t) \/ Replied(t)
  /\ pc[t] \in BeforeQuestion => NoRows(t)
  /\ pc[t] \in BeforeReply => Asked(t)
  /\ pc[t] \in AfterReply => Replied(t)

\* A response ends with what was stored.
SaidByRows(t) ==
  /\ pc[t] # "ended" => \A e \in TerminalEvents : ~Wrote(t, e)
  /\ Wrote(t, "done") => Replied(t)
  /\ Wrote(t, "interrupted") \/ Wrote(t, "timeout") => Asked(t)

\* The outcome is audited by the step that ends the response.
Final == Failures \cup (Outcomes \ {"prompt_guard_blocked"})
AuditBySaid(t) ==
  /\ pc[t] # "ended" => \A e \in Final : ~Audited(t, e)
  /\ Wrote(t, "done") => \A e \in Failures : ~Audited(t, e)
  /\ Wrote(t, "timeout") \/ Wrote(t, "interrupted") \/ Wrote(t, "error")
       => \A e \in Outcomes \ {"prompt_guard_blocked"} : ~Audited(t, e)
  /\ "unlogged" \notin DbFaults =>
       /\ pc[t] \in GuardAudited => Audited(t, "prompt_guard_blocked")
       /\ Wrote(t, "done") => \E e \in Outcomes : Audited(t, e)
       /\ Wrote(t, "timeout") => Audited(t, "llm_timeout")

\* The chunks collected are the tokens sent, from the first to the stored reply.
ChunksCounted(t) ==
  /\ pc[t] \in BeforeQuestion \cup {"noHitsAssistant", "noHitsAudit"} => content[t] = 0
  /\ pc[t] \in BeforeQuestion \cup {"llm", "answerAssistant", "answerAudit"}
       => Tokens(t) = content[t]
  /\ pc[t] = "answerAudit" => ReplyHas(t, content[t])
  /\ Audited(t, "chat_response") => content[t] = 0 \/ ReplyHas(t, Tokens(t))

Ledger(t) == RowsByStep(t) /\ SaidByRows(t) /\ AuditBySaid(t) /\ ChunksCounted(t)
Ledgers == \A t \in Turns : Ledger(t)

\* The parts of a turn's ledger that a step may leave alone.
KeepsRows(t) ==
  /\ NoRows(t)' <=> NoRows(t)
  /\ Asked(t)' <=> Asked(t)
  /\ Replied(t)' <=> Replied(t)
  /\ \A n : ReplyHas(t, n)' <=> ReplyHas(t, n)
KeepsAudit(t) == \A e : Audited(t, e)' <=> Audited(t, e)
Spared(t) ==
  /\ pc'[t] = pc[t] /\ events'[t] = events[t] /\ content'[t] = content[t]
  /\ KeepsRows(t) /\ KeepsAudit(t)

\* What a step of t writes to its response.
Said(out) == {out[i] : i \in DOMAIN out}
Goes(t, step, next, out) ==
  /\ pc[t] = step /\ pc'[t] = next
  /\ \A e : Wrote(t, e)' <=> Wrote(t, e) \/ e \in Said(out)
  /\ "token" \notin Said(out) => Tokens(t)' = Tokens(t)
Throws(t, step) == \E next \in {"catchAll", "escaped"} : Goes(t, step, next, <<>>)
Stores(t, role, chunks) ==
  /\ role = "user" => (NoRows(t) => Asked(t)')
  /\ role = "assistant" => (Asked(t) => Replied(t)' /\ ReplyHas(t, chunks)')

\* What a canned reply and a single event say.
LEMMA SaidFacts ==
  Said(<<>>) = {} /\ Said(FixedText) = {"token", "done"} /\ \A e : Said(<<e>>) = {e}
BY DEF Said, FixedText

LEMMA SameRows == ASSUME UNCHANGED messages, NEW t \in Turns PROVE KeepsRows(t)
<1>1. \A role : RowsOf(t, role)' = RowsOf(t, role)
  BY DEF RowsOf
<1>2. QED BY <1>1 DEF KeepsRows, NoRows, Asked, Replied, ReplyHas

LEMMA SameAudit == ASSUME UNCHANGED audit, NEW t \in Turns PROVE KeepsAudit(t)
BY DEF KeepsAudit, Audited

\* A turn that no step touches keeps its ledger.
LEMMA SparedKeeps == ASSUME NEW t \in Turns, Ledger(t), Spared(t) PROVE Ledger(t)'
<1>1. Tokens(t)' = Tokens(t) /\ \A e : Wrote(t, e)' <=> Wrote(t, e)
  BY DEF Spared, Tokens, Wrote
<1>2. QED
  BY <1>1 DEF Spared, KeepsRows, KeepsAudit, Ledger, RowsByStep, SaidByRows, AuditBySaid,
     ChunksCounted

\* Proceed() appends to t's response and to no other.
LEMMA ProceedGoes ==
  ASSUME ControlOK, NEW t \in Turns, NEW next, NEW out \in Seq(SseEvents),
         Proceed(t, next, out)
  PROVE  /\ Goes(t, pc[t], next, out)
         /\ \A u \in Turns \ {t} : pc'[u] = pc[u] /\ events'[u] = events[u]
<1>1. events[t] \in Seq(SseEvents) /\ events'[t] = events[t] \o out /\ pc'[t] = next
  BY DEF ControlOK, Proceed
<1>2. /\ DOMAIN events'[t] = 1..(Len(events[t]) + Len(out))
      /\ DOMAIN events[t] = 1..Len(events[t]) /\ DOMAIN out = 1..Len(out)
      /\ Len(events[t]) \in Nat /\ Len(out) \in Nat
      /\ \A i \in DOMAIN events[t] : events'[t][i] = events[t][i]
      /\ \A i \in 1..Len(out) : events'[t][i + Len(events[t])] = out[i]
  BY <1>1
<1>3. \A i \in DOMAIN events'[t] : i \in DOMAIN events[t]
        \/ (i - Len(events[t]) \in DOMAIN out /\ events'[t][i] = out[i - Len(events[t])])
  BY <1>1, <1>2
<1>4. ASSUME NEW e PROVE Wrote(t, e)' <=> Wrote(t, e) \/ e \in Said(out)
  <2>1. Wrote(t, e)' => Wrote(t, e) \/ e \in Said(out)
    BY <1>2, <1>3 DEF Wrote, Said
  <2>2. Wrote(t, e) => Wrote(t, e)'
    BY <1>2 DEF Wrote
  <2>3. ASSUME e \in Said(out) PROVE Wrote(t, e)'
    <3>1. PICK i \in DOMAIN out : out[i] = e
      BY <2>3 DEF Said
    <3>2. i + Len(events[t]) \in DOMAIN events'[t] /\ events'[t][i + Len(events[t])] = e
      BY <1>2, <3>1
    <3>3. QED BY <3>2 DEF Wrote
  <2>4. QED BY <2>1, <2>2, <2>3
<1>5. ASSUME "token" \notin Said(out) PROVE Tokens(t)' = Tokens(t)
  <2>1. {j \in DOMAIN events'[t] : events'[t][j] = "token"}
          = {j \in DOMAIN events[t] : events[t][j] = "token"}
    BY <1>2, <1>3, <1>5 DEF Said
  <2>2. QED BY <2>1 DEF Tokens
<1>6. \A u \in Turns \ {t} : pc'[u] = pc[u] /\ events'[u] = events[u]
  BY DEF ControlOK, Proceed
<1>7. QED BY <1>1, <1>4, <1>5, <1>6 DEF Goes

LEMMA ThrowGoes ==
  ASSUME ControlOK, NEW t \in Turns, Throw(t)
  PROVE  /\ Throws(t, pc[t])
         /\ \A u \in Turns \ {t} : pc'[u] = pc[u] /\ events'[u] = events[u]
<1>1. PICK next \in {"catchAll", "escaped"} : Proceed(t, next, <<>>)
  BY DEF Throw
<1>2. <<>> \in Seq(SseEvents)
  OBVIOUS
<1>3. QED BY <1>1, <1>2, ProceedGoes DEF Throws

\* An insert adds one row of t, at the end of its session.
LEMMA AppendStores ==
  ASSUME TypeOK, NEW t \in Turns, NEW row \in Row, row.turn = t,
         messages' = [messages EXCEPT ![SessionOf[t]] = Append(@, row)]
  PROVE  Stores(t, row.role, row.chunks) /\ \A u \in Turns \ {t} : KeepsRows(u)
<1> DEFINE s == SessionOf[t]
           n == Len(messages[s]) + 1
<1>1. s \in Sessions /\ messages \in [Sessions -> Seq(Row)] /\ SessionOf \in [Turns -> Sessions]
  BY ConstantsAssumption DEF TypeOK, DbOK
<1>2. /\ messages[s] \in Seq(Row) /\ n \in Nat /\ messages'[s] = Append(messages[s], row)
      /\ DOMAIN messages[s] = 1..(n - 1) /\ DOMAIN messages'[s] = 1..n
      /\ messages'[s][n] = row
      /\ \A i \in 1..(n - 1) : messages'[s][i] = messages[s][i]
      /\ \A r \in Sessions \ {s} : messages'[r] = messages[r]
  BY <1>1
<1> HIDE DEF n
<1>3. /\ RowsOf(t, row.role)' = RowsOf(t, row.role) \cup {n}
      /\ \A role : role # row.role => RowsOf(t, role)' = RowsOf(t, role)
      /\ \A role : \A i \in RowsOf(t, role) : i \in 1..(n - 1)
  BY <1>2 DEF RowsOf
<1>4. ASSUME NEW u \in Turns \ {t} PROVE KeepsRows(u)
  <2>1. \A role : /\ RowsOf(u, role)' = RowsOf(u, role)
                  /\ \A i \in RowsOf(u, role) :
                       messages'[SessionOf[u]][i] = messages[SessionOf[u]][i]
    <3>1. CASE SessionOf[u] = s
      BY <1>2, <1>4, <3>1 DEF RowsOf
    <3>2. CASE SessionOf[u] # s
      BY <1>1, <1>2, <1>4, <3>2 DEF RowsOf
    <3>3. QED BY <3>1, <3>2
  <2>2. /\ RowsOf(u, "assistant")' = RowsOf(u, "assistant")
        /\ \A i \in RowsOf(u, "assistant") :
             messages'[SessionOf[u]][i] = messages[SessionOf[u]][i]
    BY <2>1
  <2>3. ASSUME NEW m PROVE ReplyHas(u, m)' <=> ReplyHas(u, m)
    BY <2>2, Zenon DEF ReplyHas
  <2>4. QED BY <2>1, <2>3 DEF KeepsRows, NoRows, Asked, Replied
<1>5. ASSUME row.role = "user", NoRows(t) PROVE Asked(t)'
  BY <1>3, <1>5 DEF NoRows, Asked
<1>6. ASSUME row.role = "assistant", Asked(t) PROVE Replied(t)' /\ ReplyHas(t, row.chunks)'
  <2>1. PICK i : RowsOf(t, "user") = {i}
    BY <1>6 DEF Asked
  <2>2. RowsOf(t, "user")' = {i} /\ RowsOf(t, "assistant")' = {n}
    BY <1>3, <1>6, <2>1 DEF Asked
  <2>3. i < n
    <3>1. i \in 1..(n - 1)
      BY <1>3, <2>1
    <3>2. QED BY <1>2, <3>1
  <2>4. QED BY <1>2, <2>2, <2>3 DEF Replied, ReplyHas
<1>7. QED BY <1>4, <1>5, <1>6 DEF Stores

\* The kinds of step, by what they do to the ledgers.
Spares(t) == \A u \in Turns \ {t} : Spared(u)
SameContent(t) == content'[t] = content[t]

LEMMA StepGoes ==
  ASSUME TypeOK, NEW t \in Turns, NEW step, NEW next, NEW out \in Seq(SseEvents),
         Step(t, step, next, out)
  PROVE  Goes(t, step, next, out) /\ SameContent(t) /\ KeepsRows(t) /\ KeepsAudit(t) /\ Spares(t)
<1>1. UNCHANGED <<content, messages, audit>>
  BY DEF Step, turnVars, dbVars, rowVars
<1>2. QED
  BY <1>1, ProceedGoes, SameRows, SameAudit DEF Step, TypeOK, Spares, Spared, SameContent

LEMMA LogGoes ==
  ASSUME TypeOK, NEW t \in Turns, NEW step, NEW event, NEW next, NEW out \in Seq(SseEvents),
         Log(t, step, event, next, out)
  PROVE  /\ Goes(t, step, next, out) /\ SameContent(t) /\ KeepsRows(t) /\ Spares(t)
         /\ \/ \A e : Audited(t, e)' <=> Audited(t, e) \/ e = event
            \/ "unlogged" \in DbFaults /\ KeepsAudit(t)
<1>1. UNCHANGED <<content, messages>>
  BY DEF Log, turnVars, rowVars
<1>2. /\ \/ \A e : Audited(t, e)' <=> Audited(t, e) \/ e = event
         \/ "unlogged" \in DbFaults /\ KeepsAudit(t)
      /\ \A u \in Turns \ {t} : KeepsAudit(u)
  BY DEF Log, Audited, KeepsAudit
<1>3. QED BY <1>1, <1>2, ProceedGoes, SameRows DEF Log, TypeOK, Spares, Spared, SameContent

\* An insert of row that is acknowledged goes on with next and out.
Inserts(t, row, next, out) ==
  \/ /\ messages' = [messages EXCEPT ![SessionOf[t]] = Append(@, row)]
     /\ Proceed(t, next, out) \/ Throw(t)
  \/ UNCHANGED messages /\ Throw(t)

LEMMA InsertGoes ==
  ASSUME TypeOK, NEW t \in Turns, NEW row \in Row, row.turn = t, NEW next,
         NEW out \in Seq(SseEvents), Inserts(t, row, next, out), UNCHANGED <<content, audit>>
  PROVE  /\ SameContent(t) /\ KeepsAudit(t) /\ Spares(t)
         /\ \/ Goes(t, pc[t], next, out) /\ Stores(t, row.role, row.chunks)
            \/ Throws(t, pc[t]) /\ (Stores(t, row.role, row.chunks) \/ KeepsRows(t))
<1>1. ControlOK
  BY DEF TypeOK
<1> DEFINE Others == \A u \in Turns \ {t} : pc'[u] = pc[u] /\ events'[u] = events[u]
<1>2. Throw(t) => Throws(t, pc[t]) /\ Others
  BY <1>1, ThrowGoes
<1>3. Proceed(t, next, out) => Goes(t, pc[t], next, out) /\ Others
  BY <1>1, ProceedGoes
<1>4. UNCHANGED messages => \A u \in Turns : KeepsRows(u)
  BY SameRows
<1>5. messages' = [messages EXCEPT ![SessionOf[t]] = Append(@, row)]
        => Stores(t, row.role, row.chunks) /\ \A u \in Turns \ {t} : KeepsRows(u)
  BY AppendStores
<1>6. QED
  BY <1>2, <1>3, <1>4, <1>5, SameAudit DEF Inserts, SameContent, Spares, Spared

LEMMA AddMessageGoes ==
  ASSUME TypeOK, NEW t \in Turns, NEW step, NEW role \in {"user", "assistant"},
         NEW type \in {"normal", "blocked", "confidential"}, NEW guidance \in BOOLEAN,
         NEW chunks \in Nat, NEW next, NEW out \in Seq(SseEvents),
         AddMessage(t, step, NewRow(t, role, type, guidance, chunks), next, out)
  PROVE  /\ SameContent(t) /\ KeepsAudit(t) /\ Spares(t)
         /\ \/ Goes(t, step, next, out) /\ Stores(t, role, chunks)
            \/ Throws(t, step) /\ (Stores(t, role, chunks) \/ KeepsRows(t))
<1> DEFINE row == NewRow(t, role, type, guidance, chunks)
<1>1. row \in Row /\ row.turn = t /\ row.role = role /\ row.chunks = chunks
  BY NewRowType DEF NewRow
<1>2. pc[t] = step /\ Inserts(t, row, next, out) /\ UNCHANGED <<content, audit>>
  BY DEF AddMessage, Insert, Write, Inserts, turnVars
<1> HIDE DEF row
<1>3. QED BY <1>1, <1>2, InsertGoes

LEMMA StoreAnswerGoes ==
  ASSUME TypeOK, NEW t \in Turns, NEW n \in Nat, StoreAnswer(t, n)
  PROVE  /\ SameContent(t) /\ KeepsAudit(t) /\ Spares(t)
         /\ \/ Goes(t, "answerAssistant", "answerAudit", <<>>) /\ Stores(t, "assistant", n)
            \/ /\ Throws(t, "answerAssistant")
               /\ Stores(t, "assistant", n) \/ KeepsRows(t)
<1> DEFINE row == NewRow(t, "assistant", "normal", FALSE, n)
<1>1. row \in Row /\ row.turn = t /\ row.role = "assistant" /\ row.chunks = n
  BY NewRowType DEF NewRow
<1>2. /\ pc[t] = "answerAssistant" /\ Inserts(t, row, "answerAudit", <<>>)
      /\ UNCHANGED <<content, audit>>
  BY DEF StoreAnswer, Insert, Write, Inserts, turnVars
<1> HIDE DEF row
<1>3. <<>> \in Seq(SseEvents)
  OBVIOUS
<1>4. QED BY <1>1, <1>2, <1>3, InsertGoes

LEMMA IncrementGoes ==
  ASSUME TypeOK, NEW t \in Turns, NEW step, NEW alertStep, NEW next,
         Increment(t, step, alertStep, next)
  PROVE  /\ SameContent(t) /\ KeepsRows(t) /\ KeepsAudit(t) /\ Spares(t)
         /\ \/ Goes(t, step, alertStep, <<>>) \/ Goes(t, step, next, <<>>) \/ Throws(t, step)
<1>1. UNCHANGED <<content, messages, audit>> /\ pc[t] = step
  BY DEF Increment, IncrementTo
<1>2. Proceed(t, alertStep, <<>>) \/ Proceed(t, next, <<>>) \/ Throw(t)
  BY DEF Increment, IncrementTo, Write
<1>3. ControlOK /\ <<>> \in Seq(SseEvents)
  BY DEF TypeOK
<1>4. QED
  BY <1>1, <1>2, <1>3, ProceedGoes, ThrowGoes, SameRows, SameAudit DEF Spares, Spared, SameContent

-----------------------------------------------------------------------------
\* An exception leaves whatever had been stored.
LEMMA ThrowLedger ==
  ASSUME NEW t \in Turns, Ledger(t), NEW step, step # "ended", Throws(t, step),
         SameContent(t), KeepsAudit(t),
         KeepsRows(t) \/ NoRows(t)' \/ Asked(t)' \/ Replied(t)'
  PROVE  Ledger(t)'
<1>1. PICK next \in {"catchAll", "escaped"} : Goes(t, step, next, <<>>)
  BY DEF Throws
<1>2. QED
  BY <1>1, SaidFacts
     DEF Goes, SameContent, KeepsRows, KeepsAudit, Ledger, RowsByStep,
     SaidByRows, AuditBySaid, ChunksCounted, BeforeQuestion, BeforeReply,
     AfterReply, GuardAudited, Final, TerminalEvents, Failures, Outcomes

\* Before the question is stored nothing is said, and only the guard audits.
LEMMA QuietLedger ==
  ASSUME NEW t \in Turns, Ledger(t), NEW step \in BeforeQuestion, NEW next \in BeforeQuestion,
         Goes(t, step, next, <<>>), SameContent(t), KeepsRows(t),
         \/ KeepsAudit(t)
         \/ \A e : Audited(t, e)' <=> Audited(t, e) \/ e = "sensitive_intent_alert",
         next \in GuardAudited => step \in GuardAudited
  PROVE  Ledger(t)'
BY SaidFacts
     DEF Goes, SameContent, KeepsRows, KeepsAudit, Ledger, RowsByStep,
     SaidByRows, AuditBySaid, ChunksCounted, BeforeQuestion, BeforeReply,
     AfterReply, GuardAudited, Final, TerminalEvents, Failures, Outcomes

\* The question is stored.
LEMMA AskLedger ==
  ASSUME TypeOK, NEW t \in Turns, Ledger(t), NEW step \in BeforeQuestion,
         NEW next \in {"fallbackAssistant", "blockedAssistant", "confidentialAssistant",
                       "noHitsAssistant", "llm"},
         next = "blockedAssistant" => step \in GuardAudited,
         NEW type \in {"normal", "blocked", "confidential"},
         AddMessage(t, step, NewRow(t, "user", type, FALSE, 0), next, <<>>)
  PROVE  Ledger(t)' /\ Spares(t)
<1>1. /\ SameContent(t) /\ KeepsAudit(t) /\ Spares(t)
      /\ \/ Goes(t, step, next, <<>>) /\ Stores(t, "user", 0)
         \/ Throws(t, step) /\ (Stores(t, "user", 0) \/ KeepsRows(t))
  BY NamesType, AddMessageGoes
<1>2. NoRows(t)
  BY <1>1 DEF Goes, Throws, Ledger, RowsByStep
<1>3. CASE Throws(t, step)
  BY <1>1, <1>2, <1>3, ThrowLedger DEF Stores, BeforeQuestion
<1>4. CASE Goes(t, step, next, <<>>) /\ Stores(t, "user", 0)
  BY <1>1, <1>2, <1>4, SaidFacts
     DEF Goes, Stores, SameContent, KeepsRows, KeepsAudit, Ledger, RowsByStep,
     SaidByRows, AuditBySaid, ChunksCounted, BeforeQuestion, BeforeReply,
     AfterReply, GuardAudited, Final, TerminalEvents, Failures, Outcomes
<1>5. QED BY <1>1, <1>3, <1>4

\* A canned reply is stored, and for a blocked message sent in the same step.
LEMMA ReplyLedger ==
  ASSUME TypeOK, NEW t \in Turns, Ledger(t), NEW step \in BeforeReply,
         NEW next, NEW out \in Seq(SseEvents),
         \/ step = "blockedAssistant" /\ next = "ended" /\ out = FixedText
         \/ /\ step \in {"fallbackAssistant", "confidentialAssistant", "noHitsAssistant"}
            /\ next \in AfterReply \ {"answerAudit"} /\ out = <<>>
            /\ next = "noHitsAudit" => step = "noHitsAssistant",
         NEW type \in {"normal", "blocked", "confidential"}, NEW guidance \in BOOLEAN,
         AddMessage(t, step, NewRow(t, "assistant", type, guidance, 0), next, out)
  PROVE  Ledger(t)' /\ Spares(t)
<1>1. /\ SameContent(t) /\ KeepsAudit(t) /\ Spares(t)
      /\ \/ Goes(t, step, next, out) /\ Stores(t, "assistant", 0)
         \/ Throws(t, step) /\ (Stores(t, "assistant", 0) \/ KeepsRows(t))
  BY AddMessageGoes
<1>2. Asked(t)
  BY <1>1 DEF Goes, Throws, Ledger, RowsByStep
<1>3. CASE Throws(t, step)
  BY <1>1, <1>2, <1>3, ThrowLedger DEF Stores, BeforeReply
<1>4. CASE Goes(t, step, next, out) /\ Stores(t, "assistant", 0)
  BY <1>1, <1>2, <1>4, SaidFacts
     DEF Goes, Stores, SameContent, KeepsRows, KeepsAudit, Ledger, RowsByStep,
     SaidByRows, AuditBySaid, ChunksCounted, BeforeQuestion, BeforeReply,
     AfterReply, GuardAudited, Final, TerminalEvents, Failures, Outcomes
<1>5. QED BY <1>1, <1>3, <1>4

\* The outcome of a canned reply is audited, and the reply sent.
LEMMA DoneLedger ==
  ASSUME TypeOK, NEW t \in Turns, Ledger(t), NEW step \in AfterReply \ {"answerAudit"},
         NEW event \in Outcomes, event = "chat_response" => step = "noHitsAudit",
         Log(t, step, event, "ended", FixedText)
  PROVE  Ledger(t)' /\ Spares(t)
<1>1. /\ Goes(t, step, "ended", FixedText) /\ SameContent(t) /\ KeepsRows(t) /\ Spares(t)
      /\ \/ \A e : Audited(t, e)' <=> Audited(t, e) \/ e = event
         \/ "unlogged" \in DbFaults /\ KeepsAudit(t)
  BY LogGoes, NamesType
<1>2. QED
  BY <1>1, SaidFacts
     DEF Goes, SameContent, KeepsRows, KeepsAudit, Ledger, RowsByStep,
     SaidByRows, AuditBySaid, ChunksCounted, BeforeQuestion, BeforeReply,
     AfterReply, GuardAudited, Final, TerminalEvents, Failures, Outcomes

\* A failure is audited and announced, by 'timeout' or by 'error'.
LEMMA FailLedger ==
  ASSUME TypeOK, NEW t \in Turns, Ledger(t),
         NEW step \in {"timeoutAudit", "degradedAudit", "errorAudit", "catchAll"},
         NEW event \in Failures, NEW said \in {"timeout", "error"},
         said = "timeout" => step = "timeoutAudit" /\ event = "llm_timeout",
         Log(t, step, event, "ended", <<said>>)
  PROVE  Ledger(t)' /\ Spares(t)
<1>1. <<said>> \in Seq(SseEvents)
  BY DEF SseEvents, TerminalEvents
<1>2. /\ Goes(t, step, "ended", <<said>>) /\ SameContent(t) /\ KeepsRows(t) /\ Spares(t)
      /\ \/ \A e : Audited(t, e)' <=> Audited(t, e) \/ e = event
         \/ "unlogged" \in DbFaults /\ KeepsAudit(t)
  BY <1>1, LogGoes
<1>3. QED
  BY <1>2, SaidFacts
     DEF Goes, SameContent, KeepsRows, KeepsAudit, Ledger, RowsByStep,
     SaidByRows, AuditBySaid, ChunksCounted, BeforeQuestion, BeforeReply,
     AfterReply, GuardAudited, Final, TerminalEvents, Failures, Outcomes

-----------------------------------------------------------------------------
LEMMA StartLedger ==
  ASSUME TypeOK, NEW t \in Turns, Ledger(t), Start(t) PROVE Ledger(t)' /\ Spares(t)
<1>1. <<>> \in Seq(SseEvents) /\ <<"error">> \in Seq(SseEvents)
  BY DEF SseEvents, TerminalEvents
<1>2. CASE RejectTooLong(t)
  <2>1. /\ Goes(t, "lookup", "ended", <<"error">>) /\ SameContent(t) /\ KeepsRows(t)
        /\ KeepsAudit(t) /\ Spares(t)
    BY <1>1, <1>2, StepGoes DEF RejectTooLong, Begin
  <2>2. QED
    BY <2>1, SaidFacts
     DEF Goes, SameContent, KeepsRows, KeepsAudit, Ledger, RowsByStep,
     SaidByRows, AuditBySaid, ChunksCounted, BeforeQuestion, BeforeReply,
     AfterReply, GuardAudited, Final, TerminalEvents, Failures, Outcomes
<1>3. CASE ~RejectTooLong(t)
  <2>1. PICK next \in {"httpError", "fallbackUser", "blockedAudit", "sensitiveAudit",
                       "confidentialMark", "history"} : Step(t, "lookup", next, <<>>)
    BY <1>3 DEF Start, LookupFails, BeginDegraded, Block, Refuse, Admit, Begin
  <2>2. "lookup" \in BeforeQuestion /\ next \in BeforeQuestion \ GuardAudited
    BY DEF BeforeQuestion, GuardAudited
  <2>3. QED BY <1>1, <2>1, <2>2, StepGoes, QuietLedger
<1>4. QED BY <1>2, <1>3

LEMMA DegradedLedger ==
  ASSUME TypeOK, NEW t \in Turns, Ledger(t), Degraded(t) PROVE Ledger(t)' /\ Spares(t)
<1>1. /\ "fallbackUser" \in BeforeQuestion /\ "fallbackAssistant" \in BeforeReply
      /\ "fallbackAudit" \in AfterReply \ {"answerAudit"} /\ "llm_fallback" \in Outcomes
  BY DEF BeforeQuestion, BeforeReply, AfterReply, Outcomes
<1>2. CASE FallbackUser(t)
  BY <1>1, <1>2, AskLedger DEF FallbackUser
<1>3. CASE FallbackAssistant(t)
  BY <1>1, <1>3, NamesType, ReplyLedger DEF FallbackAssistant
<1>4. CASE FallbackAudit(t)
  BY <1>1, <1>4, DoneLedger DEF FallbackAudit
<1>5. QED BY <1>2, <1>3, <1>4 DEF Degraded

LEMMA BlockedLedger ==
  ASSUME TypeOK, NEW t \in Turns, Ledger(t), Blocked(t) PROVE Ledger(t)' /\ Spares(t)
<1>1. /\ {"blockedAudit", "sensitiveAudit", "blockedIncrement", "blockedAlert", "blockedUser"}
           \subseteq BeforeQuestion
      /\ {"blockedIncrement", "blockedAlert", "blockedUser"} \subseteq GuardAudited
      /\ "blockedAssistant" \in BeforeReply
  BY DEF BeforeQuestion, BeforeReply, GuardAudited
<1>2. <<>> \in Seq(SseEvents) /\ FixedText \in Seq(SseEvents) /\ IncludeHandoff(t) \in BOOLEAN
  BY NamesType DEF IncludeHandoff
<1>3. CASE BlockedAudit(t)
  <2>1. PICK step \in {"blockedAudit", "sensitiveAudit"},
             next \in {"blockedUser", "blockedIncrement"} :
          Log(t, step, "prompt_guard_blocked", next, <<>>)
    BY <1>3 DEF BlockedAudit
  <2>2. /\ Goes(t, step, next, <<>>) /\ SameContent(t) /\ KeepsRows(t) /\ Spares(t)
        /\ \/ \A e : Audited(t, e)' <=> Audited(t, e) \/ e = "prompt_guard_blocked"
           \/ "unlogged" \in DbFaults /\ KeepsAudit(t)
    BY <1>2, <2>1, LogGoes
  <2>3. QED
    BY <2>2, SaidFacts
     DEF Goes, SameContent, KeepsRows, KeepsAudit, Ledger, RowsByStep,
     SaidByRows, AuditBySaid, ChunksCounted, BeforeQuestion, BeforeReply,
     AfterReply, GuardAudited, Final, TerminalEvents, Failures, Outcomes
<1>4. CASE BlockedIncrement(t)
  <2>1. /\ SameContent(t) /\ KeepsRows(t) /\ KeepsAudit(t) /\ Spares(t)
        /\ \/ Goes(t, "blockedIncrement", "blockedAlert", <<>>)
           \/ Goes(t, "blockedIncrement", "blockedUser", <<>>) \/ Throws(t, "blockedIncrement")
    BY <1>4, IncrementGoes DEF BlockedIncrement
  <2>2. QED BY <1>1, <2>1, QuietLedger, ThrowLedger
<1>5. CASE BlockedAlert(t)
  BY <1>1, <1>2, <1>5, LogGoes, QuietLedger DEF BlockedAlert
<1>6. CASE BlockedUser(t)
  BY <1>1, <1>6, AskLedger DEF BlockedUser
<1>7. CASE BlockedAssistant(t)
  BY <1>1, <1>2, <1>7, ReplyLedger DEF BlockedAssistant
<1>8. QED BY <1>3, <1>4, <1>5, <1>6, <1>7 DEF Blocked

LEMMA ConfidentialLedger ==
  ASSUME TypeOK, NEW t \in Turns, Ledger(t), Confidential(t) PROVE Ledger(t)' /\ Spares(t)
<1>1. /\ {"confidentialMark", "confidentialIncrement", "confidentialAlert", "confidentialUser"}
           \subseteq BeforeQuestion \ GuardAudited
      /\ "confidentialAssistant" \in BeforeReply
      /\ "confidentialAudit" \in AfterReply \ {"answerAudit"}
      /\ "confidential_refused" \in Outcomes
  BY DEF BeforeQuestion, BeforeReply, AfterReply, GuardAudited, Outcomes
<1>2. <<>> \in Seq(SseEvents) /\ FixedText \in Seq(SseEvents) /\ IncludeHandoff(t) \in BOOLEAN
  BY NamesType DEF IncludeHandoff
<1>3. CASE ConfidentialMark(t)
  <2>1. UNCHANGED <<content, messages, audit>> /\ pc[t] = "confidentialMark" /\ ControlOK
    BY <1>3 DEF ConfidentialMark, turnVars, TypeOK
  <2>2. Proceed(t, "confidentialIncrement", <<>>) \/ Throw(t)
    BY <1>3 DEF ConfidentialMark, Write
  <2>3. /\ SameContent(t) /\ KeepsRows(t) /\ KeepsAudit(t) /\ Spares(t)
        /\ \/ Goes(t, "confidentialMark", "confidentialIncrement", <<>>)
           \/ Throws(t, "confidentialMark")
    BY <1>2, <2>1, <2>2, ProceedGoes, ThrowGoes, SameRows, SameAudit
    DEF Spares, Spared, SameContent
  <2>4. QED BY <1>1, <2>3, QuietLedger, ThrowLedger
<1>4. CASE ConfidentialIncrement(t)
  <2>1. /\ SameContent(t) /\ KeepsRows(t) /\ KeepsAudit(t) /\ Spares(t)
        /\ \/ Goes(t, "confidentialIncrement", "confidentialAlert", <<>>)
           \/ Goes(t, "confidentialIncrement", "confidentialUser", <<>>)
           \/ Throws(t, "confidentialIncrement")
    BY <1>4, IncrementGoes DEF ConfidentialIncrement
  <2>2. QED BY <1>1, <2>1, QuietLedger, ThrowLedger
<1>5. CASE ConfidentialAlert(t)
  BY <1>1, <1>2, <1>5, LogGoes, QuietLedger DEF ConfidentialAlert
<1>6. CASE ConfidentialUser(t)
  BY <1>1, <1>6, AskLedger DEF ConfidentialUser
<1>7. CASE ConfidentialAssistant(t)
  BY <1>1, <1>2, <1>7, ReplyLedger DEF ConfidentialAssistant
<1>8. CASE ConfidentialAudit(t)
  BY <1>1, <1>8, DoneLedger DEF ConfidentialAudit
<1>9. QED BY <1>3, <1>4, <1>5, <1>6, <1>7, <1>8 DEF Confidential

LEMMA PrepareLedger ==
  ASSUME TypeOK, NEW t \in Turns, Ledger(t), Prepare(t) PROVE Ledger(t)' /\ Spares(t)
<1>1. /\ {"history", "retrieve", "noHitsUser", "answerUser"} \subseteq BeforeQuestion \ GuardAudited
      /\ "noHitsAssistant" \in BeforeReply /\ "noHitsAudit" \in AfterReply \ {"answerAudit"}
      /\ "chat_response" \in Outcomes
  BY DEF BeforeQuestion, BeforeReply, AfterReply, GuardAudited, Outcomes
<1>2. <<>> \in Seq(SseEvents) /\ ControlOK
  BY DEF TypeOK
<1>3. CASE ReadHistory(t)
  <2>1. /\ UNCHANGED <<content, messages, audit>> /\ pc[t] = "history"
        /\ Proceed(t, "retrieve", <<>>)
    BY <1>3 DEF ReadHistory, dbVars, rowVars
  <2>2. /\ SameContent(t) /\ KeepsRows(t) /\ KeepsAudit(t) /\ Spares(t)
        /\ Goes(t, "history", "retrieve", <<>>)
    BY <1>2, <2>1, ProceedGoes, SameRows, SameAudit DEF Spares, Spared, SameContent
  <2>3. QED BY <1>1, <2>2, QuietLedger
<1>4. CASE Retrieve(t)
  BY <1>1, <1>2, <1>4, StepGoes, QuietLedger DEF Retrieve
<1>5. CASE ReadFails(t)
  <2>1. PICK step \in {"history", "retrieve"} : Step(t, step, "catchAll", <<>>)
    BY <1>5 DEF ReadFails
  <2>2. QED BY <1>1, <1>2, <2>1, StepGoes, ThrowLedger DEF Throws
<1>6. CASE NoHitsUser(t)
  BY <1>1, <1>6, AskLedger DEF NoHitsUser
<1>7. CASE NoHitsAssistant(t)
  BY <1>1, <1>2, <1>7, ReplyLedger DEF NoHitsAssistant
<1>8. CASE NoHitsAudit(t)
  BY <1>1, <1>8, DoneLedger DEF NoHitsAudit
<1>9. QED BY <1>3, <1>4, <1>5, <1>6, <1>7, <1>8 DEF Prepare

\* One more token is written.
LEMMA TokenCounted ==
  ASSUME ControlOK, NEW t \in Turns, events'[t] = events[t] \o <<"token">>
  PROVE  Tokens(t)' = Tokens(t) + 1
<1> DEFINE Told == {j \in DOMAIN events[t] : events[t][j] = "token"}
           n == Len(events[t]) + 1
<1>1. events[t] \in Seq(SseEvents) /\ "token" \in SseEvents
  BY DEF ControlOK, SseEvents
<1>2. {j \in DOMAIN events'[t] : events'[t][j] = "token"} = Told \cup {n} /\ n \notin Told
  BY <1>1
<1>3. IsFiniteSet(Told)
  <2>1. Len(events[t]) \in Int /\ 1 \in Int /\ Told \subseteq 1..Len(events[t])
    BY <1>1
  <2>2. IsFiniteSet(1..Len(events[t]))
    BY <2>1, FS_Interval
  <2>3. QED BY <2>1, <2>2, FS_Subset
<1>4. QED BY <1>2, <1>3, FS_AddElement DEF Tokens

LEMMA StreamLedger ==
  ASSUME TypeOK, NEW t \in Turns, Ledger(t), Stream(t) PROVE Ledger(t)' /\ Spares(t)
<1>1. /\ "answerUser" \in BeforeQuestion
      /\ {"llm_timeout", "llm_degraded", "llm_error"} \subseteq Failures
  BY DEF BeforeQuestion, Failures
<1>2. /\ <<>> \in Seq(SseEvents) /\ <<"interrupted">> \in Seq(SseEvents)
      /\ <<"token">> \in Seq(SseEvents) /\ ControlOK
  BY DEF SseEvents, TerminalEvents, TypeOK
<1>3. CASE AnswerUser(t)
  BY <1>1, <1>3, AskLedger DEF AnswerUser
<1>4. CASE LlmChunk(t)
  <2>1. /\ UNCHANGED <<messages, audit>> /\ pc[t] = "llm" /\ Proceed(t, "llm", <<"token">>)
        /\ content' = [content EXCEPT ![t] = @ + 1] /\ content \in [Turns -> Nat]
    BY <1>4 DEF LlmChunk, dbVars, rowVars, TypeOK, TurnOK
  <2>2. KeepsRows(t) /\ KeepsAudit(t) /\ Goes(t, "llm", "llm", <<"token">>) /\ Spares(t)
    BY <1>2, <2>1, ProceedGoes, SameRows, SameAudit DEF Spares, Spared
  <2>3. Tokens(t)' = Tokens(t) + 1 /\ content'[t] = content[t] + 1
    BY <1>2, <2>1, TokenCounted DEF Proceed, ControlOK
  <2>4. QED
    BY <2>2, <2>3, SaidFacts
     DEF Goes, SameContent, KeepsRows, KeepsAudit, Ledger, RowsByStep,
     SaidByRows, AuditBySaid, ChunksCounted, BeforeQuestion, BeforeReply,
     AfterReply, GuardAudited, Final, TerminalEvents, Failures, Outcomes
<1>5. CASE LlmFinish(t)
  <2>1. /\ Goes(t, "llm", "answerAssistant", <<>>) /\ SameContent(t) /\ KeepsRows(t)
        /\ KeepsAudit(t) /\ Spares(t)
    BY <1>2, <1>5, StepGoes DEF LlmFinish
  <2>2. QED
    BY <2>1, SaidFacts
     DEF Goes, SameContent, KeepsRows, KeepsAudit, Ledger, RowsByStep,
     SaidByRows, AuditBySaid, ChunksCounted, BeforeQuestion, BeforeReply,
     AfterReply, GuardAudited, Final, TerminalEvents, Failures, Outcomes
<1>6. CASE LlmInterrupted(t)
  <2>1. /\ Goes(t, "llm", "ended", <<"interrupted">>) /\ SameContent(t) /\ KeepsRows(t)
        /\ KeepsAudit(t) /\ Spares(t)
    BY <1>2, <1>6, StepGoes DEF LlmInterrupted
  <2>2. QED
    BY <2>1, SaidFacts
     DEF Goes, SameContent, KeepsRows, KeepsAudit, Ledger, RowsByStep,
     SaidByRows, AuditBySaid, ChunksCounted, BeforeQuestion, BeforeReply,
     AfterReply, GuardAudited, Final, TerminalEvents, Failures, Outcomes
<1>7. CASE LlmTimeout(t) \/ LlmError(t)
  <2>1. PICK next \in {"timeoutAudit", "degradedAudit", "errorAudit"} :
          Proceed(t, next, <<>>)
    BY <1>7 DEF LlmTimeout, LlmError
  <2>2. pc[t] = "llm" /\ UNCHANGED <<content, messages, audit>>
    BY <1>7 DEF LlmTimeout, LlmError, turnVars, dbVars, rowVars
  <2>3. /\ Goes(t, "llm", next, <<>>) /\ SameContent(t) /\ KeepsRows(t)
        /\ KeepsAudit(t) /\ Spares(t)
    BY <1>2, <2>1, <2>2, ProceedGoes, SameRows, SameAudit DEF Spares, Spared, SameContent
  <2>4. QED
    BY <2>3, SaidFacts
     DEF Goes, SameContent, KeepsRows, KeepsAudit, Ledger, RowsByStep,
     SaidByRows, AuditBySaid, ChunksCounted, BeforeQuestion, BeforeReply,
     AfterReply, GuardAudited, Final, TerminalEvents, Failures, Outcomes
<1>8. CASE TimeoutAudit(t) \/ DegradedAudit(t) \/ ErrorAudit(t)
  BY <1>1, <1>8, FailLedger DEF TimeoutAudit, DegradedAudit, ErrorAudit
<1>9. QED BY <1>3, <1>4, <1>5, <1>6, <1>7, <1>8 DEF Stream

LEMMA StoreLedger ==
  ASSUME TypeOK, NEW t \in Turns, Ledger(t), Store(t) PROVE Ledger(t)' /\ Spares(t)
<1>1. <<>> \in Seq(SseEvents) /\ <<"done">> \in Seq(SseEvents)
  BY DEF SseEvents, TerminalEvents
<1>2. CASE AnswerAssistant(t)
  <2>1. PICK n \in Nat : n = content[t]
    BY DEF TypeOK, TurnOK
  <2>2. /\ SameContent(t) /\ KeepsAudit(t) /\ Spares(t)
        /\ \/ Goes(t, "answerAssistant", "answerAudit", <<>>) /\ Stores(t, "assistant", n)
           \/ /\ Throws(t, "answerAssistant")
              /\ Stores(t, "assistant", n) \/ KeepsRows(t)
    BY <1>2, <2>1, StoreAnswerGoes DEF AnswerAssistant
  <2>3. Asked(t)
    BY <2>2 DEF Goes, Throws, Ledger, RowsByStep, BeforeReply
  <2>4. CASE Throws(t, "answerAssistant")
    BY <2>2, <2>3, <2>4, ThrowLedger DEF Stores
  <2>5. CASE Goes(t, "answerAssistant", "answerAudit", <<>>) /\ Stores(t, "assistant", n)
    BY <2>1, <2>2, <2>3, <2>5, SaidFacts
     DEF Goes, Stores, SameContent, KeepsRows, KeepsAudit, Ledger, RowsByStep,
     SaidByRows, AuditBySaid, ChunksCounted, BeforeQuestion, BeforeReply,
     AfterReply, GuardAudited, Final, TerminalEvents, Failures, Outcomes
  <2>6. QED BY <2>2, <2>4, <2>5
<1>3. CASE AnswerAudit(t)
  <2>1. /\ Goes(t, "answerAudit", "ended", <<"done">>) /\ SameContent(t) /\ KeepsRows(t)
        /\ Spares(t)
        /\ \/ \A e : Audited(t, e)' <=> Audited(t, e) \/ e = "chat_response"
           \/ "unlogged" \in DbFaults /\ KeepsAudit(t)
    BY <1>1, <1>3, LogGoes DEF AnswerAudit
  <2>2. QED
    BY <2>1, SaidFacts
     DEF Goes, SameContent, KeepsRows, KeepsAudit, Ledger, RowsByStep,
     SaidByRows, AuditBySaid, ChunksCounted, BeforeQuestion, BeforeReply,
     AfterReply, GuardAudited, Final, TerminalEvents, Failures, Outcomes
<1>4. CASE CatchAll(t)
  <2>1. "pipeline_error" \in Failures
    BY DEF Failures
  <2>2. QED BY <1>4, <2>1, FailLedger DEF CatchAll
<1>5. QED BY <1>2, <1>3, <1>4 DEF Store

\* Whatever happens, every turn keeps its ledger.
LEMMA LedgerStep ==
  TypeOK /\ Ledgers /\ [Next]_vars => Ledgers'
<1> SUFFICES ASSUME TypeOK, Ledgers, [Next]_vars PROVE \A t \in Turns : Ledger(t)'
  BY DEF Ledgers
<1>1. CASE \E t \in Turns : TurnStep(t)
  <2>1. PICK t \in Turns : TurnStep(t)
    BY <1>1
  <2>2. Ledger(t)' /\ Spares(t)
    BY <2>1, StartLedger, DegradedLedger, BlockedLedger, ConfidentialLedger, PrepareLedger,
       StreamLedger, StoreLedger DEF TurnStep, Ledgers
  <2>3. QED BY <2>2, SparedKeeps DEF Spares, Ledgers
<1>2. CASE UNCHANGED <<events, content, messages, audit>>
           /\ \A t \in Turns : pc'[t] = pc[t] \/ (pc[t] = "idle" /\ pc'[t] = "lookup")
                               \/ (pc[t] = "lookup" /\ pc'[t] = "httpError")
                               \/ (pc[t] # "ended" /\ pc'[t] = "killed")
  <2> TAKE t \in Turns
  <2>1. /\ KeepsRows(t) /\ KeepsAudit(t) /\ SameContent(t) /\ Ledger(t)
        /\ Tokens(t)' = Tokens(t) /\ \A e : Wrote(t, e)' <=> Wrote(t, e)
    BY <1>2, SameRows, SameAudit DEF SameContent, Tokens, Wrote, Ledgers
  <2>2. QED
    BY <1>2, <2>1 DEF Goes, SameContent, KeepsRows, KeepsAudit, Ledger,
     RowsByStep, SaidByRows, AuditBySaid, ChunksCounted, BeforeQuestion, BeforeReply,
     AfterReply, GuardAudited, Final, TerminalEvents, Failures, Outcomes
<1>3. CASE ~\E t \in Turns : TurnStep(t)
  <2>1. UNCHANGED <<events, content, messages, audit>>
    BY <1>3 DEF Next, vars, CreateSession, SendMessage, ClientClose, Restart, turnVars, dbVars,
       rowVars
  <2>2. ASSUME NEW t \in Turns
        PROVE  \/ pc'[t] = pc[t] \/ (pc[t] = "idle" /\ pc'[t] = "lookup")
               \/ (pc[t] = "lookup" /\ pc'[t] = "httpError")
               \/ (pc[t] # "ended" /\ pc'[t] = "killed")
    <3>1. pc \in [Turns -> Steps] /\ "ended" \notin Running
      BY DEF TypeOK, ControlOK, Running, DegradedSteps, TrySteps, BlockedSteps,
         ConfidentialSteps, NoHitsSteps, AnswerSteps, LlmFailureSteps
    <3>2. CASE Restart
      BY <3>1, <3>2 DEF Restart
    <3>3. QED
      BY <1>3, <3>1, <3>2 DEF Next, vars, CreateSession, SendMessage, ClientClose
  <2>3. QED BY <1>2, <2>1, <2>2
<1>4. QED BY <1>1, <1>3

LEMMA LedgersKept == Spec => []Ledgers
<1>1. Init => Ledgers
  <2> SUFFICES ASSUME Init, NEW t \in Turns PROVE Ledger(t)
    BY DEF Ledgers
  <2>1. /\ pc[t] = "idle" /\ content[t] = 0 /\ \A e : ~Audited(t, e) /\ ~Wrote(t, e)
        /\ \A role : RowsOf(t, role) = {}
    BY ConstantsAssumption DEF Init, Audited, Wrote, RowsOf
  <2>2. Tokens(t) = 0
    <3>1. {j \in DOMAIN events[t] : events[t][j] = "token"} = {}
      BY DEF Init
    <3>2. QED BY <3>1, FS_EmptySet DEF Tokens
  <2>3. NoRows(t) /\ "idle" \in BeforeQuestion
    BY <2>1 DEF NoRows, BeforeQuestion
  <2>4. QED
    BY <2>1, <2>2, <2>3 DEF Ledger, RowsByStep, SaidByRows, AuditBySaid, ChunksCounted,
       BeforeQuestion, BeforeReply, AfterReply, GuardAudited, Failures, Outcomes
<1>2. QED BY <1>1, LedgerStep, TypeCorrect, PTL DEF Spec

\* Whichever of its queries fails, and however turns interleave in a session,
\* a turn never has two questions or two replies stored, nor a reply that does
\* not follow its question (addMessage() is retried by nobody, and every branch
\* of run() stores the question first).
THEOREM RowsAreInOrder == Spec => []RowsInOrder
<1>1. Ledgers => RowsInOrder
  <2> SUFFICES ASSUME NEW t \in Turns, Ledger(t)
               PROVE  /\ \A role \in {"user", "assistant"} : Cardinality(RowsOf(t, role)) <= 1
                      /\ \A i \in RowsOf(t, "assistant") : \E j \in RowsOf(t, "user") : j < i
    BY DEF RowsInOrder, Ledgers
  <2>1. Cardinality({}) = 0 /\ \A i : Cardinality({i}) = 1
    BY FS_EmptySet, FS_Singleton
  <2>2. NoRows(t) \/ Asked(t) \/ Replied(t)
    BY DEF Ledger, RowsByStep
  <2>3. \A role \in {"user", "assistant"} : Cardinality(RowsOf(t, role)) <= 1
    <3>1. \A role \in {"user", "assistant"} :
            RowsOf(t, role) = {} \/ \E i : RowsOf(t, role) = {i}
      BY <2>2 DEF NoRows, Asked, Replied
    <3> TAKE role \in {"user", "assistant"}
    <3>2. Cardinality(RowsOf(t, role)) \in {0, 1}
      BY <2>1, <3>1
    <3>3. QED BY <3>2
  <2>4. QED BY <2>2, <2>3 DEF NoRows, Asked, Replied
<1>2. QED BY <1>1, LedgersKept, PTL

\* What a client is told is what was stored: after 'done' the question and its
\* reply, with every chunk that was streamed; after 'interrupted' and
\* 'timeout' the question alone.
THEOREM ResponseMatchesWhatIsStored == Spec => []ResponseMatchesStore
<1>1. Ledgers => ResponseMatchesStore
  <2> SUFFICES ASSUME NEW t \in Turns, Ledger(t)
               PROVE  /\ Wrote(t, "done") => RowsOf(t, "user") # {} /\ RowsOf(t, "assistant") # {}
                      /\ Wrote(t, "interrupted") \/ Wrote(t, "timeout")
                           => RowsOf(t, "user") # {} /\ RowsOf(t, "assistant") = {}
                      /\ Audited(t, "chat_response") /\ content[t] > 0 => ReplyHas(t, Tokens(t))
    BY DEF ResponseMatchesStore, ReplyHas, Tokens, Ledgers
  <2>1. Wrote(t, "done") => Replied(t)
    BY DEF Ledger, SaidByRows
  <2>2. Wrote(t, "interrupted") \/ Wrote(t, "timeout") => Asked(t)
    BY DEF Ledger, SaidByRows
  <2>3. Audited(t, "chat_response") /\ content[t] > 0 => ReplyHas(t, Tokens(t))
    BY DEF Ledger, ChunksCounted
  <2>4. QED BY <2>1, <2>2, <2>3 DEF Asked, Replied
<1>2. QED BY <1>1, LedgersKept, PTL

\* What the audit log says of a turn and what its client was told agree: no
\* answer is audited as a failure and no failure as an answer, and as long as
\* the log can be written every answer and every timeout is in it.
THEOREM AuditMatchesWhatIsSaid == Spec => []AuditMatchesResponse
<1>1. Ledgers => AuditMatchesResponse
  BY DEF Ledgers, Ledger, AuditBySaid, AuditMatchesResponse
<1>2. QED BY <1>1, LedgersKept, PTL

-----------------------------------------------------------------------------
(***************************************************************************)
(* The history of a prompt.                                                *)
(***************************************************************************)
\* The steps of a turn that has read its history.
HasRead == AnswerSteps \ {"history"}
Holds(rows, u, role) == \E i \in DOMAIN rows : rows[i].turn = u /\ rows[i].role = role

\* A turn the visitor had seen answered was answered; what has been read is
\* free of the question itself, and holds both rows of all such turns.
Recalled(t) ==
  /\ \A u \in known[t] : u \in Turns /\ SessionOf[u] = SessionOf[t] /\ Wrote(u, "done")
  /\ \A i \in DOMAIN history[t] : history[t][i].turn # t
  /\ pc[t] \in HasRead /\ Len(history[t]) < HistoryLimit
       => \A u \in known[t] : \A role \in {"user", "assistant"} : Holds(history[t], u, role)
Recall == \A t \in Turns : Recalled(t)

\* Any step of the server but the reading itself.
Unread(t) ==
  /\ UNCHANGED <<history, known>> /\ pc[t] # "ended"
  /\ \E next, out : Proceed(t, next, out) /\ (next \in HasRead => pc[t] \in HasRead)

\* Every step of the server reads the history or leaves what was read alone.
LEMMA ReadMoves ==
  ASSUME NEW t \in Turns, TurnStep(t)
  PROVE  ReadHistory(t) \/ Unread(t)
<1> DEFINE Same == UNCHANGED <<history, known>>
           Ok(step, next) == step # "ended" /\ (next \in HasRead => step \in HasRead)
<1>1. \A next, out : Same /\ Proceed(t, next, out) /\ Ok(pc[t], next) => Unread(t)
  BY DEF Unread
<1>2. HasRead = {"retrieve", "answerUser", "llm", "answerAssistant", "answerAudit"}
  BY DEF HasRead, AnswerSteps
<1>3. Same /\ Throw(t) /\ pc[t] # "ended" => Unread(t)
  <2>1. (Ok(pc[t], "escaped") /\ Ok(pc[t], "catchAll")) \/ pc[t] = "ended"
    BY <1>2
  <2>2. QED BY <1>1, <2>1 DEF Throw
<1>4. \A step, next, out : Step(t, step, next, out) /\ Ok(step, next) => Unread(t)
  BY <1>1 DEF Step, turnVars
<1>5. \A next, out :
        Same /\ (Proceed(t, next, out) \/ Throw(t)) /\ Ok(pc[t], next) => Unread(t)
  BY <1>1, <1>3
<1>6. \A step, event, next, out : Log(t, step, event, next, out) /\ Ok(step, next) => Unread(t)
  BY <1>1 DEF Log, turnVars
<1>7. \A step, alertStep, next :
        Increment(t, step, alertStep, next) /\ Ok(step, alertStep) /\ Ok(step, next) => Unread(t)
  BY <1>1, <1>3 DEF Increment, IncrementTo, Write
<1>8. CASE Start(t)
  BY <1>2, <1>4, <1>8 DEF Start, LookupFails, BeginDegraded, RejectTooLong, Block, Refuse, Admit,
     Begin
<1>9. CASE Degraded(t)
  <2>1. CASE FallbackUser(t)
    BY <1>2, <1>5, <2>1 DEF FallbackUser, AddMessage, Insert, Write, turnVars
  <2>2. CASE FallbackAssistant(t)
    BY <1>2, <1>5, <2>2 DEF FallbackAssistant, AddMessage, Insert, Write, turnVars
  <2>3. CASE FallbackAudit(t)
    BY <1>2, <1>6, <2>3 DEF FallbackAudit
  <2>4. QED BY <1>9, <2>1, <2>2, <2>3 DEF Degraded
<1>10. CASE Blocked(t)
  <2>1. CASE BlockedAudit(t)
    BY <1>2, <1>6, <2>1 DEF BlockedAudit
  <2>2. CASE BlockedIncrement(t)
    BY <1>2, <1>7, <2>2 DEF BlockedIncrement
  <2>3. CASE BlockedAlert(t)
    BY <1>2, <1>6, <2>3 DEF BlockedAlert
  <2>4. CASE BlockedUser(t)
    BY <1>2, <1>5, <2>4 DEF BlockedUser, AddMessage, Insert, Write, turnVars
  <2>5. CASE BlockedAssistant(t)
    BY <1>2, <1>5, <2>5 DEF BlockedAssistant, AddMessage, Insert, Write, turnVars
  <2>6. QED BY <1>10, <2>1, <2>2, <2>3, <2>4, <2>5 DEF Blocked
<1>11. CASE Confidential(t)
  <2>1. CASE ConfidentialMark(t)
    <3>1. Same /\ pc[t] = "confidentialMark"
      BY <2>1 DEF ConfidentialMark, turnVars
    <3>2. Proceed(t, "confidentialIncrement", <<>>) \/ Throw(t)
      BY <2>1 DEF ConfidentialMark, Write
    <3>3. QED BY <1>1, <1>2, <1>3, <3>1, <3>2
  <2>2. CASE ConfidentialIncrement(t)
    BY <1>2, <1>7, <2>2 DEF ConfidentialIncrement
  <2>3. CASE ConfidentialAlert(t)
    BY <1>2, <1>6, <2>3 DEF ConfidentialAlert
  <2>4. CASE ConfidentialUser(t)
    BY <1>2, <1>5, <2>4 DEF ConfidentialUser, AddMessage, Insert, Write, turnVars
  <2>5. CASE ConfidentialAssistant(t)
    BY <1>2, <1>5, <2>5 DEF ConfidentialAssistant, AddMessage, Insert, Write, turnVars
  <2>6. CASE ConfidentialAudit(t)
    BY <1>2, <1>6, <2>6 DEF ConfidentialAudit
  <2>7. QED BY <1>11, <2>1, <2>2, <2>3, <2>4, <2>5, <2>6 DEF Confidential
<1>12. CASE Prepare(t)
  <2>1. CASE ReadHistory(t)
    BY <2>1
  <2>2. CASE Retrieve(t)
    BY <1>2, <1>4, <2>2 DEF Retrieve
  <2>3. CASE ReadFails(t)
    BY <1>2, <1>4, <2>3 DEF ReadFails
  <2>4. CASE NoHitsUser(t)
    BY <1>2, <1>5, <2>4 DEF NoHitsUser, AddMessage, Insert, Write, turnVars
  <2>5. CASE NoHitsAssistant(t)
    BY <1>2, <1>5, <2>5 DEF NoHitsAssistant, AddMessage, Insert, Write, turnVars
  <2>6. CASE NoHitsAudit(t)
    BY <1>2, <1>6, <2>6 DEF NoHitsAudit
  <2>7. QED BY <1>12, <2>1, <2>2, <2>3, <2>4, <2>5, <2>6 DEF Prepare
<1>13. CASE Stream(t)
  <2>1. CASE LlmChunk(t) \/ LlmTimeout(t) \/ LlmError(t)
    <3>1. Same /\ pc[t] = "llm"
      BY <2>1 DEF LlmChunk, LlmTimeout, LlmError, turnVars
    <3>2. \E next \in {"llm", "timeoutAudit", "degradedAudit", "errorAudit"} : \E out :
            Proceed(t, next, out)
      BY <2>1 DEF LlmChunk, LlmTimeout, LlmError
    <3>3. QED BY <1>1, <1>2, <3>1, <3>2
  <2>2. CASE AnswerUser(t)
    BY <1>2, <1>5, <2>2 DEF AnswerUser, AddMessage, Insert, Write, turnVars
  <2>3. CASE LlmFinish(t)
    BY <1>2, <1>4, <2>3 DEF LlmFinish
  <2>4. CASE LlmInterrupted(t)
    BY <1>2, <1>4, <2>4 DEF LlmInterrupted
  <2>5. CASE TimeoutAudit(t)
    BY <1>2, <1>6, <2>5 DEF TimeoutAudit
  <2>6. CASE DegradedAudit(t)
    BY <1>2, <1>6, <2>6 DEF DegradedAudit
  <2>7. CASE ErrorAudit(t)
    BY <1>2, <1>6, <2>7 DEF ErrorAudit
  <2>8. QED BY <1>13, <2>1, <2>2, <2>3, <2>4, <2>5, <2>6, <2>7 DEF Stream
<1>14. CASE Store(t)
  <2>1. CASE AnswerAssistant(t)
    <3>1. Same /\ pc[t] = "answerAssistant"
      BY <2>1 DEF AnswerAssistant, StoreAnswer, turnVars
    <3>2. Proceed(t, "answerAudit", <<>>) \/ Throw(t)
      BY <2>1 DEF AnswerAssistant, StoreAnswer, Insert, Write
    <3>3. QED BY <1>1, <1>2, <1>3, <3>1, <3>2
  <2>2. CASE AnswerAudit(t)
    BY <1>2, <1>6, <2>2 DEF AnswerAudit
  <2>3. CASE CatchAll(t)
    BY <1>2, <1>6, <2>3 DEF CatchAll
  <2>4. QED BY <1>14, <2>1, <2>2, <2>3 DEF Store
<1>15. QED
  BY <1>8, <1>9, <1>10, <1>11, <1>12, <1>13, <1>14 DEF TurnStep

\* A turn whose answer was seen is in the rows that are there to be read.
LEMMA RepliedHolds ==
  ASSUME TypeOK, NEW t \in Turns, NEW u \in Turns, SessionOf[u] = SessionOf[t], Replied(u)
  PROVE  \A role \in {"user", "assistant"} : Holds(messages[SessionOf[t]], u, role)
BY DEF Replied, RowsOf, Holds

\* What getHistory() reads is a part of the session's rows, and all of them if
\* the limit is not reached.
LEMMA HistoryRowsHold ==
  ASSUME TypeOK, NEW s \in Sessions
  PROVE  /\ \A i \in DOMAIN HistoryRows(s) :
              i \in DOMAIN messages[s] /\ HistoryRows(s)[i] = messages[s][i]
         /\ Len(HistoryRows(s)) < HistoryLimit => HistoryRows(s) = messages[s]
<1>1. messages[s] \in Seq(Row) /\ HistoryLimit \in Nat
  BY ConstantsAssumption DEF TypeOK, DbOK
<1> DEFINE n == IF Len(messages[s]) < HistoryLimit THEN Len(messages[s]) ELSE HistoryLimit
<1>2. n \in 0..Len(messages[s]) /\ (n < HistoryLimit => n = Len(messages[s]))
  BY <1>1
<1> HIDE DEF n
<1>3. /\ SubSeq(messages[s], 1, n) \in Seq(Row) /\ Len(SubSeq(messages[s], 1, n)) = n
      /\ DOMAIN SubSeq(messages[s], 1, n) = 1..n /\ DOMAIN messages[s] = 1..Len(messages[s])
      /\ \A i \in 1..n : SubSeq(messages[s], 1, n)[i] = messages[s][i]
  BY <1>1, <1>2
<1>4. n = Len(messages[s]) => SubSeq(messages[s], 1, n) = messages[s]
  BY <1>1, <1>3
<1>5. HistoryRows(s) = SubSeq(messages[s], 1, n)
  BY DEF HistoryRows, n
<1>6. QED BY <1>2, <1>3, <1>4, <1>5

LEMMA RecallStep == TypeOK /\ Ledgers /\ Recall /\ [Next]_vars => Recall'
<1> SUFFICES ASSUME TypeOK, Ledgers, Recall, [Next]_vars PROVE Recall'
  OBVIOUS
<1>1. /\ pc \in [Turns -> Steps] /\ events \in [Turns -> Seq(SseEvents)]
      /\ history \in [Turns -> Seq(Row)] /\ known \in [Turns -> SUBSET Turns]
      /\ SessionOf \in [Turns -> Sessions]
  BY ConstantsAssumption DEF TypeOK, ControlOK, TurnOK
<1>2. \A u \in Turns : Wrote(u, "done") => Replied(u) /\ pc[u] = "ended"
  BY DEF Ledgers, Ledger, SaidByRows, TerminalEvents
<1>3. ASSUME NEW t \in Turns, TurnStep(t), Unread(t) PROVE Recall'
  <2>1. PICK next, out : Proceed(t, next, out) /\ (next \in HasRead => pc[t] \in HasRead)
    BY <1>3 DEF Unread
  <2>2. \A u \in Turns \ {t} : pc'[u] = pc[u] /\ events'[u] = events[u]
    BY <1>1, <2>1 DEF Proceed
  <2>3. \A u \in Turns : Wrote(u, "done") => Wrote(u, "done")'
    BY <1>2, <1>3, <2>2 DEF Unread, Wrote
  <2>4. \A u \in Turns : pc'[u] \in HasRead => pc[u] \in HasRead
    BY <1>1, <2>1, <2>2 DEF Proceed
  <2>5. QED BY <1>1, <1>3, <2>3, <2>4 DEF Unread, Recall, Recalled
<1>4. ASSUME NEW t \in Turns, ReadHistory(t) PROVE Recall'
  <2>1. /\ history' = [history EXCEPT ![t] = HistoryRows(SessionOf[t])] /\ known' = known
        /\ Proceed(t, "retrieve", <<>>) /\ pc[t] = "history"
    BY <1>4 DEF ReadHistory
  <2>2. /\ \A u \in Turns \ {t} : /\ pc'[u] = pc[u] /\ events'[u] = events[u]
                                  /\ history'[u] = history[u]
        /\ history'[t] = HistoryRows(SessionOf[t])
    BY <1>1, <2>1 DEF Proceed
  <2>3. \A u \in Turns : Wrote(u, "done") => Wrote(u, "done")'
    BY <1>2, <2>1, <2>2 DEF Wrote
  <2>4. ASSUME NEW u \in Turns \ {t} PROVE Recalled(u)'
    BY <1>1, <2>1, <2>2, <2>3 DEF Recall, Recalled
  <2>5. Recalled(t)'
    <3>1. NoRows(t)
      BY <2>1 DEF Ledgers, Ledger, RowsByStep, BeforeQuestion
    <3>2. \A i \in DOMAIN messages[SessionOf[t]] : messages[SessionOf[t]][i].turn # t
      <4>1. \A i \in DOMAIN messages[SessionOf[t]] :
              messages[SessionOf[t]][i].role \in {"user", "assistant"}
        <5>1. messages[SessionOf[t]] \in Seq(Row)
          BY <1>1 DEF TypeOK, DbOK
        <5>2. \A i \in DOMAIN messages[SessionOf[t]] : messages[SessionOf[t]][i] \in Row
          BY <5>1
        <5>3. QED BY <5>2 DEF Row
      <4>2. QED BY <3>1, <4>1 DEF NoRows, RowsOf
    <3>3. \A i \in DOMAIN history'[t] : history'[t][i].turn # t
      <4>1. SessionOf[t] \in Sessions
        BY <1>1
      <4>2. \A i \in DOMAIN HistoryRows(SessionOf[t]) :
              /\ i \in DOMAIN messages[SessionOf[t]]
              /\ HistoryRows(SessionOf[t])[i] = messages[SessionOf[t]][i]
        BY <4>1, HistoryRowsHold
      <4>3. QED BY <2>2, <3>2, <4>2
    <3>4. ASSUME Len(history'[t]) < HistoryLimit, NEW u \in known[t]
          PROVE  \A role \in {"user", "assistant"} : Holds(history'[t], u, role)
      <4>1. history'[t] = messages[SessionOf[t]]
        BY <1>1, <2>2, <3>4, HistoryRowsHold
      <4>2. u \in Turns /\ SessionOf[u] = SessionOf[t] /\ Replied(u)
        BY <1>2, <3>4 DEF Recall, Recalled
      <4>3. QED BY <4>1, <4>2, RepliedHolds
    <3>5. QED BY <2>1, <2>3, <3>3, <3>4 DEF Recall, Recalled
  <2>6. QED BY <2>4, <2>5 DEF Recall
<1>5. CASE UNCHANGED <<events, history>>
           /\ \A t \in Turns : /\ pc'[t] \in HasRead => pc[t] \in HasRead
                               /\ \/ known'[t] = known[t]
                                  \/ /\ pc'[t] \notin HasRead
                                     /\ \A u \in known'[t] : /\ u \in Turns /\ Wrote(u, "done")
                                                             /\ SessionOf[u] = SessionOf[t]
  <2>1. \A u \in Turns : Wrote(u, "done") => Wrote(u, "done")'
    BY <1>5 DEF Wrote
  <2>2. QED BY <1>5, <2>1 DEF Recall, Recalled
<1>6. CASE ~\E t \in Turns : TurnStep(t)
  <2>1. UNCHANGED <<events, history>>
    BY <1>6 DEF Next, vars, CreateSession, SendMessage, ClientClose, Restart, turnVars
  <2>2. {"idle", "lookup", "httpError", "killed"} \cap HasRead = {}
    BY DEF HasRead, AnswerSteps
  <2>3. CASE \E v \in Turns : SendMessage(v)
    BY <1>1, <1>5, <2>1, <2>2, <2>3 DEF SendMessage, Answered, Wrote
  <2>4. CASE ~\E v \in Turns : SendMessage(v)
    <3>1. known' = known
      BY <1>6, <2>4 DEF Next, vars, CreateSession, ClientClose, Restart, turnVars
    <3>2. \A t \in Turns : pc'[t] \in HasRead => pc[t] \in HasRead
      BY <1>1, <1>6, <2>2, <2>4 DEF Next, vars, CreateSession, ClientClose, Restart
    <3>3. QED BY <1>5, <2>1, <3>1, <3>2
  <2>5. QED BY <2>3, <2>4
<1>7. QED BY <1>3, <1>4, <1>6, ReadMoves

\* However turns of a session overlap and whichever call fails: the history a
\* prompt is built from never holds the question itself, and as long as the
\* limit is not reached it holds both rows of every turn the visitor had seen
\* answered when he asked.
THEOREM HistoryIsFaithful == Spec => []HistoryFaithful
<1>1. Init => Recall
  BY DEF Init, Recall, Recalled, HasRead, AnswerSteps
<1>2. Recall => HistoryFaithful
  <2> SUFFICES ASSUME Recall, NEW t \in Turns
               PROVE  LET read == {history[t][i].turn : i \in DOMAIN history[t]}
                      IN /\ t \notin read
                         /\ pc[t] \in HasRead /\ Len(history[t]) < HistoryLimit
                              => \A u \in known[t] : \A role \in {"user", "assistant"} :
                                   Holds(history[t], u, role)
    BY DEF HistoryFaithful, HasRead, Holds
  <2>1. QED BY DEF Recall, Recalled
<1>3. QED BY <1>1, <1>2, RecallStep, LedgersKept, TypeCorrect, PTL DEF Spec

-----------------------------------------------------------------------------
(***************************************************************************)
(* What the breaker is told.                                               *)
(***************************************************************************)
\* A reported success is a stored answer: the turn had no reply before the
\* step and has one after it.
LEMMA SuccessIsStored ==
  ASSUME TypeOK, Ledgers, Ledgers', NEW t \in Turns, Succeeds(t)
  PROVE  AnswerStored(t)
<1>1. RowsOf(t, "assistant") = {}
  BY DEF Succeeds, Ledgers, Ledger, RowsByStep, BeforeReply, Asked
<1>2. pc'[t] = "answerAudit"
  BY DEF Succeeds, Proceed, TypeOK, ControlOK
<1>3. Replied(t)'
  BY <1>2 DEF Ledgers, Ledger, RowsByStep, AfterReply
<1>4. RowsOf(t, "assistant")' # {}
  BY <1>3 DEF Replied
<1>5. QED BY <1>1, <1>4 DEF AnswerStored, Succeeds, AnswerSteps

LEMMA ReportsStep ==
  ASSUME TypeOK, Ledgers, Ledgers', [Next]_vars
  PROVE  /\ consecutiveFailures' > consecutiveFailures => \E t \in Turns : LostToLlm(t)
         /\ consecutiveFailures' < consecutiveFailures /\ restarts' = restarts
              => \E t \in Turns : AnswerStored(t)
<1>1. consecutiveFailures \in Nat /\ restarts \in Nat
  BY ConstantsAssumption DEF TypeOK, BreakerOK
<1>2. CASE UNCHANGED breakerVars
  BY <1>1, <1>2 DEF breakerVars
<1>3. CASE Restart
  BY <1>1, <1>3 DEF Restart
<1>4. ASSUME NEW t \in Turns, Fails(t)
      PROVE  LostToLlm(t) /\ consecutiveFailures' = consecutiveFailures + 1
  BY <1>4 DEF Fails, RecordFailure
<1>5. ASSUME NEW t \in Turns, Succeeds(t)
      PROVE  AnswerStored(t) /\ consecutiveFailures' = 0
  BY <1>5, SuccessIsStored DEF Succeeds, RecordSuccess
<1>6. QED BY <1>1, <1>2, <1>3, <1>4, <1>5, ReportMoves

\* However turns overlap, and whatever fails between a stream and its report:
\* the count of the breaker rises only with a stream the LLM lost, never with
\* one its client left, and is cleared, short of a restart, only by a step that
\* stores an answer of the LLM.
THEOREM ReportsMatchOutcomes == Spec => ReportsMatchOutcome
<1>1. TypeOK /\ Ledgers /\ Ledgers' /\ [Next]_vars
        => [/\ consecutiveFailures' > consecutiveFailures => \E t \in Turns : LostToLlm(t)
            /\ consecutiveFailures' < consecutiveFailures /\ restarts' = restarts
                 => \E t \in Turns : AnswerStored(t)]_vars
  BY ReportsStep
<1>2. QED BY <1>1, LedgersKept, TypeCorrect, PTL DEF Spec, ReportsMatchOutcome

-----------------------------------------------------------------------------
(***************************************************************************)
(* The alerts.                                                             *)
(***************************************************************************)
\* The premise of EveryLevelAlerts.
Undisturbed == DbFaults \cap {"unacked", "unlogged"} = {} /\ MaxRestarts = 0

AlertSteps == {"blockedAlert", "confidentialAlert"}
\* Where a turn may be that has counted its message.
AfterCount ==
  AlertSteps \cup {"blockedUser", "blockedAssistant", "confidentialUser", "confidentialAssistant",
                   "confidentialAudit", "catchAll"} \cup Stopped

Alerted(t) == Audited(t, "sensitive_intent_alert")
Alerting(t) == Alerted(t) \/ pc[t] \in AlertSteps
AlertingOf(s) == {t \in Turns : SessionOf[t] = s /\ Alerting(t)}
Guided(t) ==
  \A i \in RowsOf(t, "assistant") : messages[SessionOf[t]][i].guidance <=> Alerted(t)

\* A turn alerts if, and once, it has been told a count from the threshold on.
AlertByCount(t) ==
  /\ seenCount[t] > 0 => pc[t] \in AfterCount
  /\ Alerting(t) <=> seenCount[t] >= AlertThreshold
  /\ pc[t] \in AlertSteps => ~Alerted(t)
  /\ Guided(t)
Levels(count) == IF count < AlertThreshold THEN 0 ELSE count - AlertThreshold + 1
AlertLedger ==
  /\ \A t \in Turns : AlertByCount(t)
  /\ \A s \in Sessions : /\ IsFiniteSet(AlertingOf(s))
                         /\ Cardinality(AlertingOf(s)) = Levels(sensitiveIntentCount[s])

\* The steps of a turn, as far as counts and alerts go: none of them, ...
Plain(step, next) ==
  step \notin AlertSteps /\ next \notin AlertSteps /\ (step \in AfterCount => next \in AfterCount)
StoresGuided(t) ==
  \/ UNCHANGED messages
  \/ \E row \in Row :
       /\ messages' = [messages EXCEPT ![SessionOf[t]] = Append(@, row)] /\ row.turn = t
       /\ row.role = "assistant" => (row.guidance <=> Alerted(t))
Calm(t) ==
  /\ UNCHANGED <<seenCount, sensitiveIntentCount>>
  /\ \A u \in Turns : Alerted(u)' <=> Alerted(u)
  /\ \E next, out : Proceed(t, next, out) /\ Plain(pc[t], next)
  /\ StoresGuided(t)

\* ... the count, ...
Counts(t) ==
  LET count == sensitiveIntentCount[SessionOf[t]] + 1
  IN /\ pc[t] \in {"blockedIncrement", "confidentialIncrement"}
     /\ sensitiveIntentCount' = [sensitiveIntentCount EXCEPT ![SessionOf[t]] = count]
     /\ seenCount' = [seenCount EXCEPT ![t] = count]
     /\ \E next \in AfterCount : /\ Proceed(t, next, <<>>)
                                 /\ next \in AlertSteps <=> count >= AlertThreshold
     /\ UNCHANGED <<messages, audit>>

\* ... or the alert.
Alerts(t) ==
  /\ pc[t] \in AlertSteps
  /\ audit' = audit \cup {<<t, "sensitive_intent_alert">>}
  /\ \E next \in {"blockedUser", "confidentialUser"} : Proceed(t, next, <<>>)
  /\ UNCHANGED <<seenCount, sensitiveIntentCount, messages>>

LEMMA StepNames ==
  /\ AfterCount = {"blockedAlert", "confidentialAlert", "blockedUser", "blockedAssistant",
                   "confidentialUser", "confidentialAssistant", "confidentialAudit", "catchAll",
                   "ended", "httpError", "escaped", "killed"}
  /\ AlertSteps = {"blockedAlert", "confidentialAlert"}
BY DEF AfterCount, AlertSteps, Stopped

\* The calls that neither count nor alert are calm, and so is a refused query.
LEMMA StepIsCalm ==
  ASSUME NEW t \in Turns, NEW step, NEW next, NEW out, Step(t, step, next, out), Plain(step, next)
  PROVE  Calm(t)
BY DEF Step, turnVars, dbVars, rowVars, Calm, StoresGuided, Alerted, Audited

LEMMA ThrowIsCalm ==
  ASSUME NEW t \in Turns, pc[t] \notin AlertSteps, Throw(t),
         UNCHANGED <<seenCount, sensitiveIntentCount, messages, audit>>
  PROVE  Calm(t)
<1>1. \E next \in {"escaped", "catchAll"} : Proceed(t, next, <<>>)
  BY DEF Throw
<1>2. \A next \in {"escaped", "catchAll"} : Plain(pc[t], next)
  BY StepNames DEF Plain
<1>3. \A u \in Turns : Alerted(u)' <=> Alerted(u)
  BY DEF Alerted, Audited
<1>4. QED BY <1>1, <1>2, <1>3 DEF Calm, StoresGuided

\* An insert stores its row and is acknowledged, or is refused.
LEMMA InsertOutcome ==
  ASSUME Undisturbed, NEW t \in Turns, NEW row, NEW acknowledged, Insert(t, row, acknowledged)
  PROVE  \/ acknowledged /\ messages' = [messages EXCEPT ![SessionOf[t]] = Append(@, row)]
         \/ Throw(t) /\ UNCHANGED messages
BY DEF Insert, Write, Undisturbed

LEMMA LogIsCalm ==
  ASSUME Undisturbed, NEW t \in Turns, NEW step, NEW event, event # "sensitive_intent_alert",
         NEW next, NEW out, Log(t, step, event, next, out), Plain(step, next)
  PROVE  Calm(t)
<1>1. /\ UNCHANGED <<seenCount, sensitiveIntentCount, messages>> /\ pc[t] = step
      /\ audit' = audit \cup {<<t, event>>} /\ Proceed(t, next, out)
  BY DEF Log, turnVars, rowVars, Undisturbed
<1>2. \A u \in Turns : Alerted(u)' <=> Alerted(u)
  BY <1>1 DEF Alerted, Audited
<1>3. QED BY <1>1, <1>2 DEF Calm, StoresGuided

LEMMA InsertIsCalm ==
  ASSUME Undisturbed, NEW t \in Turns, NEW row \in Row, row.turn = t,
         row.role = "assistant" => (row.guidance <=> Alerted(t)),
         messages' = [messages EXCEPT ![SessionOf[t]] = Append(@, row)],
         UNCHANGED <<seenCount, sensitiveIntentCount, audit>>,
         NEW next, NEW out, Proceed(t, next, out), Plain(pc[t], next)
  PROVE  Calm(t)
<1>1. \A u \in Turns : Alerted(u)' <=> Alerted(u)
  BY DEF Alerted, Audited
<1>2. QED BY <1>1 DEF Calm, StoresGuided

LEMMA QuestionIsCalm ==
  ASSUME Undisturbed, NEW t \in Turns, NEW step, NEW type \in {"normal", "blocked", "confidential"},
         NEW next, NEW out, AddMessage(t, step, NewRow(t, "user", type, FALSE, 0), next, out),
         Plain(step, next)
  PROVE  Calm(t)
<1> DEFINE row == NewRow(t, "user", type, FALSE, 0)
<1>1. row \in Row /\ row.turn = t /\ row.role = "user"
  BY NewRowType DEF NewRow
<1> HIDE DEF row
<1>2. UNCHANGED <<seenCount, sensitiveIntentCount, audit>> /\ pc[t] = step
  BY DEF AddMessage, turnVars
<1>3. \/ Proceed(t, next, out) /\ messages' = [messages EXCEPT ![SessionOf[t]] = Append(@, row)]
      \/ Throw(t) /\ UNCHANGED messages
  BY InsertOutcome DEF AddMessage, row
<1>4. QED BY <1>1, <1>2, <1>3, InsertIsCalm, ThrowIsCalm DEF Plain

\* A turn that has not counted has not alerted, and its reply has no guidance.
LEMMA ReplyIsCalm ==
  ASSUME Undisturbed, TypeOK, NEW t \in Turns, AlertByCount(t), pc[t] \notin AfterCount,
         NEW chunks \in Nat, NEW next, NEW out, NEW acknowledged,
         acknowledged => Proceed(t, next, out), Plain(pc[t], next),
         Insert(t, NewRow(t, "assistant", "normal", FALSE, chunks), acknowledged),
         UNCHANGED <<seenCount, sensitiveIntentCount, audit>>
  PROVE  Calm(t)
<1> DEFINE row == NewRow(t, "assistant", "normal", FALSE, chunks)
<1>1. row \in Row /\ row.turn = t /\ row.guidance = FALSE
  BY NewRowType DEF NewRow
<1>2. ~Alerted(t)
  <2>1. seenCount[t] \in Nat /\ AlertThreshold \in Nat \ {0}
    BY ConstantsAssumption DEF TypeOK, TurnOK
  <2>2. QED BY <2>1 DEF AlertByCount, Alerting
<1>3. \/ acknowledged /\ messages' = [messages EXCEPT ![SessionOf[t]] = Append(@, row)]
      \/ Throw(t) /\ UNCHANGED messages
  BY InsertOutcome
<1> HIDE DEF row
<1>4. QED BY <1>1, <1>2, <1>3, InsertIsCalm, ThrowIsCalm DEF Plain

\* A refusal has the guidance if the turn has alerted.
LEMMA RefusalIsCalm ==
  ASSUME Undisturbed, TypeOK, NEW t \in Turns, AlertByCount(t), NEW step, step \notin AlertSteps,
         NEW type \in {"blocked", "confidential"}, NEW next, NEW out, Plain(step, next),
         AddMessage(t, step, NewRow(t, "assistant", type, IncludeHandoff(t), 0), next, out)
  PROVE  Calm(t)
<1> DEFINE row == NewRow(t, "assistant", type, IncludeHandoff(t), 0)
<1>1. IncludeHandoff(t) \in BOOLEAN /\ (IncludeHandoff(t) <=> Alerted(t))
  <2>1. pc[t] = step
    BY DEF AddMessage
  <2>2. QED BY <2>1 DEF IncludeHandoff, AlertByCount, Alerting
<1>2. row \in Row /\ row.turn = t /\ row.guidance = IncludeHandoff(t)
  BY <1>1, NewRowType DEF NewRow
<1> HIDE DEF row
<1>3. UNCHANGED <<seenCount, sensitiveIntentCount, audit>> /\ pc[t] = step
  BY DEF AddMessage, turnVars
<1>4. \/ Proceed(t, next, out) /\ messages' = [messages EXCEPT ![SessionOf[t]] = Append(@, row)]
      \/ Throw(t) /\ UNCHANGED messages
  BY InsertOutcome DEF AddMessage, row
<1>5. QED BY <1>1, <1>2, <1>3, <1>4, InsertIsCalm, ThrowIsCalm

LEMMA IncrementCounts ==
  ASSUME Undisturbed, NEW t \in Turns, NEW step \in {"blockedIncrement", "confidentialIncrement"},
         NEW alertStep \in AlertSteps, NEW next \in AfterCount \ AlertSteps,
         Increment(t, step, alertStep, next)
  PROVE  Counts(t) \/ Calm(t)
<1> DEFINE count == sensitiveIntentCount[SessionOf[t]] + 1
           goes == IF count >= AlertThreshold THEN alertStep ELSE next
<1>1. /\ pc[t] = step /\ UNCHANGED <<messages, audit>>
      /\ \/ /\ Proceed(t, goes, <<>>)
            /\ sensitiveIntentCount' = [sensitiveIntentCount EXCEPT ![SessionOf[t]] = count]
            /\ seenCount' = [seenCount EXCEPT ![t] = count]
         \/ Throw(t) /\ UNCHANGED <<seenCount, sensitiveIntentCount>>
  BY DEF Increment, IncrementTo, Write, Undisturbed
<1>2. goes \in AfterCount /\ (goes \in AlertSteps <=> count >= AlertThreshold)
  BY StepNames
<1>3. pc[t] \notin AlertSteps
  BY <1>1, StepNames
<1>4. QED BY <1>1, <1>2, <1>3, ThrowIsCalm DEF Counts

LEMMA LogAlerts ==
  ASSUME Undisturbed, NEW t \in Turns, NEW step \in AlertSteps,
         NEW next \in {"blockedUser", "confidentialUser"},
         Log(t, step, "sensitive_intent_alert", next, <<>>)
  PROVE  Alerts(t)
BY DEF Log, turnVars, rowVars, Undisturbed, Alerts

\* Where the inserts of run() go on.
LEMMA InsertsArePlain ==
  /\ Plain("fallbackUser", "fallbackAssistant") /\ Plain("fallbackAssistant", "fallbackAudit")
  /\ Plain("noHitsUser", "noHitsAssistant") /\ Plain("noHitsAssistant", "noHitsAudit")
  /\ Plain("answerUser", "llm") /\ Plain("answerAssistant", "answerAudit")
  /\ Plain("blockedUser", "blockedAssistant") /\ Plain("blockedAssistant", "ended")
  /\ Plain("confidentialUser", "confidentialAssistant")
  /\ Plain("confidentialAssistant", "confidentialAudit")
BY StepNames DEF Plain

LEMMA AlertMoves ==
  ASSUME Undisturbed, TypeOK, NEW t \in Turns, AlertByCount(t), TurnStep(t)
  PROVE  Calm(t) \/ Counts(t) \/ Alerts(t)
<1> USE StepNames
<1>1. CASE Start(t)
  <2>1. \A next \in {"httpError", "fallbackUser", "ended", "blockedAudit", "sensitiveAudit",
                     "confidentialMark", "history"} : Plain("lookup", next)
    BY DEF Plain
  <2>2. QED
    BY <1>1, <2>1, StepIsCalm DEF Start, LookupFails, BeginDegraded, RejectTooLong, Block, Refuse,
       Admit, Begin
<1>2. CASE Degraded(t)
  <2>1. CASE FallbackUser(t)
    BY <2>1, InsertsArePlain, QuestionIsCalm DEF FallbackUser
  <2>2. CASE FallbackAssistant(t)
    <3>1. /\ Insert(t, NewRow(t, "assistant", "normal", FALSE, 0),
                    Proceed(t, "fallbackAudit", <<>>) /\ UNCHANGED breakerVars)
          /\ pc[t] = "fallbackAssistant" /\ UNCHANGED <<seenCount, sensitiveIntentCount, audit>>
      BY <2>2 DEF FallbackAssistant, AddMessage, turnVars
    <3>2. QED BY <3>1, InsertsArePlain, ReplyIsCalm
  <2>3. CASE FallbackAudit(t)
    BY <2>3, LogIsCalm DEF FallbackAudit, Plain
  <2>4. QED BY <1>2, <2>1, <2>2, <2>3 DEF Degraded
<1>3. CASE Blocked(t)
  <2>1. CASE BlockedAudit(t)
    BY <2>1, LogIsCalm DEF BlockedAudit, Plain
  <2>2. CASE BlockedIncrement(t)
    BY <2>2, IncrementCounts DEF BlockedIncrement
  <2>3. CASE BlockedAlert(t)
    BY <2>3, LogAlerts DEF BlockedAlert
  <2>4. CASE BlockedUser(t)
    BY <2>4, InsertsArePlain, QuestionIsCalm DEF BlockedUser
  <2>5. CASE BlockedAssistant(t)
    BY <2>5, InsertsArePlain, RefusalIsCalm DEF BlockedAssistant
  <2>6. QED BY <1>3, <2>1, <2>2, <2>3, <2>4, <2>5 DEF Blocked
<1>4. CASE Confidential(t)
  <2>1. CASE ConfidentialMark(t)
    <3>1. /\ UNCHANGED <<seenCount, sensitiveIntentCount, messages, audit>>
          /\ pc[t] = "confidentialMark"
          /\ Proceed(t, "confidentialIncrement", <<>>) \/ Throw(t)
      BY <2>1 DEF ConfidentialMark, Write, turnVars
    <3>2. CASE Proceed(t, "confidentialIncrement", <<>>)
      BY <3>1, <3>2 DEF Calm, Plain, StoresGuided, Alerted, Audited
    <3>3. CASE Throw(t)
      BY <3>1, <3>3, ThrowIsCalm
    <3>4. QED BY <3>1, <3>2, <3>3
  <2>2. CASE ConfidentialIncrement(t)
    BY <2>2, IncrementCounts DEF ConfidentialIncrement
  <2>3. CASE ConfidentialAlert(t)
    BY <2>3, LogAlerts DEF ConfidentialAlert
  <2>4. CASE ConfidentialUser(t)
    BY <2>4, InsertsArePlain, QuestionIsCalm DEF ConfidentialUser
  <2>5. CASE ConfidentialAssistant(t)
    BY <2>5, InsertsArePlain, RefusalIsCalm DEF ConfidentialAssistant
  <2>6. CASE ConfidentialAudit(t)
    BY <2>6, LogIsCalm DEF ConfidentialAudit, Plain
  <2>7. QED BY <1>4, <2>1, <2>2, <2>3, <2>4, <2>5, <2>6 DEF Confidential
<1>5. CASE Prepare(t)
  <2>1. CASE ReadHistory(t)
    <3>1. /\ UNCHANGED <<seenCount, sensitiveIntentCount, messages, audit>>
          /\ pc[t] = "history" /\ Proceed(t, "retrieve", <<>>)
      BY <2>1 DEF ReadHistory, dbVars, rowVars
    <3>2. QED BY <3>1 DEF Calm, Plain, StoresGuided, Alerted, Audited
  <2>2. CASE Retrieve(t)
    BY <2>2, StepIsCalm DEF Retrieve, Plain
  <2>3. CASE ReadFails(t)
    BY <2>3, StepIsCalm DEF ReadFails, Plain
  <2>4. CASE NoHitsUser(t)
    BY <2>4, InsertsArePlain, QuestionIsCalm DEF NoHitsUser
  <2>5. CASE NoHitsAssistant(t)
    <3>1. /\ Insert(t, NewRow(t, "assistant", "normal", FALSE, 0),
                    Proceed(t, "noHitsAudit", <<>>) /\ UNCHANGED breakerVars)
          /\ pc[t] = "noHitsAssistant" /\ UNCHANGED <<seenCount, sensitiveIntentCount, audit>>
      BY <2>5 DEF NoHitsAssistant, AddMessage, turnVars
    <3>2. QED BY <3>1, InsertsArePlain, ReplyIsCalm
  <2>6. CASE NoHitsAudit(t)
    BY <2>6, LogIsCalm DEF NoHitsAudit, Plain
  <2>7. QED BY <1>5, <2>1, <2>2, <2>3, <2>4, <2>5, <2>6 DEF Prepare
<1>6. CASE Stream(t)
  <2>1. CASE LlmChunk(t) \/ LlmTimeout(t) \/ LlmError(t)
    <3>1. UNCHANGED <<seenCount, sensitiveIntentCount, messages, audit>> /\ pc[t] = "llm"
      BY <2>1 DEF LlmChunk, LlmTimeout, LlmError, turnVars, dbVars, rowVars
    <3>2. \E next \in {"llm", "timeoutAudit", "degradedAudit", "errorAudit"} : \E out :
            Proceed(t, next, out)
      BY <2>1 DEF LlmChunk, LlmTimeout, LlmError
    <3>3. QED BY <3>1, <3>2 DEF Calm, Plain, StoresGuided, Alerted, Audited
  <2>2. CASE AnswerUser(t)
    BY <2>2, InsertsArePlain, QuestionIsCalm DEF AnswerUser
  <2>3. CASE LlmFinish(t) \/ LlmInterrupted(t)
    BY <2>3, StepIsCalm DEF LlmFinish, LlmInterrupted, Plain
  <2>4. CASE TimeoutAudit(t) \/ DegradedAudit(t) \/ ErrorAudit(t)
    BY <2>4, LogIsCalm DEF TimeoutAudit, DegradedAudit, ErrorAudit, Plain
  <2>5. QED BY <1>6, <2>1, <2>2, <2>3, <2>4 DEF Stream
<1>7. CASE Store(t)
  <2>1. CASE AnswerAssistant(t)
    <3>1. PICK n \in Nat : n = content[t]
      BY DEF TypeOK, TurnOK
    <3>2. StoreAnswer(t, n)
      BY <2>1, <3>1 DEF AnswerAssistant
    <3>3. /\ Insert(t, NewRow(t, "assistant", "normal", FALSE, n),
                    Proceed(t, "answerAudit", <<>>) /\ RecordSuccess)
          /\ pc[t] = "answerAssistant" /\ UNCHANGED <<seenCount, sensitiveIntentCount, audit>>
      BY <3>2 DEF StoreAnswer, turnVars
    <3>4. QED BY <3>3, InsertsArePlain, ReplyIsCalm
  <2>2. CASE AnswerAudit(t) \/ CatchAll(t)
    BY <2>2, LogIsCalm DEF AnswerAudit, CatchAll, Plain
  <2>3. QED BY <1>7, <2>1, <2>2 DEF Store
<1>8. QED
  BY <1>1, <1>2, <1>3, <1>4, <1>5, <1>6, <1>7 DEF TurnStep

-----------------------------------------------------------------------------
\* Guidance stays with the alert as long as nobody alerts.
LEMMA GuidedKept ==
  ASSUME TypeOK, NEW t \in Turns, StoresGuided(t), \A v \in Turns : Alerted(v)' <=> Alerted(v),
         NEW u \in Turns, Guided(u)
  PROVE  Guided(u)'
<1>1. CASE UNCHANGED messages
  <2>1. RowsOf(u, "assistant")' = RowsOf(u, "assistant")
    BY <1>1 DEF RowsOf
  <2>2. QED BY <1>1, <2>1 DEF Guided
<1>2. CASE ~UNCHANGED messages
  <2>1. PICK row \in Row :
          /\ messages' = [messages EXCEPT ![SessionOf[t]] = Append(@, row)] /\ row.turn = t
          /\ row.role = "assistant" => (row.guidance <=> Alerted(t))
    BY <1>2 DEF StoresGuided
  <2>2. /\ SessionOf[t] \in Sessions /\ SessionOf[u] \in Sessions
        /\ messages \in [Sessions -> Seq(Row)]
    BY ConstantsAssumption DEF TypeOK, DbOK
  <2> DEFINE s == SessionOf[u]
             n == Len(messages[s]) + 1
  <2>3. /\ DOMAIN messages[s] = 1..(n - 1) /\ n \in Nat
        /\ \/ messages'[s] = messages[s]
           \/ /\ s = SessionOf[t] /\ messages'[s][n] = row
              /\ DOMAIN messages'[s] = 1..n
              /\ \A i \in 1..(n - 1) : messages'[s][i] = messages[s][i]
    BY <2>1, <2>2
  <2> HIDE DEF n
  <2> SUFFICES ASSUME NEW i \in RowsOf(u, "assistant")'
               PROVE  messages'[s][i].guidance <=> Alerted(u)'
    BY DEF Guided
  <2>4. i \in DOMAIN messages'[s] /\ messages'[s][i].turn = u /\ messages'[s][i].role = "assistant"
    BY DEF RowsOf
  <2>5. CASE i \in RowsOf(u, "assistant") /\ messages'[s][i] = messages[s][i]
    BY <2>5 DEF Guided
  <2>6. CASE i = n /\ messages'[s][i] = row
    BY <2>1, <2>4, <2>6
  <2>7. QED BY <2>3, <2>4, <2>5, <2>6 DEF RowsOf
<1>3. QED BY <1>1, <1>2

\* A step that leaves counts and alerts alone.
LEMMA CalmKeeps ==
  ASSUME TypeOK, AlertLedger, UNCHANGED <<seenCount, sensitiveIntentCount>>,
         \A u \in Turns : Alerted(u)' <=> Alerted(u),
         \A u \in Turns : Guided(u) => Guided(u)',
         \A u \in Turns : /\ pc'[u] \in AlertSteps <=> pc[u] \in AlertSteps
                          /\ pc[u] \in AfterCount => pc'[u] \in AfterCount
  PROVE  AlertLedger'
<1>1. \A u \in Turns : Alerting(u)' <=> Alerting(u)
  BY DEF Alerting
<1>2. \A s : AlertingOf(s)' = AlertingOf(s)
  BY <1>1 DEF AlertingOf
<1>3. \A u \in Turns : AlertByCount(u)'
  BY <1>1 DEF AlertLedger, AlertByCount
<1>4. QED BY <1>2, <1>3 DEF AlertLedger

LEMMA CountsKeeps ==
  ASSUME TypeOK, AlertLedger, NEW t \in Turns, Counts(t)
  PROVE  AlertLedger'
<1> DEFINE s == SessionOf[t]
           count == sensitiveIntentCount[s] + 1
<1>1. /\ s \in Sessions /\ AlertThreshold \in Nat \ {0} /\ sensitiveIntentCount[s] \in Nat
      /\ SessionOf \in [Turns -> Sessions] /\ sensitiveIntentCount \in [Sessions -> Nat]
      /\ seenCount \in [Turns -> Nat] /\ pc \in [Turns -> Steps]
  BY ConstantsAssumption DEF TypeOK, ControlOK, TurnOK, DbOK
<1>2. PICK next \in AfterCount :
        /\ sensitiveIntentCount' = [sensitiveIntentCount EXCEPT ![s] = count]
        /\ seenCount' = [seenCount EXCEPT ![t] = count]
        /\ pc' = [pc EXCEPT ![t] = next] /\ UNCHANGED <<messages, audit>>
        /\ next \in AlertSteps <=> count >= AlertThreshold
  BY DEF Counts, Proceed
<1>3. ~Alerting(t) /\ Guided(t)
  <2>1. pc[t] \notin AfterCount
    BY StepNames DEF Counts
  <2>2. seenCount[t] \in Nat /\ AlertByCount(t)
    BY <1>1 DEF AlertLedger
  <2>3. QED BY <1>1, <2>1, <2>2 DEF AlertByCount
<1>4. \A u \in Turns : (Alerted(u)' <=> Alerted(u)) /\ (Guided(u) => Guided(u)')
  <2>1. \A u \in Turns : Alerted(u)' <=> Alerted(u)
    BY <1>2 DEF Alerted, Audited
  <2>2. \A u \in Turns : RowsOf(u, "assistant")' = RowsOf(u, "assistant")
    BY <1>2 DEF RowsOf
  <2>3. QED BY <1>2, <2>1, <2>2 DEF Guided
<1>5. \A u \in Turns \ {t} : /\ pc'[u] = pc[u] /\ seenCount'[u] = seenCount[u]
                             /\ Alerting(u)' <=> Alerting(u)
  BY <1>1, <1>2, <1>4 DEF Alerting
<1>6. Alerting(t)' <=> count >= AlertThreshold
  BY <1>1, <1>2, <1>3, <1>4 DEF Alerting
<1>7. AlertByCount(t)'
  BY <1>1, <1>2, <1>3, <1>4, <1>6 DEF AlertByCount, Alerting
<1>8. \A u \in Turns \ {t} : AlertByCount(u)'
  BY <1>4, <1>5 DEF AlertLedger, AlertByCount
<1>9. ASSUME NEW r \in Sessions
      PROVE  /\ IsFiniteSet(AlertingOf(r)')
             /\ Cardinality(AlertingOf(r)') = Levels(sensitiveIntentCount'[r])
  <2>1. /\ IsFiniteSet(AlertingOf(r))
        /\ Cardinality(AlertingOf(r)) = Levels(sensitiveIntentCount[r])
    BY DEF AlertLedger
  <2>2. CASE r # s
    <3>1. AlertingOf(r)' = AlertingOf(r)
      BY <1>5, <2>2 DEF AlertingOf
    <3>2. sensitiveIntentCount'[r] = sensitiveIntentCount[r]
      BY <1>1, <1>2, <2>2
    <3>3. QED BY <2>1, <3>1, <3>2
  <2>3. CASE r = s
    <3>1. sensitiveIntentCount'[r] = count
      BY <1>1, <1>2, <2>3
    <3>2. CASE count >= AlertThreshold
      <4>1. AlertingOf(r)' = AlertingOf(r) \cup {t} /\ t \notin AlertingOf(r)
        BY <1>3, <1>5, <1>6, <2>3, <3>2 DEF AlertingOf
      <4>2. /\ IsFiniteSet(AlertingOf(r)')
            /\ Cardinality(AlertingOf(r)') = Cardinality(AlertingOf(r)) + 1
        BY <2>1, <4>1, FS_AddElement
      <4>3. Levels(count) = Levels(sensitiveIntentCount[s]) + 1
        BY <1>1, <3>2 DEF Levels
      <4>4. QED BY <2>1, <2>3, <3>1, <4>2, <4>3
    <3>3. CASE ~(count >= AlertThreshold)
      <4>1. AlertingOf(r)' = AlertingOf(r)
        BY <1>3, <1>5, <1>6, <2>3, <3>3 DEF AlertingOf
      <4>2. Levels(count) = Levels(sensitiveIntentCount[s])
        BY <1>1, <3>3 DEF Levels
      <4>3. QED BY <2>1, <2>3, <3>1, <4>1, <4>2
    <3>4. QED BY <3>2, <3>3
  <2>4. QED BY <2>2, <2>3
<1>10. QED BY <1>7, <1>8, <1>9 DEF AlertLedger

LEMMA AlertsKeeps ==
  ASSUME TypeOK, Ledgers, AlertLedger, NEW t \in Turns, Alerts(t)
  PROVE  AlertLedger'
<1>1. pc \in [Turns -> Steps]
  BY DEF TypeOK, ControlOK
<1>2. PICK next \in AfterCount \ AlertSteps : pc' = [pc EXCEPT ![t] = next]
  BY StepNames DEF Alerts, Proceed
<1>3. /\ UNCHANGED <<seenCount, sensitiveIntentCount, messages>>
      /\ audit' = audit \cup {<<t, "sensitive_intent_alert">>} /\ pc[t] \in AlertSteps
  BY DEF Alerts
<1>4. /\ Alerted(t)'
      /\ \A u \in Turns \ {t} : (Alerted(u)' <=> Alerted(u)) /\ pc'[u] = pc[u]
  BY <1>1, <1>2, <1>3 DEF Alerted, Audited
<1>5. \A u \in Turns : Alerting(u)' <=> Alerting(u)
  BY <1>3, <1>4 DEF Alerting
<1>6. \A s : AlertingOf(s)' = AlertingOf(s)
  BY <1>5 DEF AlertingOf
<1>7. \A u \in Turns : RowsOf(u, "assistant")' = RowsOf(u, "assistant")
  BY <1>3 DEF RowsOf
<1>8. Guided(t)'
  <2>1. NoRows(t)
    BY <1>3, StepNames DEF Ledgers, Ledger, RowsByStep, BeforeQuestion
  <2>2. QED BY <1>7, <2>1 DEF Guided, NoRows
<1>9. \A u \in Turns \ {t} : Guided(u) => Guided(u)'
  BY <1>3, <1>4, <1>7 DEF Guided
<1>10. AlertByCount(t)'
  <2>1. AlertByCount(t) /\ pc'[t] = next
    BY <1>1, <1>2 DEF AlertLedger
  <2>2. QED BY <1>2, <1>3, <1>5, <1>8, <2>1 DEF AlertByCount
<1>11. \A u \in Turns \ {t} : AlertByCount(u)'
  BY <1>3, <1>4, <1>5, <1>9 DEF AlertLedger, AlertByCount
<1>12. QED BY <1>3, <1>6, <1>10, <1>11 DEF AlertLedger

LEMMA AlertStep ==
  ASSUME Undisturbed, TypeOK, Ledgers, AlertLedger, [Next]_vars
  PROVE  AlertLedger'
<1>1. pc \in [Turns -> Steps]
  BY DEF TypeOK, ControlOK
<1>2. ASSUME NEW t \in Turns, Calm(t) PROVE AlertLedger'
  <2>1. PICK next, out : Proceed(t, next, out) /\ Plain(pc[t], next)
    BY <1>2 DEF Calm
  <2>2. \A u \in Turns : pc'[u] = IF u = t THEN next ELSE pc[u]
    BY <1>1, <2>1 DEF Proceed
  <2>3. \A u \in Turns : /\ pc'[u] \in AlertSteps <=> pc[u] \in AlertSteps
                         /\ pc[u] \in AfterCount => pc'[u] \in AfterCount
    BY <2>1, <2>2 DEF Plain
  <2>4. \A u \in Turns : Guided(u) => Guided(u)'
    BY <1>2, GuidedKept DEF Calm
  <2>5. QED BY <1>2, <2>3, <2>4, CalmKeeps DEF Calm
<1>3. CASE ~\E t \in Turns : TurnStep(t)
  <2>1. UNCHANGED <<seenCount, sensitiveIntentCount, messages, audit>>
    BY <1>3 DEF Next, vars, CreateSession, SendMessage, ClientClose, Restart, turnVars, dbVars,
       rowVars
  <2>2. ~Restart
    BY ConstantsAssumption DEF Restart, Undisturbed, TypeOK
  <2>3. \A u \in Turns : pc'[u] = pc[u] \/ (pc[u] = "idle" /\ pc'[u] = "lookup")
    BY <1>1, <1>3, <2>2 DEF Next, vars, CreateSession, SendMessage, ClientClose
  <2>4. \A u \in Turns : /\ pc'[u] \in AlertSteps <=> pc[u] \in AlertSteps
                         /\ pc[u] \in AfterCount => pc'[u] \in AfterCount
    BY <2>3, StepNames
  <2>5. \A u \in Turns : Alerted(u)' <=> Alerted(u)
    BY <2>1 DEF Alerted, Audited
  <2>6. \A u \in Turns : RowsOf(u, "assistant")' = RowsOf(u, "assistant")
    BY <2>1 DEF RowsOf
  <2>7. \A u \in Turns : Guided(u) => Guided(u)'
    BY <2>1, <2>5, <2>6 DEF Guided
  <2>8. QED BY <2>1, <2>4, <2>5, <2>7, CalmKeeps
<1>4. ASSUME NEW t \in Turns, TurnStep(t) PROVE AlertLedger'
  <2>1. AlertByCount(t)
    BY DEF AlertLedger
  <2>2. QED BY <1>2, <1>4, <2>1, AlertMoves, CountsKeeps, AlertsKeeps
<1>5. QED BY <1>3, <1>4

\* Without restarts and if only queries are refused: however the turns of a
\* session interleave and wherever one of them breaks off, each level of the sensitive count from the
\* threshold on has raised, or is raising, exactly one alert, and the handoff
\* guidance of a stored refusal goes with the alert of its turn.
THEOREM EveryLevelDoesAlert == Spec => []EveryLevelAlerts
<1> DEFINE Good == Undisturbed => AlertLedger
<1>1. Init => Good
  <2> SUFFICES ASSUME Init PROVE AlertLedger
    OBVIOUS
  <2>1. \A t \in Turns : /\ pc[t] = "idle" /\ seenCount[t] = 0 /\ ~Alerted(t)
                         /\ RowsOf(t, "assistant") = {}
    BY ConstantsAssumption DEF Init, Alerted, Audited, RowsOf
  <2>2. \A t \in Turns : ~Alerting(t)
    BY <2>1, StepNames DEF Alerting
  <2>3. \A s : AlertingOf(s) = {}
    BY <2>2 DEF AlertingOf
  <2>4. Levels(0) = 0 /\ AlertThreshold \in Nat \ {0}
    BY ConstantsAssumption DEF Levels
  <2>5. \A s \in Sessions : sensitiveIntentCount[s] = 0
    BY DEF Init
  <2>6. \A t \in Turns : AlertByCount(t)
    BY <2>1, <2>2, <2>4, StepNames DEF AlertByCount, Guided
  <2>7. QED BY <2>3, <2>4, <2>5, <2>6, FS_EmptySet DEF AlertLedger
<1>2. TypeOK /\ Ledgers /\ Good /\ [Next]_vars => Good'
  BY AlertStep DEF Undisturbed
<1>3. Good => EveryLevelAlerts
  <2> SUFFICES ASSUME AlertLedger
               PROVE  /\ \A s \in Sessions :
                           Cardinality(AlertingOf(s)) = Levels(sensitiveIntentCount[s])
                      /\ \A t \in Turns : Guided(t)
    BY DEF EveryLevelAlerts, Undisturbed, AlertingOf, Alerting, AlertSteps, Alerted, Levels, Guided
  <2>1. QED BY DEF AlertLedger, AlertByCount
<1>4. QED BY <1>1, <1>2, <1>3, LedgersKept, TypeCorrect, PTL DEF Spec
=============================================================================
