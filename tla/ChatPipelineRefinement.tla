----------------------- MODULE ChatPipelineRefinement -----------------------
(***************************************************************************)
(* ChatPipeline implements SseStream, AiStatus and LlmStream, for any      *)
(* turns, limits and faults: every step of the handler is a step of the    *)
(* response, of the breaker and of the LLM stream, or changes none.        *)
(***************************************************************************)
EXTENDS ChatPipelineProofs

-----------------------------------------------------------------------------
(***************************************************************************)
(* The moves of a turn, as response and breaker see them.                  *)
(***************************************************************************)
\* Where a turn that was let in may still report to the breaker.
ActiveSteps ==
  BlockedSteps \cup ConfidentialSteps \cup NoHitsSteps \cup (AnswerSteps \ {"answerAudit"})

\* What ends a response: a terminal event, alone or after the fixed text.
Endings == {<<"token", "done">>} \cup {<<e>> : e \in TerminalEvents}

\* From which step the handler goes to which, and what it writes on the way.
Edge(from, next, out) ==
  \/ from = "lookup" /\ next = "httpError" /\ out = <<>>
  \/ from = "lookup" /\ next \in Responding /\ out = <<>>
  \/ from \in Responding /\ next \in Responding /\ out \in {<<>>, <<"token">>}
  \/ from \in {"lookup"} \cup Responding /\ next = "ended" /\ out \in Endings
  \/ from \in Responding /\ next = "escaped" /\ out = <<>>

\* What that does to the breaker: only the way in past the check makes a turn
\* active, and only the last step of an active turn reports.
BreakerEdge(from, next) ==
  \/ /\ UNCHANGED breakerVars
     /\ next \in ActiveSteps => from \in ActiveSteps \/ (from = "lookup" /\ ~degraded)
  \/ /\ RecordFailure \/ RecordSuccess
     /\ from \in ActiveSteps /\ next \notin ActiveSteps

Move(t) ==
  \E next, out : Proceed(t, next, out) /\ Edge(pc[t], next, out) /\ BreakerEdge(pc[t], next)

\* A move that reports nothing and that both edges allow.
Quiet(from, next, out) ==
  Edge(from, next, out) /\ (next \in ActiveSteps => from \in ActiveSteps)

\* An exception takes an active turn, or one on the degraded path, out of it.
LEMMA ThrowMoves ==
  ASSUME NEW t \in Turns, pc[t] \in DegradedSteps \cup ActiveSteps, Throw(t),
         UNCHANGED breakerVars
  PROVE  Move(t)
<1>1. CASE pc[t] \in DegradedSteps
  <2>1. Proceed(t, "escaped", <<>>)
    BY <1>1 DEF Throw
  <2>2. "escaped" \notin ActiveSteps
    BY DEF ActiveSteps, BlockedSteps, ConfidentialSteps, NoHitsSteps, AnswerSteps
  <2>3. pc[t] \in Responding
    BY <1>1 DEF Responding, Running, DegradedSteps
  <2>4. Edge(pc[t], "escaped", <<>>) /\ BreakerEdge(pc[t], "escaped")
    BY <2>2, <2>3 DEF Edge, BreakerEdge
  <2>5. QED BY <2>1, <2>4 DEF Move
<1>2. CASE pc[t] \notin DegradedSteps
  <2>1. Proceed(t, "catchAll", <<>>)
    BY <1>2 DEF Throw
  <2>2. "catchAll" \notin ActiveSteps
    BY DEF ActiveSteps, BlockedSteps, ConfidentialSteps, NoHitsSteps, AnswerSteps
  <2>3. pc[t] \in Responding /\ "catchAll" \in Responding
    BY <1>2 DEF ActiveSteps, Responding, Running, TrySteps, BlockedSteps, ConfidentialSteps,
       NoHitsSteps, AnswerSteps
  <2>4. Edge(pc[t], "catchAll", <<>>) /\ BreakerEdge(pc[t], "catchAll")
    BY <2>2, <2>3 DEF Edge, BreakerEdge
  <2>5. QED BY <2>1, <2>4 DEF Move
<1>3. QED BY <1>1, <1>2

\* The kinds of step: if their edge is allowed, they are moves.
LEMMA QuietMoves ==
  ASSUME NEW t \in Turns, NEW next, NEW out, Quiet(pc[t], next, out), Proceed(t, next, out),
         UNCHANGED breakerVars
  PROVE  Move(t)
BY DEF Quiet, Move, BreakerEdge

LEMMA StepMoves ==
  ASSUME NEW t \in Turns, NEW step, NEW next, NEW out, Quiet(step, next, out),
         Step(t, step, next, out)
  PROVE  Move(t)
BY QuietMoves DEF Step

LEMMA LogMoves ==
  ASSUME NEW t \in Turns, NEW step, NEW event, NEW next, NEW out, Quiet(step, next, out),
         Log(t, step, event, next, out)
  PROVE  Move(t)
BY QuietMoves DEF Log

LEMMA AddMessageMoves ==
  ASSUME NEW t \in Turns, NEW step \in DegradedSteps \cup ActiveSteps, NEW row, NEW next,
         NEW out, Quiet(step, next, out), AddMessage(t, step, row, next, out)
  PROVE  Move(t)
<1>1. pc[t] = step /\ UNCHANGED breakerVars /\ (Proceed(t, next, out) \/ Throw(t))
  BY DEF AddMessage, Insert, Write
<1>2. QED BY <1>1, QuietMoves, ThrowMoves

LEMMA IncrementMoves ==
  ASSUME NEW t \in Turns, NEW step \in ActiveSteps, NEW alertStep, NEW next,
         Quiet(step, alertStep, <<>>), Quiet(step, next, <<>>),
         Increment(t, step, alertStep, next)
  PROVE  Move(t)
<1>1. /\ pc[t] = step /\ UNCHANGED breakerVars
      /\ Proceed(t, alertStep, <<>>) \/ Proceed(t, next, <<>>) \/ Throw(t)
  BY DEF Increment, IncrementTo, Write
<1>2. QED BY <1>1, QuietMoves, ThrowMoves

-----------------------------------------------------------------------------
(***************************************************************************)
(* Every branch of run() moves along these edges.                          *)
(***************************************************************************)
\* The facts about names that the branches need.
LEMMA Names ==
  /\ DegradedSteps \cup TrySteps \cup {"catchAll"} = Responding
  /\ DegradedSteps \cap ActiveSteps = {} /\ ActiveSteps \subseteq TrySteps
  /\ "answerAudit" \in TrySteps /\ LlmFailureSteps \subseteq TrySteps
  /\ {"lookup", "catchAll", "ended", "escaped", "httpError", "answerAudit"} \cap ActiveSteps = {}
  /\ LlmFailureSteps \cap ActiveSteps = {}
  /\ FixedText \in Endings /\ \A e \in TerminalEvents : <<e>> \in Endings
<1>1. DegradedSteps \cup TrySteps \cup {"catchAll"} = Responding
  BY DEF Responding, Running, DegradedSteps, TrySteps, BlockedSteps, ConfidentialSteps,
     NoHitsSteps, AnswerSteps, LlmFailureSteps
<1>2. /\ DegradedSteps \cap ActiveSteps = {}
      /\ {"lookup", "catchAll", "ended", "escaped", "httpError", "answerAudit"}
           \cap ActiveSteps = {}
      /\ LlmFailureSteps \cap ActiveSteps = {}
  BY DEF DegradedSteps, ActiveSteps, BlockedSteps, ConfidentialSteps, NoHitsSteps, AnswerSteps,
     LlmFailureSteps
<1>3. ActiveSteps \subseteq TrySteps /\ "answerAudit" \in TrySteps
  BY DEF ActiveSteps, TrySteps, AnswerSteps
<1>4. FixedText \in Endings /\ \A e \in TerminalEvents : <<e>> \in Endings
  BY DEF FixedText, Endings
<1>5. QED BY <1>1, <1>2, <1>3, <1>4 DEF TrySteps

\* Within a branch a turn goes on, or ends with an ending.
LEMMA QuietEdges ==
  /\ \A from, next \in ActiveSteps : Quiet(from, next, <<>>)
  /\ \A from, next \in DegradedSteps : Quiet(from, next, <<>>)
  /\ \A from \in Responding, out \in Endings : Quiet(from, "ended", out)
  /\ \A from \in ActiveSteps : Quiet(from, "catchAll", <<>>)
BY Names DEF Quiet, Edge

LEMMA StartMoves == ASSUME NEW t \in Turns, Start(t) PROVE Move(t)
<1>1. {"blockedAudit", "sensitiveAudit", "confidentialMark", "history"} \subseteq ActiveSteps
  BY DEF ActiveSteps, BlockedSteps, ConfidentialSteps, AnswerSteps
<1>2. CASE LookupFails(t)
  <2>1. Quiet("lookup", "httpError", <<>>)
    BY Names DEF Quiet, Edge
  <2>2. QED BY <1>2, <2>1, StepMoves DEF LookupFails
<1>3. CASE BeginDegraded(t)
  <2>1. Quiet("lookup", "fallbackUser", <<>>)
    BY Names DEF Quiet, Edge, DegradedSteps
  <2>2. QED BY <1>3, <2>1, StepMoves DEF BeginDegraded, Begin
<1>4. CASE RejectTooLong(t)
  <2>1. "error" \in TerminalEvents
    BY DEF TerminalEvents
  <2>2. Quiet("lookup", "ended", <<"error">>)
    BY <2>1, Names DEF Quiet, Edge
  <2>3. QED BY <1>4, <2>2, StepMoves DEF RejectTooLong, Begin
<1>5. CASE Block(t) \/ Refuse(t) \/ Admit(t)
  <2>1. PICK next \in ActiveSteps : ~degraded /\ Step(t, "lookup", next, <<>>)
    BY <1>1, <1>5 DEF Block, Refuse, Admit, Begin
  <2>2. Edge(pc[t], next, <<>>) /\ BreakerEdge(pc[t], next) /\ Proceed(t, next, <<>>)
    BY <2>1, Names DEF Step, Edge, BreakerEdge
  <2>3. QED BY <2>2 DEF Move
<1>6. QED BY <1>2, <1>3, <1>4, <1>5 DEF Start

LEMMA DegradedMoves == ASSUME NEW t \in Turns, Degraded(t) PROVE Move(t)
<1>1. {"fallbackUser", "fallbackAssistant", "fallbackAudit"} \subseteq DegradedSteps
  BY DEF DegradedSteps
<1>2. CASE FallbackUser(t)
  BY <1>1, <1>2, QuietEdges, AddMessageMoves DEF FallbackUser
<1>3. CASE FallbackAssistant(t)
  BY <1>1, <1>3, QuietEdges, AddMessageMoves DEF FallbackAssistant
<1>4. CASE FallbackAudit(t)
  BY <1>1, <1>4, Names, QuietEdges, LogMoves DEF FallbackAudit
<1>5. QED BY <1>2, <1>3, <1>4 DEF Degraded

LEMMA BlockedMoves == ASSUME NEW t \in Turns, Blocked(t) PROVE Move(t)
<1>1. {"blockedAudit", "sensitiveAudit", "blockedIncrement", "blockedAlert", "blockedUser",
       "blockedAssistant"} \subseteq ActiveSteps
  BY DEF ActiveSteps, BlockedSteps
<1>2. CASE BlockedAudit(t)
  BY <1>1, <1>2, QuietEdges, LogMoves DEF BlockedAudit
<1>3. CASE BlockedIncrement(t)
  BY <1>1, <1>3, QuietEdges, IncrementMoves DEF BlockedIncrement
<1>4. CASE BlockedAlert(t)
  BY <1>1, <1>4, QuietEdges, LogMoves DEF BlockedAlert
<1>5. CASE BlockedUser(t)
  BY <1>1, <1>5, QuietEdges, AddMessageMoves DEF BlockedUser
<1>6. CASE BlockedAssistant(t)
  <2>1. Quiet("blockedAssistant", "ended", FixedText)
    BY <1>1, Names, QuietEdges
  <2>2. QED BY <1>1, <1>6, <2>1, AddMessageMoves DEF BlockedAssistant
<1>7. QED BY <1>2, <1>3, <1>4, <1>5, <1>6 DEF Blocked

LEMMA ConfidentialMoves == ASSUME NEW t \in Turns, Confidential(t) PROVE Move(t)
<1>1. {"confidentialMark", "confidentialIncrement", "confidentialAlert", "confidentialUser",
       "confidentialAssistant", "confidentialAudit"} \subseteq ActiveSteps
  BY DEF ActiveSteps, ConfidentialSteps
<1>2. CASE ConfidentialMark(t)
  <2>1. /\ pc[t] = "confidentialMark" /\ UNCHANGED breakerVars
        /\ Proceed(t, "confidentialIncrement", <<>>) \/ Throw(t)
    BY <1>2 DEF ConfidentialMark, Write
  <2>2. QED BY <1>1, <2>1, QuietEdges, QuietMoves, ThrowMoves
<1>3. CASE ConfidentialIncrement(t)
  BY <1>1, <1>3, QuietEdges, IncrementMoves DEF ConfidentialIncrement
<1>4. CASE ConfidentialAlert(t)
  BY <1>1, <1>4, QuietEdges, LogMoves DEF ConfidentialAlert
<1>5. CASE ConfidentialUser(t)
  BY <1>1, <1>5, QuietEdges, AddMessageMoves DEF ConfidentialUser
<1>6. CASE ConfidentialAssistant(t)
  BY <1>1, <1>6, QuietEdges, AddMessageMoves DEF ConfidentialAssistant
<1>7. CASE ConfidentialAudit(t)
  <2>1. Quiet("confidentialAudit", "ended", FixedText)
    BY <1>1, Names, QuietEdges
  <2>2. QED BY <1>7, <2>1, LogMoves DEF ConfidentialAudit
<1>8. QED BY <1>2, <1>3, <1>4, <1>5, <1>6, <1>7 DEF Confidential

LEMMA PrepareMoves == ASSUME NEW t \in Turns, Prepare(t) PROVE Move(t)
<1>1. {"history", "retrieve", "answerUser", "noHitsUser", "noHitsAssistant", "noHitsAudit"}
        \subseteq ActiveSteps
  BY DEF ActiveSteps, AnswerSteps, NoHitsSteps
<1>2. CASE ReadHistory(t)
  <2>1. pc[t] = "history" /\ UNCHANGED breakerVars /\ Proceed(t, "retrieve", <<>>)
    BY <1>2 DEF ReadHistory
  <2>2. QED BY <1>1, <2>1, QuietEdges, QuietMoves
<1>3. CASE Retrieve(t)
  BY <1>1, <1>3, QuietEdges, StepMoves DEF Retrieve
<1>4. CASE ReadFails(t)
  BY <1>1, <1>4, QuietEdges, StepMoves DEF ReadFails
<1>5. CASE NoHitsUser(t)
  BY <1>1, <1>5, QuietEdges, AddMessageMoves DEF NoHitsUser
<1>6. CASE NoHitsAssistant(t)
  BY <1>1, <1>6, QuietEdges, AddMessageMoves DEF NoHitsAssistant
<1>7. CASE NoHitsAudit(t)
  <2>1. Quiet("noHitsAudit", "ended", FixedText)
    BY <1>1, Names, QuietEdges
  <2>2. QED BY <1>7, <2>1, LogMoves DEF NoHitsAudit
<1>8. QED BY <1>2, <1>3, <1>4, <1>5, <1>6, <1>7 DEF Prepare

LEMMA StreamMoves == ASSUME NEW t \in Turns, Stream(t) PROVE Move(t)
<1>1. {"answerUser", "llm", "answerAssistant"} \subseteq ActiveSteps
  BY DEF ActiveSteps, AnswerSteps
<1>2. {"timeoutAudit", "degradedAudit", "errorAudit"} = LlmFailureSteps
  BY DEF LlmFailureSteps
<1>3. {"timeout", "error", "interrupted"} \subseteq TerminalEvents
  BY DEF TerminalEvents
<1>4. CASE AnswerUser(t)
  BY <1>1, <1>4, QuietEdges, AddMessageMoves DEF AnswerUser
<1>5. CASE LlmChunk(t)
  <2>1. pc[t] = "llm" /\ UNCHANGED breakerVars /\ Proceed(t, "llm", <<"token">>)
    BY <1>5 DEF LlmChunk
  <2>2. Quiet("llm", "llm", <<"token">>)
    BY <1>1, Names DEF Quiet, Edge
  <2>3. QED BY <2>1, <2>2, QuietMoves
<1>6. CASE LlmFinish(t)
  BY <1>1, <1>6, QuietEdges, StepMoves DEF LlmFinish
<1>7. CASE LlmInterrupted(t)
  <2>1. Quiet("llm", "ended", <<"interrupted">>)
    BY <1>1, <1>3, Names, QuietEdges
  <2>2. QED BY <1>7, <2>1, StepMoves DEF LlmInterrupted
<1>8. CASE LlmTimeout(t) \/ LlmError(t)
  <2>1. PICK next \in LlmFailureSteps :
          pc[t] = "llm" /\ RecordFailure /\ Proceed(t, next, <<>>)
    BY <1>2, <1>8 DEF LlmTimeout, LlmError
  <2>2. Edge("llm", next, <<>>)
    BY <1>1, Names DEF Edge
  <2>3. BreakerEdge("llm", next)
    BY <1>1, <2>1, Names DEF BreakerEdge
  <2>4. QED BY <2>1, <2>2, <2>3 DEF Move
<1>9. CASE TimeoutAudit(t) \/ DegradedAudit(t) \/ ErrorAudit(t)
  <2>1. \A from \in LlmFailureSteps, e \in {"timeout", "error"} : Quiet(from, "ended", <<e>>)
    BY <1>3, Names, QuietEdges
  <2>2. QED BY <1>2, <1>9, <2>1, LogMoves DEF TimeoutAudit, DegradedAudit, ErrorAudit
<1>10. QED BY <1>4, <1>5, <1>6, <1>7, <1>8, <1>9 DEF Stream

LEMMA StoreMoves == ASSUME NEW t \in Turns, Store(t) PROVE Move(t)
<1>1. "answerAssistant" \in ActiveSteps
  BY DEF ActiveSteps, AnswerSteps
<1>2. CASE AnswerAssistant(t)
  <2>1. pc[t] = "answerAssistant"
    BY <1>2 DEF AnswerAssistant, StoreAnswer
  <2>2. CASE Throw(t) /\ UNCHANGED breakerVars
    BY <1>1, <2>1, <2>2, ThrowMoves
  <2>3. CASE Proceed(t, "answerAudit", <<>>) /\ RecordSuccess
    <3>1. Edge(pc[t], "answerAudit", <<>>) /\ BreakerEdge(pc[t], "answerAudit")
      BY <1>1, <2>1, <2>3, Names DEF Edge, BreakerEdge
    <3>2. QED BY <2>3, <3>1 DEF Move
  <2>4. QED BY <1>2, <2>2, <2>3 DEF AnswerAssistant, StoreAnswer, Insert, Write
<1>3. CASE AnswerAudit(t) \/ CatchAll(t)
  <2>1. "done" \in TerminalEvents /\ "error" \in TerminalEvents
    BY DEF TerminalEvents
  <2>2. Quiet("answerAudit", "ended", <<"done">>) /\ Quiet("catchAll", "ended", <<"error">>)
    BY <2>1, Names, QuietEdges
  <2>3. QED BY <1>3, <2>2, LogMoves DEF AnswerAudit, CatchAll
<1>4. QED BY <1>2, <1>3 DEF Store

\* Whatever the server does for a turn is one of its moves.
LEMMA TurnMoves == ASSUME NEW t \in Turns, TurnStep(t) PROVE Move(t)
BY StartMoves, DegradedMoves, BlockedMoves, ConfidentialMoves, PrepareMoves, StreamMoves,
   StoreMoves DEF TurnStep

-----------------------------------------------------------------------------
(***************************************************************************)
(* The response.                                                           *)
(***************************************************************************)
\* StreamState of one turn, and how it follows the names.
Phase(step) ==
  IF step \in {"idle", "lookup", "httpError"} THEN "unopened"
  ELSE IF step \in Responding THEN "open"
  ELSE IF step = "ended" THEN "closed" ELSE "cut"

LEMMA Phases ==
  /\ \A step \in {"idle", "lookup", "httpError"} : Phase(step) = "unopened"
  /\ \A step \in Responding : Phase(step) = "open"
  /\ Phase("ended") = "closed" /\ Phase("escaped") = "cut" /\ Phase("killed") = "cut"
  /\ StreamState = [t \in Turns |-> Phase(pc[t])]
<1>1. {"idle", "lookup", "httpError", "ended", "escaped", "killed"} \cap Responding = {}
  BY DEF Responding, Running, DegradedSteps, TrySteps, BlockedSteps, ConfidentialSteps,
     NoHitsSteps, AnswerSteps, LlmFailureSteps
<1>2. StreamState = [t \in Turns |-> Phase(pc[t])]
  BY DEF StreamState, Phase
<1>3. QED BY <1>1, <1>2 DEF Phase

\* Along an edge, the response does one step of SseStream or none.
LEMMA MoveRefinesSse ==
  ASSUME ControlOK, NEW t \in Turns, Move(t)
  PROVE  [Sse!Next]_(Sse!vars)
<1>1. PICK next, out : Proceed(t, next, out) /\ Edge(pc[t], next, out)
  BY DEF Move
<1>2. events' = [events EXCEPT ![t] = @ \o out]
  BY <1>1 DEF Proceed
<1>3. StreamState' = [StreamState EXCEPT ![t] = Phase(next)] /\ StreamState[t] = Phase(pc[t])
  BY <1>1, Phases DEF Proceed, ControlOK, StreamState, Phase
<1>4. events[t] \in Seq(SseEvents) /\ events \in [Turns -> Seq(SseEvents)]
  BY DEF ControlOK
<1>5. CASE Phase(next) = Phase(pc[t]) /\ out = <<>>
  <2>1. events' = events
    BY <1>2, <1>4, <1>5
  <2>2. StreamState' = StreamState
    BY <1>3, <1>5 DEF StreamState
  <2>3. QED BY <2>1, <2>2 DEF Sse!vars
<1>6. CASE Phase(pc[t]) = "open" /\ Phase(next) = "open" /\ out = <<"token">>
  <2>1. events' = [events EXCEPT ![t] = Append(@, "token")]
    <3>1. "token" \in SseEvents
      BY DEF SseEvents
    <3>2. events[t] \o <<"token">> = Append(events[t], "token")
      BY <1>4, <3>1
    <3>3. QED BY <1>2, <1>6, <3>2
  <2>2. StreamState' = StreamState
    BY <1>3, <1>6 DEF StreamState
  <2>3. Sse!Token(t)
    BY <1>3, <1>6, <2>1, <2>2 DEF Sse!Token
  <2>4. QED BY <2>3 DEF Sse!Next
<1>7. CASE Phase(pc[t]) = "unopened" /\ Phase(next) = "open" /\ out = <<>>
  <2>1. events' = events
    BY <1>2, <1>4, <1>7
  <2>2. Sse!Open(t)
    BY <1>3, <1>7, <2>1 DEF Sse!Open
  <2>3. QED BY <2>2 DEF Sse!Next
<1>8. CASE Phase(pc[t]) \in {"unopened", "open"} /\ Phase(next) = "closed" /\ out \in Endings
  <2>1. PICK last \in {<<>>, <<"token">>}, e \in TerminalEvents : out = Append(last, e)
    <3>1. <<"token", "done">> = Append(<<"token">>, "done") /\ "done" \in TerminalEvents
      BY DEF TerminalEvents
    <3>2. \A e : <<e>> = Append(<<>>, e)
      OBVIOUS
    <3>3. QED BY <1>8, <3>1, <3>2 DEF Endings
  <2>2. events' = [events EXCEPT ![t] = @ \o Append(last, e)]
    BY <1>2, <2>1
  <2>3. Sse!Close(t)
    BY <1>3, <1>8, <2>1, <2>2 DEF Sse!Close, Sse!TerminalEvents, TerminalEvents
  <2>4. QED BY <2>3 DEF Sse!Next
<1>9. CASE Phase(pc[t]) = "open" /\ Phase(next) = "cut" /\ out = <<>>
  <2>1. events' = events
    BY <1>2, <1>4, <1>9
  <2>2. Sse!Cut(t)
    BY <1>3, <1>9, <2>1 DEF Sse!Cut
  <2>3. QED BY <2>2 DEF Sse!Next
<1>10. QED BY <1>1, <1>5, <1>6, <1>7, <1>8, <1>9, Phases DEF Edge

\* A restart cuts every open response; nothing else touches one.
LEMMA NextRefinesSse == TypeOK /\ [Next]_vars => [Sse!Next]_(Sse!vars)
<1> SUFFICES ASSUME TypeOK, [Next]_vars PROVE [Sse!Next]_(Sse!vars)
  OBVIOUS
<1>1. ControlOK
  BY DEF TypeOK
<1>2. CASE \E t \in Turns : TurnStep(t)
  BY <1>1, <1>2, TurnMoves, MoveRefinesSse
<1>3. CASE UNCHANGED <<pc, events>>
  BY <1>3 DEF StreamState, Sse!vars
<1>4. CASE \E t \in Turns : SendMessage(t)
  <2>1. PICK t \in Turns : SendMessage(t)
    BY <1>4
  <2>2. events' = events /\ \A u \in Turns : Phase(pc'[u]) = Phase(pc[u])
    BY <1>1, <2>1, Phases DEF SendMessage, ControlOK
  <2>3. StreamState' = StreamState
    BY <2>2 DEF StreamState, Phase
  <2>4. QED BY <2>2, <2>3 DEF Sse!vars
<1>5. CASE Restart
  <2>1. /\ events' = events
        /\ \A t \in Turns : Phase(pc'[t]) = IF Phase(pc[t]) = "open" THEN "cut" ELSE Phase(pc[t])
    BY <1>1, <1>5, Phases DEF Restart, ControlOK, Steps, Stopped, Running, Responding
  <2>2. StreamState' = [t \in Turns |-> IF StreamState[t] = "open" THEN "cut"
                                        ELSE StreamState[t]]
    BY <2>1 DEF StreamState, Phase
  <2>3. Sse!CutAll
    BY <2>1, <2>2 DEF Sse!CutAll
  <2>4. QED BY <2>3 DEF Sse!Next
<1>6. QED BY <1>2, <1>3, <1>4, <1>5 DEF Next, vars, CreateSession, ClientClose

\* run() and its controller keep the contract of the message endpoint, for any
\* number of turns and whichever query or call fails: a response is opened
\* once, carries tokens, and is closed by one terminal event with nothing
\* after it, or cut.
THEOREM ImplementsSseStream == Spec => SseSpec
<1>1. Init => Sse!Init
  BY DEF Init, Sse!Init, StreamState
<1>2. QED
  BY <1>1, NextRefinesSse, TypeCorrect, PTL DEF Spec, SseSpec, Sse!Spec

-----------------------------------------------------------------------------
(***************************************************************************)
(* The breaker.                                                            *)
(***************************************************************************)
\* Along an edge, the breaker and the turns in flight do one step or none.
LEMMA MoveRefinesBreaker ==
  ASSUME ControlOK, NEW t \in Turns, Move(t)
  PROVE  [Breaker!Next]_(Breaker!vars)
<1>1. PICK next, out :
        Proceed(t, next, out) /\ Edge(pc[t], next, out) /\ BreakerEdge(pc[t], next)
  BY DEF Move
<1>2. /\ next \in ActiveSteps => InFlight' = InFlight \cup {t}
      /\ next \notin ActiveSteps => InFlight' = InFlight \ {t}
      /\ t \in InFlight <=> pc[t] \in ActiveSteps
  BY <1>1 DEF InFlight, ActiveSteps, Proceed, ControlOK
<1>3. CASE UNCHANGED breakerVars
  <2>1. UNCHANGED <<degraded, consecutiveFailures>>
    BY <1>3 DEF breakerVars
  <2>2. CASE next \in ActiveSteps /\ pc[t] \notin ActiveSteps
    <3>1. ~degraded
      BY <1>1, <2>2 DEF BreakerEdge
    <3>2. Breaker!Enter(t)
      BY <1>2, <2>1, <2>2, <3>1 DEF Breaker!Enter
    <3>3. QED BY <3>2 DEF Breaker!Next, Breaker!TurnStep
  <2>3. CASE next \notin ActiveSteps /\ pc[t] \in ActiveSteps
    <3>1. Breaker!Leave(t)
      BY <1>2, <2>1, <2>3 DEF Breaker!Leave
    <3>2. QED BY <3>1 DEF Breaker!Next, Breaker!TurnStep
  <2>4. CASE next \in ActiveSteps <=> pc[t] \in ActiveSteps
    <3>1. InFlight' = InFlight
      BY <1>2, <2>4
    <3>2. QED BY <2>1, <3>1 DEF Breaker!vars
  <2>5. QED BY <2>2, <2>3, <2>4
<1>4. CASE RecordFailure /\ pc[t] \in ActiveSteps /\ next \notin ActiveSteps
  <2>1. Breaker!RecordFailure(t)
    BY <1>2, <1>4 DEF RecordFailure, Breaker!RecordFailure
  <2>2. QED BY <2>1 DEF Breaker!Next, Breaker!TurnStep
<1>5. CASE RecordSuccess /\ pc[t] \in ActiveSteps /\ next \notin ActiveSteps
  <2>1. Breaker!RecordSuccess(t)
    BY <1>2, <1>5 DEF RecordSuccess, Breaker!RecordSuccess
  <2>2. QED BY <2>1 DEF Breaker!Next, Breaker!TurnStep
<1>6. QED BY <1>1, <1>3, <1>4, <1>5 DEF BreakerEdge

\* A restart loses the breaker and every turn; nothing else touches either.
LEMMA NextRefinesBreaker == TypeOK /\ [Next]_vars => [Breaker!Next]_(Breaker!vars)
<1> SUFFICES ASSUME TypeOK, [Next]_vars PROVE [Breaker!Next]_(Breaker!vars)
  OBVIOUS
<1>1. ControlOK
  BY DEF TypeOK
<1>2. {"idle", "lookup", "httpError", "killed"} \cap ActiveSteps = {}
      /\ ActiveSteps \subseteq Running
  BY DEF ActiveSteps, Running, TrySteps, BlockedSteps, ConfidentialSteps, NoHitsSteps,
     AnswerSteps
<1>3. CASE \E t \in Turns : TurnStep(t)
  BY <1>1, <1>3, TurnMoves, MoveRefinesBreaker
<1>4. CASE UNCHANGED <<pc, breakerVars>>
  BY <1>4 DEF InFlight, breakerVars, Breaker!vars
<1>5. CASE \E t \in Turns : SendMessage(t)
  <2>1. PICK t \in Turns : SendMessage(t)
    BY <1>5
  <2>2. \A u \in Turns : pc'[u] \in ActiveSteps <=> pc[u] \in ActiveSteps
    BY <1>1, <1>2, <2>1 DEF SendMessage, ControlOK
  <2>3. InFlight' = InFlight
    BY <2>2 DEF InFlight, ActiveSteps
  <2>4. QED BY <2>1, <2>3 DEF SendMessage, breakerVars, Breaker!vars
<1>6. CASE Restart
  <2>1. \A t \in Turns : pc'[t] \notin ActiveSteps
    BY <1>2, <1>6 DEF Restart
  <2>2. InFlight' = {}
    BY <2>1 DEF InFlight, ActiveSteps
  <2>3. Breaker!Restart
    BY <1>6, <2>2 DEF Restart, Breaker!Restart
  <2>4. QED BY <2>3 DEF Breaker!Next
<1>7. QED BY <1>3, <1>4, <1>5, <1>6 DEF Next, vars, CreateSession, ClientClose

\* The pipeline keeps the protocol of the breaker, for any number of turns,
\* any threshold and any faults: a turn reports at most once, and only after
\* isDegraded() let it in.  So what AiStatusProofs shows of the breaker (the
\* bound on the overshoot, the latch) holds in ChatPipeline.
THEOREM ImplementsAiStatus == Spec => AiStatusSpec
<1>1. Init => Breaker!Init
  BY DEF Init, Breaker!Init, InFlight, BlockedSteps, ConfidentialSteps, NoHitsSteps, AnswerSteps
<1>2. QED
  BY <1>1, NextRefinesBreaker, TypeCorrect, PTL DEF Spec, AiStatusSpec, Breaker!Spec

-----------------------------------------------------------------------------
(***************************************************************************)
(* The LLM stream.                                                         *)
(***************************************************************************)
\* The turn goes from one step to another, and takes no token.
Walks(t, from, next) ==
  /\ pc[t] = from
  /\ pc' = [pc EXCEPT ![t] = next]
  /\ UNCHANGED <<content, aborted, closed>>

\* The kinds of step; an exception goes to the catch, or leaves run().
LEMMA StepWalks ==
  ASSUME NEW t \in Turns, NEW step, NEW next, NEW out, Step(t, step, next, out)
  PROVE  Walks(t, step, next)
BY DEF Step, Proceed, Walks, clientVars, turnVars

LEMMA LogWalks ==
  ASSUME NEW t \in Turns, NEW step, NEW event, NEW next, NEW out, Log(t, step, event, next, out)
  PROVE  Walks(t, step, next)
BY DEF Log, Proceed, Walks, clientVars, turnVars

LEMMA AddMessageWalks ==
  ASSUME NEW t \in Turns, NEW step, NEW row, NEW next, NEW out,
         AddMessage(t, step, row, next, out)
  PROVE  Walks(t, step, next) \/ Walks(t, step, "catchAll") \/ Walks(t, step, "escaped")
BY DEF AddMessage, Insert, Write, Throw, Proceed, Walks, clientVars, turnVars

LEMMA IncrementWalks ==
  ASSUME NEW t \in Turns, NEW step, NEW alertStep, NEW next, Increment(t, step, alertStep, next)
  PROVE  \/ Walks(t, step, alertStep) \/ Walks(t, step, next)
         \/ Walks(t, step, "catchAll") \/ Walks(t, step, "escaped")
BY DEF Increment, IncrementTo, Write, Throw, Proceed, Walks, clientVars

\* The steps around the stream.
BeforeSteps ==
  {"lookup", "history", "retrieve", "answerUser"}
    \cup DegradedSteps \cup BlockedSteps \cup ConfidentialSteps \cup NoHitsSteps
OverSteps == Stopped \cup LlmFailureSteps \cup {"answerAudit", "catchAll"}

LEMMA StreamNames ==
  /\ Steps = {"idle", "llm", "answerAssistant"} \cup BeforeSteps \cup OverSteps
  /\ {"llm", "answerAssistant"} \cap (BeforeSteps \cup OverSteps) = {}
  /\ "idle" \notin BeforeSteps /\ BeforeSteps \cap OverSteps = {} /\ "idle" \notin OverSteps
  /\ BeforeSteps \subseteq Running /\ {"ended", "killed", "httpError"} \subseteq OverSteps
  /\ {"llm", "answerAssistant"} \subseteq Running /\ "idle" \notin Running
  /\ OverSteps \subseteq Running \cup Stopped
  /\ Running \cap Stopped = {}
BY DEF Steps, Running, Stopped, BeforeSteps, OverSteps, DegradedSteps, TrySteps, BlockedSteps,
   ConfidentialSteps, NoHitsSteps, AnswerSteps, LlmFailureSteps

\* Before the stream a turn may go anywhere but to the end of a stream.
ToStream(t) ==
  \E from \in BeforeSteps, next \in BeforeSteps \cup OverSteps \cup {"llm"} : Walks(t, from, next)

\* After it a turn goes on to what is over.
FromStream(t) ==
  \E from \in OverSteps \cup {"answerAssistant"}, next \in OverSteps : Walks(t, from, next)

LEMMA StartWalks == ASSUME NEW t \in Turns, Start(t) PROVE ToStream(t)
<1>1. {"lookup", "fallbackUser", "blockedAudit", "sensitiveAudit", "confidentialMark", "history"}
        \subseteq BeforeSteps /\ {"httpError", "ended"} \subseteq OverSteps
  BY DEF BeforeSteps, OverSteps, DegradedSteps, BlockedSteps, ConfidentialSteps, Stopped
<1>2. QED
  BY <1>1, StepWalks DEF ToStream, Start, LookupFails, BeginDegraded, RejectTooLong, Block,
     Refuse, Admit, Begin

LEMMA DegradedWalks == ASSUME NEW t \in Turns, Degraded(t) PROVE ToStream(t)
<1>1. DegradedSteps \subseteq BeforeSteps /\ {"catchAll", "escaped", "ended"} \subseteq OverSteps
      /\ {"fallbackUser", "fallbackAssistant", "fallbackAudit"} = DegradedSteps
  BY DEF BeforeSteps, OverSteps, DegradedSteps, Stopped
<1>2. QED
  BY <1>1, AddMessageWalks, LogWalks DEF ToStream, Degraded, FallbackUser, FallbackAssistant,
     FallbackAudit

LEMMA BlockedWalks == ASSUME NEW t \in Turns, Blocked(t) PROVE ToStream(t)
<1>1. /\ {"blockedAudit", "sensitiveAudit", "blockedIncrement", "blockedAlert", "blockedUser",
          "blockedAssistant"} \subseteq BeforeSteps
      /\ {"catchAll", "escaped", "ended"} \subseteq OverSteps
  BY DEF BeforeSteps, OverSteps, BlockedSteps, Stopped
<1>2. CASE BlockedAudit(t) \/ BlockedAlert(t)
  BY <1>1, <1>2, LogWalks DEF ToStream, BlockedAudit, BlockedAlert
<1>3. CASE BlockedIncrement(t)
  BY <1>1, <1>3, IncrementWalks DEF ToStream, BlockedIncrement
<1>4. CASE BlockedUser(t) \/ BlockedAssistant(t)
  BY <1>1, <1>4, AddMessageWalks DEF ToStream, BlockedUser, BlockedAssistant
<1>5. QED BY <1>2, <1>3, <1>4 DEF Blocked

LEMMA ConfidentialWalks == ASSUME NEW t \in Turns, Confidential(t) PROVE ToStream(t)
<1>1. /\ {"confidentialMark", "confidentialIncrement", "confidentialAlert", "confidentialUser",
          "confidentialAssistant", "confidentialAudit"} \subseteq BeforeSteps
      /\ {"catchAll", "escaped", "ended"} \subseteq OverSteps
  BY DEF BeforeSteps, OverSteps, ConfidentialSteps, Stopped
<1>2. CASE ConfidentialAlert(t) \/ ConfidentialAudit(t)
  BY <1>1, <1>2, LogWalks DEF ToStream, ConfidentialAlert, ConfidentialAudit
<1>3. CASE ConfidentialIncrement(t)
  BY <1>1, <1>3, IncrementWalks DEF ToStream, ConfidentialIncrement
<1>4. CASE ConfidentialUser(t) \/ ConfidentialAssistant(t)
  BY <1>1, <1>4, AddMessageWalks DEF ToStream, ConfidentialUser, ConfidentialAssistant
<1>5. CASE ConfidentialMark(t)
  <2>1. \/ Walks(t, "confidentialMark", "confidentialIncrement")
        \/ Walks(t, "confidentialMark", "catchAll") \/ Walks(t, "confidentialMark", "escaped")
    BY <1>5 DEF ConfidentialMark, Write, Throw, Proceed, Walks, clientVars, turnVars
  <2>2. QED BY <1>1, <2>1 DEF ToStream
<1>6. QED BY <1>2, <1>3, <1>4, <1>5 DEF Confidential

LEMMA PrepareWalks == ASSUME NEW t \in Turns, Prepare(t) PROVE ToStream(t)
<1>1. /\ {"history", "retrieve", "answerUser", "noHitsUser", "noHitsAssistant", "noHitsAudit"}
           \subseteq BeforeSteps
      /\ {"catchAll", "escaped", "ended"} \subseteq OverSteps
  BY DEF BeforeSteps, OverSteps, NoHitsSteps, Stopped
<1>2. CASE ReadHistory(t)
  <2>1. Walks(t, "history", "retrieve")
    BY <1>2 DEF ReadHistory, Proceed, Walks, clientVars
  <2>2. QED BY <1>1, <2>1 DEF ToStream
<1>3. CASE Retrieve(t) \/ ReadFails(t)
  BY <1>1, <1>3, StepWalks DEF ToStream, Retrieve, ReadFails
<1>4. CASE NoHitsUser(t) \/ NoHitsAssistant(t)
  BY <1>1, <1>4, AddMessageWalks DEF ToStream, NoHitsUser, NoHitsAssistant
<1>5. CASE NoHitsAudit(t)
  BY <1>1, <1>5, LogWalks DEF ToStream, NoHitsAudit
<1>6. QED BY <1>2, <1>3, <1>4, <1>5 DEF Prepare

\* What happens to the stream itself, apart from its tokens.
StreamEnds(t) ==
  \/ ~aborted[t] /\ Walks(t, "llm", "answerAssistant")
  \/ (aborted[t] \/ LlmFaults # {}) /\ Walks(t, "llm", "ended")
  \/ LlmFaults # {} /\ \E next \in LlmFailureSteps : Walks(t, "llm", next)

LEMMA StreamWalks ==
  ASSUME NEW t \in Turns, Stream(t)
  PROVE  ToStream(t) \/ LlmChunk(t) \/ StreamEnds(t) \/ FromStream(t)
<1>1. {"timeoutAudit", "degradedAudit", "errorAudit"} = LlmFailureSteps
      /\ {"timeoutAudit", "degradedAudit", "errorAudit", "catchAll", "escaped", "ended"}
           \subseteq OverSteps
      /\ "answerUser" \in BeforeSteps
  BY DEF LlmFailureSteps, OverSteps, BeforeSteps, Stopped
<1>2. CASE AnswerUser(t)
  BY <1>1, <1>2, AddMessageWalks DEF ToStream, AnswerUser
<1>3. CASE LlmFinish(t) \/ LlmInterrupted(t)
  BY <1>3, StepWalks DEF StreamEnds, LlmFinish, LlmInterrupted
<1>4. CASE LlmTimeout(t) \/ LlmError(t)
  BY <1>1, <1>4 DEF StreamEnds, LlmTimeout, LlmError, Proceed, Walks, clientVars, turnVars
<1>5. CASE TimeoutAudit(t) \/ DegradedAudit(t) \/ ErrorAudit(t)
  BY <1>1, <1>5, LogWalks DEF FromStream, TimeoutAudit, DegradedAudit, ErrorAudit
<1>6. QED BY <1>2, <1>3, <1>4, <1>5 DEF Stream

LEMMA StoreWalks == ASSUME NEW t \in Turns, Store(t) PROVE FromStream(t)
<1>1. {"answerAudit", "catchAll", "escaped", "ended"} \subseteq OverSteps
  BY DEF OverSteps, Stopped
<1>2. CASE AnswerAssistant(t)
  <2>1. \/ Walks(t, "answerAssistant", "answerAudit") \/ Walks(t, "answerAssistant", "catchAll")
        \/ Walks(t, "answerAssistant", "escaped")
    BY <1>2 DEF AnswerAssistant, StoreAnswer, Insert, Write, Throw, Proceed, Walks, clientVars,
       turnVars
  <2>2. QED BY <1>1, <2>1 DEF FromStream
<1>3. CASE AnswerAudit(t) \/ CatchAll(t)
  BY <1>1, <1>3, LogWalks DEF FromStream, AnswerAudit, CatchAll
<1>4. QED BY <1>2, <1>3 DEF Store

LEMMA TurnWalks ==
  ASSUME NEW t \in Turns, TurnStep(t)
  PROVE  ToStream(t) \/ LlmChunk(t) \/ StreamEnds(t) \/ FromStream(t)
BY StartWalks, DegradedWalks, BlockedWalks, ConfidentialWalks, PrepareWalks, StreamWalks, StoreWalks
   DEF TurnStep

\* StreamPhase of one turn.
PhaseAt(step) ==
  IF step = "llm" THEN "streaming"
  ELSE IF step = "answerAssistant" THEN "answer"
  ELSE IF step \in OverSteps THEN "over" ELSE "before"

LEMMA StreamPhases ==
  /\ StreamPhase = [t \in Turns |-> PhaseAt(pc[t])]
  /\ PhaseAt("llm") = "streaming" /\ PhaseAt("answerAssistant") = "answer"
  /\ \A step \in OverSteps : PhaseAt(step) = "over"
  /\ \A step \in BeforeSteps \cup {"idle"} : PhaseAt(step) = "before"
<1>1. StreamPhase = [t \in Turns |-> PhaseAt(pc[t])]
  BY DEF StreamPhase, PhaseAt, OverSteps
<1>2. QED BY <1>1, StreamNames DEF PhaseAt

LEMMA WalkFollows ==
  ASSUME ControlOK, NEW t \in Turns, NEW from, NEW next, Walks(t, from, next)
  PROVE  /\ StreamPhase[t] = PhaseAt(from)
         /\ StreamPhase' = [StreamPhase EXCEPT ![t] = PhaseAt(next)]
         /\ UNCHANGED <<content, aborted>>
BY DEF ControlOK, Walks, StreamPhase, PhaseAt, OverSteps

\* What the server does for a turn is a step of its stream, or none.
LEMMA TurnRefinesLlm ==
  ASSUME ControlOK, TurnOK, NEW t \in Turns, TurnStep(t)
  PROVE  [Llm!Next]_(Llm!vars)
<1>1. CASE ToStream(t)
  <2>1. PICK from \in BeforeSteps, next \in BeforeSteps \cup OverSteps \cup {"llm"} :
          Walks(t, from, next)
    BY <1>1 DEF ToStream
  <2>2. /\ StreamPhase[t] = "before" /\ UNCHANGED <<content, aborted>>
        /\ StreamPhase' = [StreamPhase EXCEPT ![t] = PhaseAt(next)]
    BY <2>1, WalkFollows, StreamPhases
  <2>3. CASE next \in BeforeSteps
    <3>1. StreamPhase' = StreamPhase
      BY <2>2, <2>3, StreamPhases DEF StreamPhase
    <3>2. QED BY <2>2, <3>1 DEF Llm!vars
  <2>4. CASE next \in OverSteps
    <3>1. Llm!Leave(t)
      BY <2>2, <2>4, StreamPhases DEF Llm!Leave
    <3>2. QED BY <3>1 DEF Llm!Next
  <2>5. CASE next = "llm"
    <3>1. Llm!Ask(t)
      BY <2>2, <2>5, StreamPhases DEF Llm!Ask
    <3>2. QED BY <3>1 DEF Llm!Next
  <2>6. QED BY <2>3, <2>4, <2>5
<1>2. CASE LlmChunk(t)
  <2>1. /\ pc[t] = "llm" /\ ~aborted[t] /\ aborted' = aborted
        /\ content' = [content EXCEPT ![t] = @ + 1]
        /\ pc' = [pc EXCEPT ![t] = "llm"]
    BY <1>2 DEF LlmChunk, Proceed, clientVars
  <2>2. pc' = pc
    BY <2>1 DEF ControlOK
  <2>3. StreamPhase[t] = "streaming" /\ StreamPhase' = StreamPhase
    BY <2>1, <2>2 DEF StreamPhase
  <2>4. Llm!Take(t)
    BY <2>1, <2>3 DEF Llm!Take
  <2>5. QED BY <2>4 DEF Llm!Next
<1>3. CASE ~aborted[t] /\ Walks(t, "llm", "answerAssistant")
  <2>1. /\ StreamPhase[t] = "streaming" /\ UNCHANGED <<content, aborted>>
        /\ StreamPhase' = [StreamPhase EXCEPT ![t] = "answer"]
    BY <1>3, WalkFollows, StreamPhases
  <2>2. content' = [content EXCEPT ![t] = @ + 0]
    BY <2>1 DEF TurnOK
  <2>3. Llm!Finish(t)
    BY <1>3, <2>1, <2>2 DEF Llm!Finish
  <2>4. QED BY <2>3 DEF Llm!Next
<1>4. ASSUME NEW next \in OverSteps, Walks(t, "llm", next), aborted[t] \/ LlmFaults # {}
      PROVE  [Llm!Next]_(Llm!vars)
  <2>1. /\ StreamPhase[t] = "streaming" /\ UNCHANGED <<content, aborted>>
        /\ StreamPhase' = [StreamPhase EXCEPT ![t] = "over"]
    BY <1>4, WalkFollows, StreamPhases
  <2>2. Llm!GiveUp(t)
    BY <1>4, <2>1 DEF Llm!GiveUp
  <2>3. QED BY <2>2 DEF Llm!Next
<1>5. CASE FromStream(t)
  <2>1. PICK from \in OverSteps \cup {"answerAssistant"}, next \in OverSteps : Walks(t, from, next)
    BY <1>5 DEF FromStream
  <2>2. /\ StreamPhase[t] \in {"answer", "over"} /\ UNCHANGED <<content, aborted>>
        /\ StreamPhase' = [StreamPhase EXCEPT ![t] = "over"]
    BY <2>1, WalkFollows, StreamPhases
  <2>3. CASE StreamPhase[t] = "answer"
    <3>1. Llm!Leave(t)
      BY <2>2, <2>3 DEF Llm!Leave
    <3>2. QED BY <3>1 DEF Llm!Next
  <2>4. CASE StreamPhase[t] = "over"
    <3>1. StreamPhase' = StreamPhase
      BY <2>2, <2>4 DEF StreamPhase
    <3>2. QED BY <2>2, <3>1 DEF Llm!vars
  <2>5. QED BY <2>2, <2>3, <2>4
<1>6. LlmFailureSteps \cup {"ended"} \subseteq OverSteps
  BY DEF OverSteps, Stopped
<1>7. QED BY <1>1, <1>2, <1>3, <1>4, <1>5, <1>6, TurnWalks DEF StreamEnds

\* Only the close of a connection fires a signal, and a connection closes once:
\* the close that comes before the SSE headers does not undo an abort.
AbortedIsClosed == \A t \in Turns : aborted[t] => closed[t]

LEMMA TurnKeepsClient == ASSUME NEW t \in Turns, TurnStep(t) PROVE UNCHANGED <<aborted, closed>>
<1>1. CASE LlmChunk(t)
  BY <1>1 DEF LlmChunk, clientVars
<1>2. QED BY <1>1, TurnWalks DEF ToStream, FromStream, StreamEnds, Walks

LEMMA AbortedIsClosedStep == TypeOK /\ AbortedIsClosed /\ [Next]_vars => AbortedIsClosed'
<1> SUFFICES ASSUME TypeOK, AbortedIsClosed, [Next]_vars PROVE AbortedIsClosed'
  OBVIOUS
<1>1. CASE \E t \in Turns : ClientClose(t)
  BY <1>1 DEF ClientClose, AbortedIsClosed, TypeOK, ClientOK
<1>2. CASE UNCHANGED <<aborted, closed>>
  BY <1>2 DEF AbortedIsClosed
<1>3. CASE \E t \in Turns : TurnStep(t)
  BY <1>2, <1>3, TurnKeepsClient
<1>4. QED
  BY <1>1, <1>2, <1>3 DEF Next, vars, clientVars, CreateSession, SendMessage, Restart

\* A disconnect fires the signal; a restart ends every stream; nothing else
\* touches one.
LEMMA NextRefinesLlm == TypeOK /\ AbortedIsClosed /\ [Next]_vars => [Llm!Next]_(Llm!vars)
<1> SUFFICES ASSUME TypeOK, AbortedIsClosed, [Next]_vars PROVE [Llm!Next]_(Llm!vars)
  OBVIOUS
<1>1. ControlOK /\ TurnOK /\ ClientOK
  BY DEF TypeOK
<1>2. CASE \E t \in Turns : TurnStep(t)
  BY <1>1, <1>2, TurnRefinesLlm
<1>3. CASE UNCHANGED <<pc, content, aborted>>
  BY <1>3 DEF StreamPhase, Llm!vars
<1>4. CASE \E t \in Turns : SendMessage(t)
  <2>1. PICK t \in Turns : SendMessage(t)
    BY <1>4
  <2>2. Walks(t, "idle", "lookup") /\ "lookup" \in BeforeSteps
    BY <2>1 DEF SendMessage, Walks, clientVars, BeforeSteps
  <2>3. /\ StreamPhase[t] = "before" /\ UNCHANGED <<content, aborted>>
        /\ StreamPhase' = [StreamPhase EXCEPT ![t] = "before"]
    BY <1>1, <2>2, WalkFollows, StreamPhases
  <2>4. StreamPhase' = StreamPhase
    BY <2>3 DEF StreamPhase
  <2>5. QED BY <2>3, <2>4 DEF Llm!vars
<1>5. CASE \E t \in Turns : ClientClose(t)
  <2>1. PICK t \in Turns : ClientClose(t)
    BY <1>5
  <2>2. /\ UNCHANGED <<pc, content>>
        /\ aborted' = aborted \/ aborted' = [aborted EXCEPT ![t] = TRUE]
    <3>1. ~aborted[t] /\ UNCHANGED <<pc, content>>
      BY <2>1 DEF ClientClose, AbortedIsClosed, turnVars
    <3>2. aborted' = [aborted EXCEPT ![t] = pc[t] # "lookup"]
      BY <2>1 DEF ClientClose
    <3>3. CASE pc[t] = "lookup"
      BY <1>1, <3>1, <3>2, <3>3 DEF ClientOK
    <3>4. CASE pc[t] # "lookup"
      <4>1. (pc[t] # "lookup") = TRUE BY <3>4
      <4>2. QED BY <3>1, <3>2, <4>1
    <3>5. QED BY <3>3, <3>4
  <2>3. StreamPhase' = StreamPhase
    BY <2>2 DEF StreamPhase
  <2>4. UNCHANGED Llm!vars \/ Llm!Abort(t)
    BY <2>2, <2>3 DEF Llm!vars, Llm!Abort
  <2>5. QED BY <2>4 DEF Llm!Next
<1>6. CASE Restart
  <2>1. UNCHANGED <<content, aborted>>
    BY <1>6 DEF Restart, turnVars, clientVars
  <2> DEFINE survivors == {t \in Turns : pc[t] = "idle" \/ pc[t] \in Stopped}
  <2>2. \A t \in Turns : StreamPhase'[t] = IF t \in survivors THEN StreamPhase[t] ELSE "over"
    <3>1. ASSUME NEW t \in Turns
          PROVE  PhaseAt(pc'[t]) = IF t \in survivors THEN PhaseAt(pc[t]) ELSE "over"
      <4>1. pc'[t] = IF pc[t] = "lookup" THEN "httpError"
                     ELSE IF pc[t] \in Running THEN "killed" ELSE pc[t]
        BY <1>6 DEF Restart
      <4>2. CASE t \in survivors
        <5>1. pc[t] = "idle" \/ pc[t] \in Stopped BY <4>2
        <5>2. pc[t] \notin Running /\ pc[t] # "lookup"
          BY <5>1, StreamNames DEF Running
        <5>3. QED BY <4>1, <4>2, <5>2
      <4>3. CASE t \notin survivors
        <5>1. pc[t] \in Running
          BY <1>1, <4>3 DEF ControlOK, Steps
        <5>2. pc'[t] \in OverSteps
          BY <4>1, <5>1, StreamNames
        <5>3. QED BY <4>3, <5>2, StreamPhases
      <4>4. QED BY <4>2, <4>3
    <3>2. QED BY <3>1 DEF StreamPhase, PhaseAt, OverSteps
  <2>3. \A t \in survivors : StreamPhase[t] \in {"before", "over"}
    BY StreamPhases DEF OverSteps
  <2>4. StreamPhase' = [t \in Turns |-> IF t \in survivors THEN StreamPhase[t] ELSE "over"]
    <3>1. StreamPhase' = [t \in Turns |-> StreamPhase'[t]]
      BY DEF StreamPhase
    <3>2. QED BY <2>2, <3>1
  <2> HIDE DEF survivors
  <2>5. survivors \in SUBSET {t \in Turns : StreamPhase[t] \in {"before", "over"}}
    BY <2>3 DEF survivors
  <2>6. Llm!Stop
    BY <2>1, <2>4, <2>5 DEF Llm!Stop
  <2>7. QED BY <2>6 DEF Llm!Next
<1>7. QED BY <1>2, <1>3, <1>4, <1>5, <1>6 DEF Next, vars, turnVars, clientVars, CreateSession

\* run() keeps its side of the contract with the LLM provider, for any number of
\* turns and whichever query or call fails: a turn asks at most once, takes
\* tokens until its client goes, and stores as an answer what a stream gave
\* that finished before that.
THEOREM ImplementsLlmStream == Spec => LlmSpec
<1>1. Init => Llm!Init
  BY DEF Init, Llm!Init, StreamPhase, Stopped, LlmFailureSteps
<1>2. Init => AbortedIsClosed
  BY DEF Init, AbortedIsClosed
<1>3. QED
  BY <1>1, <1>2, AbortedIsClosedStep, NextRefinesLlm, TypeCorrect, PTL DEF Spec, LlmSpec, Llm!Spec
=============================================================================
