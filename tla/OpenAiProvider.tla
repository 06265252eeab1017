--------------------------- MODULE OpenAiProvider ---------------------------
(***************************************************************************)
(* OpenAiProvider.stream() (src/src/llm/providers/openai.provider.ts): the *)
(* primary model, then the fallback model, then a fixed handoff message;   *)
(* each model under a timer of its own and the caller's abort signal.      *)
(* It is composed with its consumer, the for-await loop of                 *)
(* ChatPipelineService.run, and with the AI circuit breaker of AiStatus,   *)
(* which that loop feeds.                                                  *)
(*                                                                         *)
(* A token yielded by the generator is taken by the loop, and the next one *)
(* asked for, without an await that a timer or a disconnect could use: so  *)
(* an action is one event of the OpenAI client and all that follows it up  *)
(* to the next await on the client.  The client is external; as stream()  *)
(* uses it, it rejects a pending call when the signal fires, may end an    *)
(* iteration early instead, and may still deliver what it had buffered.    *)
(* What the database may refuse is left to ChatPipeline.                   *)
(***************************************************************************)
EXTENDS Naturals, Sequences, FiniteSets

CONSTANTS
  Calls,      \* the turns that reach the LLM
  Threshold,  \* SystemConfig 'ai_degraded_threshold'
  Faults,     \* "error": the client may fail with no signal fired
  MaxChunks   \* bound: chunks with text of one model

ASSUME OpenAiProviderAssumption ==
  /\ IsFiniteSet(Calls)
  /\ Threshold \in Nat \ {0}
  /\ Faults \subseteq {"error"}
  /\ MaxChunks \in Nat

VARIABLES
  at,        \* at[c]: the await call c is in
  attempt,   \* attempt[c]: the model being tried, or "handoff"
  fired,     \* fired[c]: the timer of this attempt has fired
  aborted,   \* aborted[c]: the caller's signal has fired
  received,  \* received[c]: for each token the loop took, what it came from
  modelUsed, \* modelUsed[c]: as the done chunk says
  outcome,   \* outcome[c]: how the turn ended
  degraded, consecutiveFailures, inFlight  \* the breaker

Breaker == INSTANCE AiStatus WITH Turns <- Calls

breakerVars == <<degraded, consecutiveFailures, inFlight>>
vars == <<at, attempt, fired, aborted, received, modelUsed, outcome, breakerVars>>

Models == {"primary", "fallback"}

TypeOK ==
  /\ at \in [Calls -> {"idle", "create", "next", "store", "ended"}]
  /\ attempt \in [Calls -> Models \cup {"handoff"}]
  /\ fired \in [Calls -> BOOLEAN]
  /\ aborted \in [Calls -> BOOLEAN]
  /\ received \in [Calls -> Seq(Models \cup {"handoff"})]
  /\ modelUsed \in [Calls -> Models \cup {"unknown"}]
  /\ outcome \in [Calls -> {"none", "answered", "interrupted"}]
  /\ Breaker!TypeOK

Init ==
  /\ at = [c \in Calls |-> "idle"]
  /\ attempt = [c \in Calls |-> "primary"]
  /\ fired = [c \in Calls |-> FALSE]
  /\ aborted = [c \in Calls |-> FALSE]
  /\ received = [c \in Calls |-> <<>>]
  /\ modelUsed = [c \in Calls |-> "unknown"]
  /\ outcome = [c \in Calls |-> "none"]
  /\ Breaker!Init

-----------------------------------------------------------------------------
\* combinedSignal.aborted
Signalled(c) == aborted[c] \/ fired[c]
InClient(c) == at[c] \in {"create", "next"}

\* A turn is let in by the breaker and calls stream().
Start(c) ==
  /\ at[c] = "idle"
  /\ Breaker!Enter(c)
  /\ at' = [at EXCEPT ![c] = "create"]
  /\ UNCHANGED <<attempt, fired, aborted, received, modelUsed, outcome>>

\* completions.create() resolves: the iteration starts.
Created(c) ==
  /\ at[c] = "create"
  /\ ~Signalled(c)
  /\ at' = [at EXCEPT ![c] = "next"]
  /\ UNCHANGED <<attempt, fired, aborted, received, modelUsed, outcome, breakerVars>>

\* The loop of the pipeline sees the signal: 'interrupted' and return.
Interrupt(c) ==
  /\ at' = [at EXCEPT ![c] = "ended"]
  /\ outcome' = [outcome EXCEPT ![c] = "interrupted"]
  /\ Breaker!Leave(c)
  /\ UNCHANGED <<received, modelUsed>>

\* The last tokens and the done chunk go to the loop, which takes them.
Deliver(c, tokens, model) ==
  /\ at' = [at EXCEPT ![c] = "store"]
  /\ received' = [received EXCEPT ![c] = @ \o tokens]
  /\ modelUsed' = [modelUsed EXCEPT ![c] = model]
  /\ UNCHANGED <<outcome, breakerVars>>

\* Mutant of Finish: a timer is taken for the caller's signal.
FinishOnAnySignal(c, tokens, model) ==
  \/ Signalled(c) /\ Interrupt(c)
  \/ ~Signalled(c) /\ Deliver(c, tokens, model)

\* The generator returns after 'tokens' and a done chunk that names 'model'.
Finish(c, tokens, model) ==
  \/ aborted[c] /\ Interrupt(c)
  \/ ~aborted[c] /\ Deliver(c, tokens, model)

\* A chunk with text is yielded while no signal has fired.
Token(c) ==
  /\ at[c] = "next"
  /\ ~Signalled(c)
  /\ Cardinality({i \in DOMAIN received[c] : received[c][i] = attempt[c]}) < MaxChunks
  /\ received' = [received EXCEPT ![c] = Append(@, attempt[c])]
  /\ UNCHANGED <<at, attempt, fired, aborted, modelUsed, outcome, breakerVars>>

\* Mutant of EndOfStream: the done chunk names the model that was asked for.
EndOfStreamNamesPrimary(c) ==
  /\ at[c] = "next"
  /\ Finish(c, <<>>, "primary")
  /\ UNCHANGED <<attempt, fired, aborted>>

\* The iteration is over: the client ended it, or a chunk came after a signal
\* fired and the loop over the client's chunks was left ("break").
EndOfStream(c) ==
  /\ at[c] = "next"
  /\ Finish(c, <<>>, attempt[c])
  /\ UNCHANGED <<attempt, fired, aborted>>

\* The fallback model is tried with a timer of its own.
TryFallback(c) ==
  /\ attempt[c] = "primary"
  /\ attempt' = [attempt EXCEPT ![c] = "fallback"]
  /\ fired' = [fired EXCEPT ![c] = FALSE]
  /\ at' = [at EXCEPT ![c] = "create"]
  /\ UNCHANGED <<received, modelUsed, outcome, breakerVars>>

ToHandoff(c) ==
  /\ attempt[c] = "fallback"
  /\ attempt' = [attempt EXCEPT ![c] = "handoff"]
  /\ UNCHANGED fired

\* Mutants of Handoff: the message is taken without a look at the signal; it
\* names itself as the model.
HandoffUnchecked(c) == ToHandoff(c) /\ Deliver(c, <<"handoff">>, "fallback")
HandoffNamesItself(c) == ToHandoff(c) /\ Finish(c, <<"handoff">>, "handoff")

\* Both models failed: the handoff message, as an answer of the fallback model.
Handoff(c) == ToHandoff(c) /\ Finish(c, <<"handoff">>, "fallback")

\* The client fails, on its own or for a signal: streamWithModel() throws, and
\* stream() goes on to what comes next.
Reject(c) ==
  /\ InClient(c)
  /\ "error" \in Faults \/ Signalled(c)
  /\ TryFallback(c) \/ Handoff(c)
  /\ UNCHANGED aborted

\* Mutant of TimerFires: one timer for stream() instead of one per model.
TimerFiresOnce(c) ==
  /\ InClient(c) /\ attempt[c] = "primary"
  /\ ~fired[c]
  /\ fired' = [fired EXCEPT ![c] = TRUE]
  /\ UNCHANGED <<at, attempt, aborted, received, modelUsed, outcome, breakerVars>>

TimerFires(c) ==
  /\ InClient(c)
  /\ ~fired[c]
  /\ fired' = [fired EXCEPT ![c] = TRUE]
  /\ UNCHANGED <<at, attempt, aborted, received, modelUsed, outcome, breakerVars>>

\* The client of the turn disconnects.
Abort(c) ==
  /\ InClient(c) \/ at[c] = "store"
  /\ ~aborted[c]
  /\ aborted' = [aborted EXCEPT ![c] = TRUE]
  /\ UNCHANGED <<at, attempt, fired, received, modelUsed, outcome, breakerVars>>

\* The answer is stored and the success reported.
Store(c) ==
  /\ at[c] = "store"
  /\ at' = [at EXCEPT ![c] = "ended"]
  /\ outcome' = [outcome EXCEPT ![c] = "answered"]
  /\ Breaker!RecordSuccess(c)
  /\ UNCHANGED <<attempt, fired, aborted, received, modelUsed>>

Next ==
  \E c \in Calls :
    \/ Start(c) \/ Created(c) \/ Token(c) \/ EndOfStream(c) \/ Reject(c)
    \/ TimerFires(c) \/ Abort(c) \/ Store(c)

Spec == Init /\ [][Next]_vars

\* Timers fire, the client rejects a call whose signal has fired, and the
\* answer is stored.  Nothing is assumed of the LLM service: it may never
\* answer, and never finish a stream.
FairSpec ==
  /\ Spec
  /\ \A c \in Calls :
       WF_vars(TimerFires(c)) /\ WF_vars(Signalled(c) /\ Reject(c)) /\ WF_vars(Store(c))

-----------------------------------------------------------------------------
\* The contract with the pipeline, fallback and handoff message included: while
\* its caller is there a stream never throws, it gives tokens and finishes; once
\* the caller is gone it gives no more, and what it gave is not an answer
\* (llm-provider.interface.ts: "when aborted the iterable should stop emitting").
Phase ==
  [c \in Calls |-> IF at[c] = "idle" THEN "before"
                   ELSE IF InClient(c) THEN "streaming"
                   ELSE IF at[c] = "store" THEN "answer" ELSE "over"]
Taken == [c \in Calls |-> Len(received[c])]
Llm == INSTANCE LlmStream WITH Turns <- Calls, Faults <- {}, phase <- Phase, taken <- Taken
LlmSpec == Llm!Spec

\* What the audit log is told of the model agrees with the text: an answer
\* ascribed to the primary model holds nothing else, models appear in the
\* order they were tried, and the handoff message only ends an answer (a text
\* may hold what the primary model said before it failed).
AnswerProvenance ==
  \A c \in Calls : at[c] = "store" \/ outcome[c] = "answered" =>
    LET from(model) == {i \in DOMAIN received[c] : received[c][i] = model}
    IN /\ modelUsed[c] = "primary" => from("primary") = DOMAIN received[c]
       /\ modelUsed[c] = "unknown" => FALSE
       /\ \A i \in from("primary"), j \in from("fallback") : i < j
       /\ from("handoff") \subseteq {Len(received[c])}

\* When the caller's signal fires during the stream, whatever the stream does
\* next (a token, its end, a failure, the other model, the handoff message) is
\* not taken for an answer: each way out of the loop looks at the signal.
AbortNeverAnswers ==
  [][\A c \in Calls :
       aborted[c] /\ InClient(c) => at'[c] # "store" /\ received'[c] = received[c]]_vars

\* A call ends although the LLM service never does: each attempt has a timer,
\* and there are two attempts.
EveryCallEnds == \A c \in Calls : at[c] # "idle" ~> at[c] = "ended"

-----------------------------------------------------------------------------
(***************************************************************************)
(* What documents say and the code does not do.                            *)
(***************************************************************************)
\* task.md (T2-009): when the LLM times out three times in a row, the service
\* is degraded.  Here: when as many calls as the threshold have lost both
\* models to their timers, and no call has had an answer from a model.
LostBothModels(c) ==
  outcome[c] = "answered" /\ \E i \in DOMAIN received[c] : received[c][i] = "handoff"
TimeoutsDegrade ==
  LET lost == {c \in Calls : LostBothModels(c)}
  IN Faults = {} /\ Cardinality(lost) >= Threshold
       /\ lost = {c \in Calls : outcome[c] = "answered"} => degraded
=============================================================================
