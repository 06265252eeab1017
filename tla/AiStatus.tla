------------------------------ MODULE AiStatus ------------------------------
(***************************************************************************)
(* The AI circuit breaker (src/src/health/ai-status.service.ts) together   *)
(* with the protocol its callers follow (chat-pipeline.service.ts): a turn *)
(* consults isDegraded() once, when it starts; a turn that was let in may  *)
(* later report one failure, or one success, or nothing at all (refused,   *)
(* answered without the LLM, abandoned by the client, or failed).  Between *)
(* the consultation and the report other turns report too.                 *)
(*                                                                         *)
(* ChatPipeline implements this module: see AiStatusSpec there.            *)
(***************************************************************************)
EXTENDS Naturals, FiniteSets

CONSTANTS Turns,      \* concurrent turns; a turn can be let in again
          Threshold   \* SystemConfig 'ai_degraded_threshold'

ASSUME ThresholdAssumption == Threshold \in Nat \ {0}
ASSUME TurnsAssumption == IsFiniteSet(Turns)

VARIABLES degraded,             \* the breaker: TRUE once it has opened
          consecutiveFailures,  \* failures since the last success
          inFlight              \* turns that were let in and have not reported

vars == <<degraded, consecutiveFailures, inFlight>>

TypeOK ==
  /\ degraded \in BOOLEAN
  /\ consecutiveFailures \in Nat
  /\ inFlight \subseteq Turns

\* The field initialisers of the service.
Init ==
  /\ degraded = FALSE
  /\ consecutiveFailures = 0
  /\ inFlight = {}

\* A turn starts and isDegraded() answers FALSE.
Enter(t) ==
  /\ t \notin inFlight
  /\ ~degraded
  /\ inFlight' = inFlight \cup {t}
  /\ UNCHANGED <<degraded, consecutiveFailures>>

\* The turn will not report any more: no LLM call, or an interrupted one.
Leave(t) ==
  /\ t \in inFlight
  /\ inFlight' = inFlight \ {t}
  /\ UNCHANGED <<degraded, consecutiveFailures>>

\* Mutant of RecordFailure: '>' where the code has '>='.
RecordFailureLate(t) ==
  /\ t \in inFlight
  /\ inFlight' = inFlight \ {t}
  /\ consecutiveFailures' = consecutiveFailures + 1
  /\ degraded' = (degraded \/ consecutiveFailures + 1 > Threshold)

\* Mutant of RecordFailure: the turn goes on and reports the same call again.
RecordFailureTwice(t) ==
  /\ t \in inFlight
  /\ consecutiveFailures' = consecutiveFailures + 1
  /\ degraded' = (degraded \/ consecutiveFailures + 1 >= Threshold)
  /\ UNCHANGED inFlight

RecordFailure(t) ==
  /\ t \in inFlight
  /\ inFlight' = inFlight \ {t}
  /\ consecutiveFailures' = consecutiveFailures + 1
  /\ degraded' = (degraded \/ consecutiveFailures + 1 >= Threshold)

\* Mutant of RecordSuccess: a success makes up for one failure.
RecordSuccessHealsOne(t) ==
  /\ t \in inFlight
  /\ inFlight' = inFlight \ {t}
  /\ consecutiveFailures' = consecutiveFailures - 1
  /\ degraded' = (consecutiveFailures - 1 >= Threshold)

RecordSuccess(t) ==
  /\ t \in inFlight
  /\ inFlight' = inFlight \ {t}
  /\ consecutiveFailures' = 0
  /\ degraded' = FALSE

\* The state lives in process memory: a restart loses it, and every turn.
Restart ==
  /\ degraded' = FALSE
  /\ consecutiveFailures' = 0
  /\ inFlight' = {}

TurnStep(t) == Enter(t) \/ Leave(t) \/ RecordFailure(t) \/ RecordSuccess(t)

Next == Restart \/ \E t \in Turns : TurnStep(t)

Spec == Init /\ [][Next]_vars

-----------------------------------------------------------------------------
\* The flag and the counter never disagree: the breaker is open exactly when
\* the count has reached the threshold, whatever the order in which
\* overlapping turns report (ai-status.service.ts, recordFailure and
\* recordSuccess).
DegradedConsistent == degraded <=> consecutiveFailures >= Threshold

\* The count overshoots the threshold by at most the turns that were already
\* in flight: an open breaker lets no new turn in, so the counter needs no
\* bound of its own.
OvershootBounded ==
  consecutiveFailures + Cardinality(inFlight) <= Threshold - 1 + Cardinality(Turns)
=============================================================================
