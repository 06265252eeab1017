----------------------------- MODULE LlmStream -----------------------------
(***************************************************************************)
(* What a turn and the stream of its LLM provider promise each other, in   *)
(* whatever way the tokens come about (the interface ILlmProvider, and the *)
(* for-await loop of ChatPipelineService.run, its only caller).  A turn    *)
(* asks at most once; tokens are taken as long as the caller's signal has  *)
(* not fired; a stream that finishes by then is an answer, and any other   *)
(* is given up, because the signal fired or because the stream threw.      *)
(* OpenAiProvider implements this without ever throwing, ChatPipeline with *)
(* streams that may throw and a process that may stop.                     *)
(***************************************************************************)
EXTENDS Naturals

CONSTANTS Turns,
          Faults  \* "throw": a stream may throw; "stop": the process may stop

VARIABLES phase,   \* phase[t]: how far t has come with its stream
          taken,   \* taken[t]: the tokens the loop took
          aborted  \* aborted[t]: the caller's signal has fired

vars == <<phase, taken, aborted>>

TypeOK ==
  /\ phase \in [Turns -> {"before", "streaming", "answer", "over"}]
  /\ taken \in [Turns -> Nat]
  /\ aborted \in [Turns -> BOOLEAN]

Init ==
  /\ phase = [t \in Turns |-> "before"]
  /\ taken = [t \in Turns |-> 0]
  /\ aborted = [t \in Turns |-> FALSE]

\* stream() is called; the signal may have fired before.
Ask(t) ==
  /\ phase[t] = "before"
  /\ phase' = [phase EXCEPT ![t] = "streaming"]
  /\ UNCHANGED <<taken, aborted>>

\* The client disconnects.
Abort(t) ==
  /\ aborted' = [aborted EXCEPT ![t] = TRUE]
  /\ UNCHANGED <<phase, taken>>

\* A chunk with text.
Take(t) ==
  /\ phase[t] = "streaming" /\ ~aborted[t]
  /\ taken' = [taken EXCEPT ![t] = @ + 1]
  /\ UNCHANGED <<phase, aborted>>

\* The done chunk, or the end of the iteration, possibly with a last token in
\* the same callback: what was taken is an answer.
Finish(t) ==
  /\ phase[t] = "streaming" /\ ~aborted[t]
  /\ phase' = [phase EXCEPT ![t] = "answer"]
  /\ \E last \in {0, 1} : taken' = [taken EXCEPT ![t] = @ + last]
  /\ UNCHANGED aborted

\* What was taken is no answer.
GiveUp(t) ==
  /\ phase[t] = "streaming"
  /\ aborted[t] \/ "throw" \in Faults
  /\ phase' = [phase EXCEPT ![t] = "over"]
  /\ UNCHANGED <<taken, aborted>>

\* The answer is stored, or not; or a turn ends that never asked.
Leave(t) ==
  /\ phase[t] \in {"before", "answer"}
  /\ phase' = [phase EXCEPT ![t] = "over"]
  /\ UNCHANGED <<taken, aborted>>

\* The process stops: no stream and no unstored answer survives.
Stop ==
  /\ "stop" \in Faults
  /\ \E survivors \in SUBSET {t \in Turns : phase[t] \in {"before", "over"}} :
       phase' = [t \in Turns |-> IF t \in survivors THEN phase[t] ELSE "over"]
  /\ UNCHANGED <<taken, aborted>>

Next ==
  \/ \E t \in Turns : Ask(t) \/ Abort(t) \/ Take(t) \/ Finish(t) \/ GiveUp(t) \/ Leave(t)
  \/ Stop

Spec == Init /\ [][Next]_vars
=============================================================================
