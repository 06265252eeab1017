----------------------------- MODULE SseStream -----------------------------
(***************************************************************************)
(* What the message endpoint promises of each response, without saying how *)
(* the answer is produced (the event list of chat.controller.ts and the    *)
(* helpers setSseHeaders and writeSseAndEnd of chat-pipeline.service.ts).  *)
(* A response is opened at most once, carries token events, and is closed  *)
(* by exactly one terminal event, after which nothing is written; or it is *)
(* cut without one, when an exception leaves the handler or the process    *)
(* stops.  ChatPipeline implements this module: see SseSpec there.         *)
(***************************************************************************)
EXTENDS Naturals, Sequences

CONSTANT Turns

VARIABLES stream,  \* stream[t]: the state of t's response
          events   \* events[t]: the events written to it, oldest first

vars == <<stream, events>>

TerminalEvents == {"done", "error", "timeout", "interrupted"}

TypeOK ==
  /\ stream \in [Turns -> {"unopened", "open", "closed", "cut"}]
  /\ events \in [Turns -> Seq(TerminalEvents \cup {"token"})]

Init ==
  /\ stream = [t \in Turns |-> "unopened"]
  /\ events = [t \in Turns |-> <<>>]

\* The headers are flushed.
Open(t) ==
  /\ stream[t] = "unopened"
  /\ stream' = [stream EXCEPT ![t] = "open"]
  /\ UNCHANGED events

Token(t) ==
  /\ stream[t] = "open"
  /\ events' = [events EXCEPT ![t] = Append(@, "token")]
  /\ UNCHANGED stream

\* A terminal event, possibly after one last token in the same callback (the
\* fixed texts are one token), and res.end().  A response can be opened and
\* closed in one step: a message that is too long.
Close(t) ==
  /\ stream[t] \in {"unopened", "open"}
  /\ stream' = [stream EXCEPT ![t] = "closed"]
  /\ \E last \in {<<>>, <<"token">>}, e \in TerminalEvents :
       events' = [events EXCEPT ![t] = @ \o Append(last, e)]

\* The connection goes away with no terminal event.
Cut(t) ==
  /\ stream[t] = "open"
  /\ stream' = [stream EXCEPT ![t] = "cut"]
  /\ UNCHANGED events

\* The process stops: every open response is cut at once.
CutAll ==
  /\ stream' = [t \in Turns |-> IF stream[t] = "open" THEN "cut" ELSE stream[t]]
  /\ UNCHANGED events

Next ==
  \/ \E t \in Turns : Open(t) \/ Token(t) \/ Close(t) \/ Cut(t)
  \/ CutAll

Spec == Init /\ [][Next]_vars

-----------------------------------------------------------------------------
\* What a client may rely on: a closed response ends with its only terminal
\* event, and a response that is not closed has none.
OneTerminal ==
  \A t \in Turns :
    \A i \in 1..Len(events[t]) :
      events[t][i] \in TerminalEvents
        <=> stream[t] = "closed" /\ i = Len(events[t])
=============================================================================
