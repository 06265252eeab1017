--------------------------- MODULE SseStreamProofs ---------------------------
(***************************************************************************)
(* What every implementation of SseStream gives its clients.               *)
(***************************************************************************)
EXTENDS SseStream, SequenceTheorems, TLAPS

\* What a response is closed with: a terminal event, after at most one token.
LEMMA ClosingEvents ==
  ASSUME NEW last \in {<<>>, <<"token">>}, NEW e \in TerminalEvents
  PROVE  LET out == Append(last, e)
         IN /\ out \in Seq(TerminalEvents \cup {"token"})
            /\ Len(out) \in 1..2
            /\ \A i \in 1..Len(out) : out[i] \in TerminalEvents <=> i = Len(out)
<1>1. "token" \notin TerminalEvents
  BY DEF TerminalEvents
<1>2. CASE last = <<>>
  <2>1. Append(last, e) = <<e>>
    BY <1>2
  <2>2. QED BY <2>1
<1>3. CASE last = <<"token">>
  <2> DEFINE Event == TerminalEvents \cup {"token"}
  <2>1. last \in Seq(Event) /\ Len(last) = 1 /\ last[1] = "token" /\ e \in Event
    BY <1>3
  <2> HIDE DEF Event
  <2>2. Append(last, e) \in Seq(Event)
    BY <2>1
  <2>3. Len(Append(last, e)) = Len(last) + 1 /\ Append(last, e)[Len(last) + 1] = e
    BY <2>1, AppendProperties, Zenon
  <2>4. Append(last, e)[1] = "token"
    BY <2>1
  <2>5. Len(Append(last, e)) = 2 /\ Append(last, e)[2] = e
    <3>1. Len(last) + 1 = 2
      BY <2>1
    <3>2. QED BY <2>3, <3>1, Zenon
  <2>6. QED BY <1>1, <2>2, <2>3, <2>4, <2>5 DEF Event
<1>4. QED BY <1>2, <1>3

\* Every response is in one of its four states, and only documented events are in it.
LEMMA SseTypeCorrect == Spec => []TypeOK
<1> DEFINE Event == TerminalEvents \cup {"token"}
<1>1. Init => TypeOK
  BY DEF Init, TypeOK
<1>2. ASSUME TypeOK, NEW t \in Turns, NEW out \in Seq(Event),
             events' = [events EXCEPT ![t] = @ \o out]
      PROVE  events' \in [Turns -> Seq(Event)]
  <2>1. events[t] \o out \in Seq(Event)
    BY <1>2 DEF TypeOK
  <2>2. QED BY <1>2, <2>1 DEF TypeOK
<1>3. ASSUME TypeOK, NEW t \in Turns, Token(t) PROVE TypeOK'
  <2>1. Append(events[t], "token") \in Seq(Event)
    BY <1>3 DEF TypeOK
  <2>2. QED BY <1>3, <2>1 DEF TypeOK, Token
<1>4. ASSUME TypeOK, NEW t \in Turns, Close(t) PROVE TypeOK'
  <2>1. PICK last \in {<<>>, <<"token">>}, e \in TerminalEvents :
               events' = [events EXCEPT ![t] = @ \o Append(last, e)]
    BY <1>4 DEF Close
  <2>2. Append(last, e) \in Seq(Event)
    BY ClosingEvents
  <2>3. events' \in [Turns -> Seq(Event)]
    BY <1>2, <1>4, <2>1, <2>2
  <2>4. QED BY <1>4, <2>3 DEF TypeOK, Close
<1>5. ASSUME TypeOK, NEW t \in Turns, Open(t) \/ Cut(t) PROVE TypeOK'
  BY <1>5 DEF TypeOK, Open, Cut
<1>6. ASSUME TypeOK, CutAll PROVE TypeOK'
  BY <1>6 DEF TypeOK, CutAll
<1>7. TypeOK /\ [Next]_vars => TypeOK'
  BY <1>3, <1>4, <1>5, <1>6 DEF Next, vars, TypeOK
<1>8. QED BY <1>1, <1>7, PTL DEF Spec

\* Appending tokens, or closing, keeps a response well formed.
LEMMA OneTerminalStep == TypeOK /\ OneTerminal /\ [Next]_vars => OneTerminal'
<1> SUFFICES ASSUME TypeOK, OneTerminal, [Next]_vars PROVE OneTerminal'
  OBVIOUS
<1> DEFINE Good(t) ==
      \A i \in 1..Len(events[t]) :
        events[t][i] \in TerminalEvents <=> stream[t] = "closed" /\ i = Len(events[t])
<1>1. OneTerminal <=> \A t \in Turns : Good(t)
  BY DEF OneTerminal
<1>2. OneTerminal' <=> \A t \in Turns : Good(t)'
  BY DEF OneTerminal
<1>3. ASSUME NEW t \in Turns, NEW u \in Turns, Token(t) PROVE Good(u)'
  <2>1. CASE u = t
    <3>1. events'[t] = Append(events[t], "token") /\ stream'[t] = "open" /\ stream[t] = "open"
      BY <1>3 DEF Token, TypeOK
    <3>2. events[t] \in Seq(TerminalEvents \cup {"token"})
      BY DEF TypeOK
    <3>3. \A i \in 1..Len(events[t]) : events[t][i] \notin TerminalEvents
      BY <1>1, <3>1
    <3>4. "token" \notin TerminalEvents
      BY DEF TerminalEvents
    <3>5. \A i \in 1..Len(events'[t]) : events'[t][i] \notin TerminalEvents
      BY <3>1, <3>2, <3>3, <3>4
    <3>6. QED BY <2>1, <3>1, <3>5
  <2>2. CASE u # t
    <3>1. events'[u] = events[u] /\ stream'[u] = stream[u]
      BY <1>3, <2>2 DEF Token, TypeOK
    <3>2. QED BY <1>1, <3>1
  <2>3. QED BY <2>1, <2>2
<1>4. ASSUME NEW t \in Turns, NEW u \in Turns, Close(t) PROVE Good(u)'
  <2>1. PICK last \in {<<>>, <<"token">>}, e \in TerminalEvents :
               events' = [events EXCEPT ![t] = @ \o Append(last, e)]
    BY <1>4 DEF Close
  <2>2. CASE u = t
    <3> DEFINE n == Len(events[t])
               out == Append(last, e)
    <3>1. /\ events'[t] = events[t] \o out
          /\ stream'[t] = "closed" /\ stream[t] # "closed"
      BY <1>4, <2>1 DEF Close, TypeOK
    <3>2. events[t] \in Seq(TerminalEvents \cup {"token"})
      BY DEF TypeOK
    <3>3. \A i \in 1..n : events[t][i] \notin TerminalEvents
      BY <1>1, <3>1
    <3>5. /\ out \in Seq(TerminalEvents \cup {"token"})
          /\ Len(out) \in 1..2
          /\ \A i \in 1..Len(out) : out[i] \in TerminalEvents <=> i = Len(out)
      BY ClosingEvents
    <3> HIDE DEF out
    <3>6. /\ Len(events'[t]) = n + Len(out)
          /\ \A i \in 1..n : events'[t][i] = events[t][i]
          /\ \A i \in (n + 1)..(n + Len(out)) : events'[t][i] = out[i - n]
      BY <3>1, <3>2, <3>5, ConcatProperties
    <3>7. n \in Nat
      BY <3>2
    <3> HIDE DEF n
    <3>8. ASSUME NEW i \in 1..(n + Len(out))
          PROVE  events'[t][i] \in TerminalEvents <=> i = n + Len(out)
      <4>1. CASE i <= n
        <5>1. i \in 1..n /\ i # n + Len(out)
          BY <3>5, <3>7, <4>1
        <5>2. QED BY <3>3, <3>6, <5>1
      <4>2. CASE i > n
        <5>1. i - n \in 1..Len(out) /\ (i - n = Len(out) <=> i = n + Len(out))
          BY <3>5, <3>7, <4>2
        <5>2. i \in (n + 1)..(n + Len(out))
          BY <3>5, <3>7, <4>2
        <5>3. events'[t][i] = out[i - n]
          BY <3>6, <5>2
        <5>4. QED BY <3>5, <5>1, <5>3
      <4>3. QED BY <3>7, <4>1, <4>2
    <3>9. QED BY <2>2, <3>1, <3>6, <3>8 DEF n
  <2>3. CASE u # t
    <3>1. events'[u] = events[u] /\ stream'[u] = stream[u]
      BY <1>4, <2>1, <2>3 DEF Close, TypeOK
    <3>2. QED BY <1>1, <3>1
  <2>4. QED BY <2>2, <2>3
<1>5. ASSUME NEW t \in Turns, NEW u \in Turns, Open(t) \/ Cut(t) PROVE Good(u)'
  <2>1. events'[u] = events[u] /\ (stream'[u] = "closed" <=> stream[u] = "closed")
    BY <1>5 DEF Open, Cut, TypeOK
  <2>2. QED BY <1>1, <2>1
<1>6. ASSUME NEW u \in Turns, CutAll PROVE Good(u)'
  <2>1. events'[u] = events[u] /\ (stream'[u] = "closed" <=> stream[u] = "closed")
    BY <1>6 DEF CutAll, TypeOK
  <2>2. QED BY <1>1, <2>1
<1>7. CASE UNCHANGED vars
  BY <1>7 DEF vars, OneTerminal
<1>8. QED BY <1>2, <1>3, <1>4, <1>5, <1>6, <1>7 DEF Next

\* A client that reads a response to its end has seen exactly one terminal
\* event, as the last one; before that it has seen none.
THEOREM OneTerminalAlways == Spec => []OneTerminal
<1>1. Init => OneTerminal
  BY DEF Init, OneTerminal
<1>2. QED
  BY <1>1, OneTerminalStep, SseTypeCorrect, PTL DEF Spec
=============================================================================
