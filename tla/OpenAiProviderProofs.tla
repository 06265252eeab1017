------------------------ MODULE OpenAiProviderProofs ------------------------
(***************************************************************************)
(* Proofs about OpenAiProvider, for any number of overlapping calls, any   *)
(* threshold, and answers of any length.                                   *)
(***************************************************************************)
EXTENDS OpenAiProvider, TLAPS

\* The step formula of AbortNeverAnswers.
NotAnswered ==
  \A c \in Calls : aborted[c] /\ InClient(c) => at'[c] # "store" /\ received'[c] = received[c]

\* What the functions of the specification are indexed by.
Indexed ==
  /\ at \in [Calls -> {"idle", "create", "next", "store", "ended"}]
  /\ received \in [Calls -> Seq(Models \cup {"handoff"})]
  /\ attempt \in [Calls -> Models \cup {"handoff"}]

\* A step of another call does not touch this one.
LEMMA OnlyOneCallMoves ==
  ASSUME Indexed, NEW c \in Calls, NEW d \in Calls, c # d,
         \/ Start(d) \/ Created(d) \/ Token(d) \/ EndOfStream(d) \/ Reject(d)
         \/ TimerFires(d) \/ Abort(d) \/ Store(d)
  PROVE  at'[c] = at[c] /\ received'[c] = received[c]
<1>1. \A tokens, model : Finish(d, tokens, model) => at'[c] = at[c] /\ received'[c] = received[c]
  BY DEF Indexed, Finish, Interrupt, Deliver
<1>2. CASE EndOfStream(d) \/ Reject(d)
  BY <1>1, <1>2 DEF Indexed, EndOfStream, Reject, TryFallback, Handoff
<1>3. CASE Start(d) \/ Created(d) \/ Token(d) \/ TimerFires(d) \/ Abort(d) \/ Store(d)
  BY <1>3 DEF Indexed, Start, Created, Token, TimerFires, Abort, Store
<1>4. QED BY <1>2, <1>3

\* Every step keeps what the case analysis needs: the functions are total.
LEMMA IndexedStep == Indexed /\ [Next]_vars => Indexed'
<1> SUFFICES ASSUME Indexed, [Next]_vars PROVE Indexed'
  OBVIOUS
<1>1. ASSUME NEW c \in Calls, NEW tokens \in Seq(Models \cup {"handoff"}), NEW model,
             Finish(c, tokens, model)
      PROVE  /\ at' \in [Calls -> {"idle", "create", "next", "store", "ended"}]
             /\ received' \in [Calls -> Seq(Models \cup {"handoff"})]
  <2>1. received[c] \o tokens \in Seq(Models \cup {"handoff"})
    BY DEF Indexed
  <2>2. QED BY <1>1, <2>1 DEF Indexed, Finish, Interrupt, Deliver
<1>2. <<>> \in Seq(Models \cup {"handoff"}) /\ <<"handoff">> \in Seq(Models \cup {"handoff"})
  OBVIOUS
<1>3. ASSUME NEW c \in Calls, EndOfStream(c) PROVE Indexed'
  BY <1>1, <1>2, <1>3 DEF EndOfStream, Indexed
<1>4. ASSUME NEW c \in Calls, Reject(c) PROVE Indexed'
  <2>1. attempt' \in [Calls -> Models \cup {"handoff"}]
    BY <1>4 DEF Reject, TryFallback, Handoff, ToHandoff, Indexed, Models
  <2>2. CASE TryFallback(c)
    BY <2>1, <2>2 DEF TryFallback, Indexed
  <2>3. CASE Handoff(c)
    BY <1>1, <1>2, <2>1, <2>3 DEF Handoff, Indexed
  <2>4. QED BY <1>4, <2>2, <2>3 DEF Reject
<1>5. ASSUME NEW c \in Calls, Token(c) PROVE Indexed'
  <2>1. Append(received[c], attempt[c]) \in Seq(Models \cup {"handoff"})
    BY DEF Indexed
  <2>2. QED BY <1>5, <2>1 DEF Token, Indexed
<1>6. ASSUME NEW c \in Calls,
             Start(c) \/ Created(c) \/ TimerFires(c) \/ Abort(c) \/ Store(c)
      PROVE  Indexed'
  BY <1>6 DEF Start, Created, TimerFires, Abort, Store, Indexed
<1>7. QED
  BY <1>3, <1>4, <1>5, <1>6 DEF Next, vars, Indexed

\* However calls overlap and wherever the disconnect falls, a call whose
\* caller is gone while the client is working takes no further text and is
\* not stored as an answer.
THEOREM AbortIsFinal == Spec => AbortNeverAnswers
<1>1. Init => Indexed
  BY DEF Init, Indexed, Models
<1>2. ASSUME Indexed, [Next]_vars, NEW c \in Calls, aborted[c], InClient(c)
      PROVE  at'[c] # "store" /\ received'[c] = received[c]
  <2>1. at[c] # "store"
    BY <1>2 DEF InClient
  <2>2. \A tokens, model :
          Finish(c, tokens, model) => at'[c] # "store" /\ received'[c] = received[c]
    BY <1>2 DEF Indexed, Finish, Interrupt
  <2>3. CASE EndOfStream(c) \/ Reject(c)
    BY <1>2, <2>2, <2>3 DEF Indexed, EndOfStream, Reject, TryFallback, Handoff
  <2>4. CASE Start(c) \/ Created(c) \/ Token(c) \/ TimerFires(c) \/ Abort(c) \/ Store(c)
    BY <1>2, <2>1, <2>4 DEF Indexed, InClient, Signalled, Start, Created, Token, TimerFires,
       Abort, Store
  <2>5. CASE \E d \in Calls \ {c} :
               \/ Start(d) \/ Created(d) \/ Token(d) \/ EndOfStream(d) \/ Reject(d)
               \/ TimerFires(d) \/ Abort(d) \/ Store(d)
    BY <1>2, <2>1, <2>5, OnlyOneCallMoves
  <2>6. CASE UNCHANGED vars
    BY <2>1, <2>6 DEF vars
  <2>7. QED BY <1>2, <2>3, <2>4, <2>5, <2>6 DEF Next
<1>3. Indexed /\ [Next]_vars => [NotAnswered]_vars
  BY <1>2 DEF NotAnswered
<1>4. [NotAnswered]_vars <=> [\A c \in Calls :
        aborted[c] /\ InClient(c) => at'[c] # "store" /\ received'[c] = received[c]]_vars
  BY DEF NotAnswered
<1>5. QED
  BY <1>1, <1>3, <1>4, IndexedStep, PTL DEF Spec, AbortNeverAnswers

-----------------------------------------------------------------------------
Tokens == Seq(Models \cup {"handoff"})

\* A call tries the primary model first, and is out of the client before it is
\* at the handoff message.
Staged ==
  \A c \in Calls : /\ at[c] = "idle" => attempt[c] = "primary"
                   /\ InClient(c) => attempt[c] \in Models

LEMMA StagedStep == TypeOK /\ Staged /\ [Next]_vars => Staged'
<1> SUFFICES ASSUME TypeOK, Staged, [Next]_vars PROVE Staged'
  OBVIOUS
<1> USE DEF TypeOK, Staged, InClient, Models
<1>1. \A c \in Calls : \A tokens, model : Finish(c, tokens, model) =>
        at' \in [Calls -> {"idle", "create", "next", "store", "ended"}]
        /\ at'[c] \in {"store", "ended"} /\ \A d \in Calls \ {c} : at'[d] = at[d]
  BY DEF Finish, Interrupt, Deliver
<1>2. ASSUME NEW c \in Calls, EndOfStream(c) PROVE Staged'
  BY <1>1, <1>2 DEF EndOfStream
<1>3. ASSUME NEW c \in Calls, Reject(c) PROVE Staged'
  <2>1. CASE TryFallback(c)
    BY <1>3, <2>1 DEF Reject, TryFallback
  <2>2. CASE Handoff(c)
    BY <1>1, <1>3, <2>2 DEF Reject, Handoff, ToHandoff
  <2>3. QED BY <1>3, <2>1, <2>2 DEF Reject
<1>4. ASSUME NEW c \in Calls,
             Start(c) \/ Created(c) \/ Token(c) \/ TimerFires(c) \/ Abort(c) \/ Store(c)
      PROVE  Staged'
  BY <1>4 DEF Start, Created, Token, TimerFires, Abort, Store
<1>5. CASE UNCHANGED vars
  BY <1>5 DEF vars
<1>6. QED BY <1>2, <1>3, <1>4, <1>5 DEF Next

\* What Finish does, whatever it delivers.
LEMMA FinishTypes ==
  ASSUME TypeOK, NEW c \in Calls, NEW tokens \in Tokens, NEW model \in Models,
         Finish(c, tokens, model)
  PROVE  /\ modelUsed' \in [Calls -> Models \cup {"unknown"}]
         /\ outcome' \in [Calls -> {"none", "answered", "interrupted"}]
         /\ Breaker!TypeOK'
<1>1. UNCHANGED degraded /\ UNCHANGED consecutiveFailures /\ inFlight' \subseteq inFlight
  BY DEF Finish, Interrupt, Deliver, Breaker!Leave, breakerVars
<1>2. Breaker!TypeOK'
  BY <1>1 DEF TypeOK, Breaker!TypeOK
<1>3. /\ modelUsed' \in [Calls -> Models \cup {"unknown"}]
      /\ outcome' \in [Calls -> {"none", "answered", "interrupted"}]
  <2>1. CASE Interrupt(c)
    BY <2>1 DEF TypeOK, Interrupt
  <2>2. CASE Deliver(c, tokens, model)
    BY <2>2 DEF TypeOK, Deliver
  <2>3. QED BY <2>1, <2>2 DEF Finish
<1>4. QED BY <1>2, <1>3

\* The types are kept by every step of a call that is where Staged says.
LEMMA TypeStep == TypeOK /\ Staged /\ [Next]_vars => TypeOK'
<1> SUFFICES ASSUME TypeOK, Staged, [Next]_vars PROVE TypeOK'
  OBVIOUS
<1>1. Indexed'
  BY IndexedStep DEF TypeOK, Indexed
<1>2. ASSUME NEW c \in Calls,
             Start(c) \/ Created(c) \/ Token(c) \/ TimerFires(c) \/ Abort(c) \/ Store(c)
      PROVE  TypeOK'
  <2>1. /\ fired' \in [Calls -> BOOLEAN]
        /\ aborted' \in [Calls -> BOOLEAN]
    BY <1>2 DEF TypeOK, Start, Created, Token, TimerFires, Abort, Store
  <2>2. /\ modelUsed' \in [Calls -> Models \cup {"unknown"}]
        /\ outcome' \in [Calls -> {"none", "answered", "interrupted"}]
    BY <1>2 DEF TypeOK, Start, Created, Token, TimerFires, Abort, Store
  <2>3. degraded' \in BOOLEAN
    BY <1>2, Zenon DEF TypeOK, Breaker!TypeOK, Start, Created, Token, TimerFires, Abort, Store,
       Breaker!Enter, Breaker!RecordSuccess, breakerVars
  <2>4. consecutiveFailures' \in Nat /\ inFlight' \subseteq Calls
    BY <1>2 DEF TypeOK, Breaker!TypeOK, Start, Created, Token, TimerFires, Abort, Store,
       Breaker!Enter, Breaker!RecordSuccess, breakerVars
  <2>5. QED BY <1>1, <2>1, <2>2, <2>3, <2>4 DEF TypeOK, Indexed, Breaker!TypeOK
<1>3. ASSUME NEW c \in Calls, EndOfStream(c) PROVE TypeOK'
  <2>1. attempt[c] \in Models /\ <<>> \in Tokens
    BY <1>3 DEF Staged, InClient, EndOfStream, Tokens
  <2>2. QED BY <1>1, <1>3, <2>1, FinishTypes DEF TypeOK, Indexed, EndOfStream
<1>4. ASSUME NEW c \in Calls, Reject(c) PROVE TypeOK'
  <2>1. CASE TryFallback(c)
    BY <1>1, <1>4, <2>1 DEF TypeOK, Indexed, Reject, TryFallback, breakerVars, Breaker!TypeOK
  <2>2. CASE Handoff(c)
    <3>1. <<"handoff">> \in Tokens /\ "fallback" \in Models
      BY DEF Tokens, Models
    <3>2. QED
      BY <1>1, <1>4, <2>2, <3>1, FinishTypes DEF TypeOK, Indexed, Reject, Handoff, ToHandoff
  <2>3. QED BY <1>4, <2>1, <2>2 DEF Reject
<1>5. CASE UNCHANGED vars
  BY <1>5 DEF TypeOK, vars, breakerVars, Breaker!TypeOK
<1>6. QED BY <1>2, <1>3, <1>4, <1>5 DEF Next

LEMMA TypedAndStaged == Spec => [](TypeOK /\ Staged)
<1>1. Init => TypeOK /\ Staged
  <2> SUFFICES ASSUME Init PROVE TypeOK /\ Staged
    OBVIOUS
  <2>1. degraded \in BOOLEAN
    BY Zenon DEF Init, Breaker!Init
  <2>2. Breaker!TypeOK
    BY <2>1 DEF Init, Breaker!Init, Breaker!TypeOK
  <2>3. QED BY <2>2 DEF Init, TypeOK, Models, Staged, InClient
<1>2. QED BY <1>1, TypeStep, StagedStep, PTL DEF Spec

\* Calls, answers and breaker are well typed: in particular the model on record
\* is one of the two that stream() asks, never the handoff message (openai.provider
\* .ts sends that as an answer of the fallback model).
THEOREM TypeCorrect == Spec => []TypeOK
BY TypedAndStaged, PTL

-----------------------------------------------------------------------------
\* Models appear in an answer in the order in which they were tried, and the
\* handoff message only at its end.
Ordered(answer) ==
  /\ \A i, j \in DOMAIN answer : answer[i] = "primary" /\ answer[j] = "fallback" => i < j
  /\ \A i \in DOMAIN answer : answer[i] = "handoff" => i = Len(answer)
AllPrimary(answer) == \A i \in DOMAIN answer : answer[i] = "primary"

NoHandoff(answer) == \A i \in DOMAIN answer : answer[i] # "handoff"
Told(model, answer) == model # "unknown" /\ (model = "primary" => AllPrimary(answer))
\* AnswerProvenance, strengthened by what an answer may hold at each attempt.
Proven(c) ==
  /\ Ordered(received[c])
  /\ attempt[c] = "primary" => AllPrimary(received[c])
  /\ attempt[c] \in Models => NoHandoff(received[c])
  /\ at[c] # "ended" => outcome[c] = "none"
  /\ at[c] = "store" \/ outcome[c] = "answered" => Told(modelUsed[c], received[c])
Provenance == \A c \in Calls : Proven(c)

LEMMA OrderedAppend ==
  ASSUME NEW answer \in Tokens, NEW model \in Models, Ordered(answer),
         NoHandoff(answer), model = "primary" => AllPrimary(answer)
  PROVE  /\ Ordered(Append(answer, model))
         /\ NoHandoff(Append(answer, model))
         /\ model = "primary" => AllPrimary(Append(answer, model))
BY DEF Ordered, Tokens, Models, AllPrimary, NoHandoff

LEMMA OrderedHandoff ==
  ASSUME NEW answer \in Tokens, Ordered(answer), NoHandoff(answer)
  PROVE  Ordered(answer \o <<"handoff">>)
BY DEF Ordered, Tokens, Models, NoHandoff

\* A step of call c keeps the provenance of every other call.
LEMMA OthersKeepProvenance ==
  ASSUME TypeOK, Provenance, NEW c \in Calls, NEW d \in Calls, c # d,
         \/ Start(c) \/ Created(c) \/ Token(c) \/ EndOfStream(c) \/ Reject(c)
         \/ TimerFires(c) \/ Abort(c) \/ Store(c)
  PROVE  Proven(d)'
<1>1. Proven(d)
  BY DEF Provenance
<1>2. \A tokens, model : Finish(c, tokens, model) =>
        at'[d] = at[d] /\ received'[d] = received[d]
        /\ modelUsed'[d] = modelUsed[d] /\ outcome'[d] = outcome[d]
  BY DEF TypeOK, Finish, Interrupt, Deliver
<1>3. CASE EndOfStream(c) \/ Reject(c)
  BY <1>1, <1>2, <1>3 DEF TypeOK, Proven, EndOfStream, Reject, TryFallback, Handoff, ToHandoff
<1>4. CASE Start(c) \/ Created(c) \/ Token(c) \/ TimerFires(c) \/ Abort(c) \/ Store(c)
  BY <1>1, <1>4 DEF TypeOK, Proven, Start, Created, Token, TimerFires, Abort, Store
<1>5. QED BY <1>3, <1>4

LEMMA ProvenanceStep == TypeOK /\ Staged /\ Provenance /\ [Next]_vars => Provenance'
<1> SUFFICES ASSUME TypeOK, Staged, Provenance, [Next]_vars PROVE Provenance'
  OBVIOUS
<1>1. ASSUME NEW c \in Calls,
             \/ Start(c) \/ Created(c) \/ Token(c) \/ EndOfStream(c) \/ Reject(c)
             \/ TimerFires(c) \/ Abort(c) \/ Store(c)
      PROVE  Proven(c)'
  <2>1. Proven(c) /\ received[c] \in Tokens
    BY DEF Provenance, TypeOK, Tokens
  <2>2. CASE Start(c) \/ Created(c) \/ TimerFires(c) \/ Abort(c) \/ Store(c)
    BY <2>1, <2>2 DEF TypeOK, Proven, Start, Created, TimerFires, Abort, Store, InClient
  <2>3. CASE Token(c)
    <3>1. attempt[c] \in Models
      BY <2>3 DEF Staged, InClient, Token
    <3>2. /\ received'[c] = Append(received[c], attempt[c])
          /\ attempt'[c] = attempt[c] /\ at'[c] = "next" /\ at[c] = "next"
          /\ outcome'[c] = outcome[c]
      BY <2>3 DEF TypeOK, Token
    <3>3. QED BY <2>1, <3>1, <3>2, OrderedAppend DEF Proven
  <2>4. ASSUME NEW tokens \in Tokens, NEW model \in Models, Finish(c, tokens, model)
        PROVE  \/ /\ at'[c] = "ended" /\ outcome'[c] = "interrupted"
                  /\ received'[c] = received[c]
               \/ /\ at'[c] = "store" /\ outcome'[c] = outcome[c]
                  /\ received'[c] = received[c] \o tokens /\ modelUsed'[c] = model
    BY <2>4 DEF TypeOK, Finish, Interrupt, Deliver
  <2>5. CASE EndOfStream(c)
    <3>1. attempt[c] \in Models /\ at[c] = "next" /\ attempt'[c] = attempt[c]
      BY <2>5 DEF Staged, InClient, EndOfStream
    <3>2. <<>> \in Tokens /\ received[c] \o <<>> = received[c]
      BY <2>1 DEF Tokens
    <3>3. QED
      BY <2>1, <2>4, <2>5, <3>1, <3>2 DEF Proven, EndOfStream, Told, Models
  <2>6. CASE Reject(c) /\ TryFallback(c)
    BY <2>1, <2>6 DEF TypeOK, Proven, Reject, TryFallback, InClient, Models
  <2>7. CASE Reject(c) /\ Handoff(c)
    <3>1. /\ attempt[c] = "fallback" /\ attempt'[c] = "handoff" /\ at[c] \in {"create", "next"}
          /\ Finish(c, <<"handoff">>, "fallback")
      BY <2>7 DEF TypeOK, Reject, Handoff, ToHandoff, InClient
    <3>2. <<"handoff">> \in Tokens /\ "fallback" \in Models /\ "handoff" \notin Models
      BY DEF Tokens, Models
    <3>3. NoHandoff(received[c]) /\ Ordered(received[c] \o <<"handoff">>)
      BY <2>1, <3>1, <3>2, OrderedHandoff DEF Proven
    <3>4. QED BY <2>1, <2>4, <3>1, <3>2, <3>3 DEF Proven, Told
  <2>8. QED BY <1>1, <2>2, <2>3, <2>5, <2>6, <2>7 DEF Reject
<1>2. CASE UNCHANGED vars
  BY <1>2 DEF vars, Provenance, Proven
<1>3. QED BY <1>1, <1>2, OthersKeepProvenance DEF Next, Provenance

\* Whatever fails and whenever timers fire: an answer that the audit log
\* ascribes to the primary model is all of the primary model, what the fallback
\* model said comes after what the primary one did, and the handoff message
\* ends an answer.
THEOREM ProvenanceIsRecorded == Spec => []AnswerProvenance
<1>1. Init => Provenance
  BY DEF Init, Provenance, Proven, Ordered, AllPrimary, NoHandoff
<1>2. TypeOK /\ Provenance => AnswerProvenance
  <2> SUFFICES ASSUME TypeOK, Provenance, NEW c \in Calls,
                      at[c] = "store" \/ outcome[c] = "answered"
               PROVE  /\ modelUsed[c] = "primary" =>
                           {i \in DOMAIN received[c] : received[c][i] = "primary"} = DOMAIN received[c]
                      /\ modelUsed[c] # "unknown"
                      /\ Ordered(received[c])
    BY DEF AnswerProvenance, Ordered
  <2>1. Proven(c)
    BY DEF Provenance
  <2>2. QED BY <2>1 DEF Proven, Told, AllPrimary
<1>3. QED BY <1>1, <1>2, ProvenanceStep, TypedAndStaged, PTL DEF Spec

-----------------------------------------------------------------------------
(***************************************************************************)
(* The contract with the pipeline.                                         *)
(***************************************************************************)
PhaseOf(step) ==
  IF step = "idle" THEN "before"
  ELSE IF step \in {"create", "next"} THEN "streaming"
  ELSE IF step = "store" THEN "answer" ELSE "over"

\* A call that goes on to 'step' takes its phase with it.
LEMMA PhaseFollows ==
  ASSUME TypeOK, NEW c \in Calls, NEW step, at' = [at EXCEPT ![c] = step]
  PROVE  Phase' = [Phase EXCEPT ![c] = PhaseOf(step)]
BY DEF TypeOK, Phase, PhaseOf, InClient

LEMMA PhaseIs ==
  ASSUME NEW c \in Calls
  PROVE  Phase[c] = PhaseOf(at[c])
BY DEF Phase, PhaseOf, InClient

\* What is added to an answer is counted.
LEMMA TakenFollows ==
  ASSUME TypeOK, NEW c \in Calls, NEW tokens \in Tokens,
         received' = [received EXCEPT ![c] = @ \o tokens]
  PROVE  Taken' = [Taken EXCEPT ![c] = @ + Len(tokens)]
<1>1. received[c] \in Tokens
  BY DEF TypeOK, Tokens
<1>2. Len(received[c] \o tokens) = Len(received[c]) + Len(tokens)
  BY <1>1 DEF Tokens
<1>3. QED BY <1>2 DEF TypeOK, Taken

\* The loop of the pipeline interrupts a call, or takes what is left.
LEMMA FinishRefines ==
  ASSUME TypeOK, NEW c \in Calls, NEW tokens \in Tokens, Len(tokens) \in {0, 1}, NEW model,
         InClient(c), Finish(c, tokens, model), UNCHANGED aborted
  PROVE  Llm!Finish(c) \/ Llm!GiveUp(c)
<1>1. Phase[c] = "streaming"
  BY DEF Phase, InClient
<1>2. CASE aborted[c]
  <2>1. at' = [at EXCEPT ![c] = "ended"] /\ received' = received
    BY <1>2 DEF Finish, Interrupt
  <2>2. PhaseOf("ended") = "over"
    BY DEF PhaseOf
  <2>3. Phase' = [Phase EXCEPT ![c] = "over"]
    BY <2>1, <2>2, PhaseFollows
  <2>4. Taken' = Taken
    BY <2>1 DEF Taken
  <2>5. QED BY <1>1, <1>2, <2>3, <2>4 DEF Llm!GiveUp
<1>3. CASE ~aborted[c]
  <2>1. at' = [at EXCEPT ![c] = "store"] /\ received' = [received EXCEPT ![c] = @ \o tokens]
    BY <1>3 DEF Finish, Deliver
  <2>2. Phase' = [Phase EXCEPT ![c] = "answer"] /\ Taken' = [Taken EXCEPT ![c] = @ + Len(tokens)]
    BY <2>1, PhaseFollows, TakenFollows DEF PhaseOf
  <2>3. QED BY <1>1, <1>3, <2>2 DEF Llm!Finish
<1>4. QED BY <1>2, <1>3

LEMMA NextRefinesLlm == TypeOK /\ Staged /\ [Next]_vars => [Llm!Next]_(Llm!vars)
<1> SUFFICES ASSUME TypeOK, Staged, [Next]_vars PROVE [Llm!Next]_(Llm!vars)
  OBVIOUS
<1>1. ASSUME NEW c \in Calls, Start(c)
      PROVE  Llm!Ask(c)
  <2>1. Phase' = [Phase EXCEPT ![c] = "streaming"] /\ Phase[c] = "before"
    BY <1>1, PhaseFollows, PhaseIs DEF Start, PhaseOf
  <2>2. QED BY <1>1, <2>1 DEF Start, Llm!Ask, Taken
<1>2. ASSUME NEW c \in Calls, Token(c)
      PROVE  Llm!Take(c)
  <2>1. received[c] \in Tokens /\ attempt[c] \in Models /\ <<attempt[c]>> \in Tokens
        /\ Len(<<attempt[c]>>) = 1
    BY <1>2 DEF TypeOK, Tokens, Staged, InClient, Token, Models
  <2>2. Append(received[c], attempt[c]) = received[c] \o <<attempt[c]>>
    BY <2>1 DEF Tokens
  <2>3. Taken' = [Taken EXCEPT ![c] = @ + 1]
    BY <1>2, <2>1, <2>2, TakenFollows DEF Token
  <2>4. Phase' = Phase /\ Phase[c] = "streaming"
    BY <1>2 DEF Token, Phase, InClient
  <2>5. QED BY <1>2, <2>3, <2>4 DEF Token, Signalled, Llm!Take
<1>3. ASSUME NEW c \in Calls, EndOfStream(c)
      PROVE  Llm!Finish(c) \/ Llm!GiveUp(c)
  <2>1. <<>> \in Tokens /\ Len(<<>>) = 0
    BY DEF Tokens
  <2>2. QED BY <1>3, <2>1, FinishRefines DEF EndOfStream, InClient
<1>4. ASSUME NEW c \in Calls, Reject(c), Handoff(c)
      PROVE  Llm!Finish(c) \/ Llm!GiveUp(c)
  <2>1. <<"handoff">> \in Tokens /\ Len(<<"handoff">>) = 1
    BY DEF Tokens
  <2>2. QED BY <1>4, <2>1, FinishRefines DEF Reject, Handoff
<1>5. ASSUME NEW c \in Calls, Created(c) \/ (Reject(c) /\ TryFallback(c)) \/ TimerFires(c)
      PROVE  UNCHANGED Llm!vars
  <2>1. \A d \in Calls : PhaseOf(at'[d]) = PhaseOf(at[d])
    BY <1>5 DEF TypeOK, Created, Reject, TryFallback, TimerFires, InClient, PhaseOf
  <2>2. Phase' = Phase
    BY <2>1 DEF Phase, PhaseOf, InClient
  <2>3. received' = received /\ aborted' = aborted
    BY <1>5 DEF Created, Reject, TryFallback, TimerFires
  <2>4. QED BY <2>2, <2>3 DEF Llm!vars, Taken
<1>6. ASSUME NEW c \in Calls, Abort(c)
      PROVE  Llm!Abort(c)
  BY <1>6 DEF Abort, Llm!Abort, Phase, InClient, Taken
<1>7. ASSUME NEW c \in Calls, Store(c)
      PROVE  Llm!Leave(c)
  <2>1. PhaseOf("ended") = "over" /\ PhaseOf("store") = "answer"
    BY DEF PhaseOf
  <2>2. Phase' = [Phase EXCEPT ![c] = "over"] /\ Phase[c] = "answer"
    BY <1>7, <2>1, PhaseFollows, PhaseIs DEF Store
  <2>3. QED BY <1>7, <2>2 DEF Store, Llm!Leave, Taken
<1>8. CASE UNCHANGED vars
  BY <1>8 DEF vars, Llm!vars, Phase, InClient, Taken
<1>9. QED
  BY <1>1, <1>2, <1>3, <1>4, <1>5, <1>6, <1>7, <1>8 DEF Next, Reject, Llm!Next

\* The production provider keeps the contract that the pipeline is written
\* against, and more: whichever models fail or time out, for any number of
\* overlapping calls, a stream whose caller is there finishes and never throws,
\* and one whose caller has gone is not taken for an answer.
THEOREM ImplementsLlmStream == Spec => LlmSpec
<1>1. Init => Llm!Init
  BY DEF Init, Llm!Init, Phase, InClient, Taken
<1>2. QED
  BY <1>1, NextRefinesLlm, TypedAndStaged, PTL DEF Spec, LlmSpec, Llm!Spec
=============================================================================
