-------------------------- MODULE KnowledgeProofs --------------------------
(***************************************************************************)
(* What a turn retrieves, for any entries, turns, texts and limits, however*)
(* mutations and queries interleave and whichever queries fail.            *)
(***************************************************************************)
EXTENDS Knowledge, FiniteSetTheorems, TLAPS

-----------------------------------------------------------------------------
\* Both strategies score a text between 0 and 100.
LEMMA ScoreBounded ==
  ASSUME NEW x \in Text, NEW strategy
  PROVE  Score(strategy, x) \in 0..100
<1>1. IlikeScore(x) \in 0..100
  BY DEF IlikeScore, Text
<1>2. TrgmScore(x) \in 0..100
  <2>1. /\ x.title \in 0..100 /\ x.content \in 0..100
        /\ x.inAliases \in BOOLEAN /\ x.inTags \in BOOLEAN
    BY DEF Text
  <2>2. (x.title * 120) \div 100 \in Nat
    BY <2>1
  <2>3. QED BY <2>1, <2>2 DEF TrgmScore, Larger, Smaller
<1>3. QED BY <1>1, <1>2 DEF Score

\* Bonuses do not take a score out of bounds.
LEMMA BoostedBounded ==
  ASSUME NEW x \in Text, NEW score \in 0..100
  PROVE  Boosted(x, score) \in 0..100
<1>1. x.titleTerms \in Nat /\ x.aliasTerms \in Nat
  BY DEF Text
<1>2. 5 * x.titleTerms \in Nat /\ 4 * x.aliasTerms \in Nat
  BY <1>1
<1>3. score + 5 * x.titleTerms + 4 * x.aliasTerms \in Nat
  BY <1>2
<1>4. QED BY <1>3 DEF Boosted, Smaller

\* An answer is a sequence of results, each of a selected entry.
LEMMA AnswersAreSelected ==
  ASSUME TypeOK, NEW t \in Turns, NEW answer \in Answers(t)
  PROVE  /\ answer \in Seq(Result)
         /\ \A i \in DOMAIN answer : answer[i].entry \in Selected(t)
<1>1. Selected(t) \subseteq DOMAIN entries /\ DOMAIN entries \subseteq Entries
  BY DEF Selected, TypeOK
<1>2. IsFiniteSet(Selected(t)) /\ Cardinality(Selected(t)) \in Nat
  BY <1>1, KnowledgeAssumption, FS_Subset, FS_CardinalityType
<1>3. query[t].limit \in Nat
  BY KnowledgeAssumption DEF TypeOK, Query
<1> DEFINE n == Smaller(query[t].limit, Cardinality(Selected(t)))
<1>4. n \in Nat /\ n <= Cardinality(Selected(t))
  BY <1>2, <1>3 DEF Smaller
<1>5. PICK ids \in SetToSeqs(Selected(t)) :
        answer = [k \in 1..n |-> Row(at[t].strategy, ids[k])]
  BY DEF Answers
<1>6. ids \in [1..Cardinality(Selected(t)) -> Selected(t)]
  BY DEF SetToSeqs
<1> HIDE DEF n
<1>7. ASSUME NEW i \in 1..n
      PROVE  answer[i] \in Result /\ answer[i].entry \in Selected(t)
  <2>1. ids[i] \in Selected(t)
    BY <1>2, <1>4, <1>6
  <2>2. entries[ids[i]] \in Entry
    BY <1>1, <2>1 DEF TypeOK
  <2>3. entries[ids[i]].text \in Texts /\ entries[ids[i]].language \in Languages
    BY <2>2 DEF Entry
  <2>4. Score(at[t].strategy, entries[ids[i]].text) \in 0..100
    BY <2>3, ScoreBounded, KnowledgeAssumption
  <2>5. answer[i] = Row(at[t].strategy, ids[i])
    BY <1>5
  <2>6. QED BY <1>1, <2>1, <2>3, <2>4, <2>5 DEF Row, Result
<1>8. DOMAIN answer = 1..n
  BY <1>5
<1>9. answer \in [1..n -> Result]
  BY <1>5, <1>7, <1>8
<1>10. QED BY <1>4, <1>7, <1>8, <1>9

\* Ranking again keeps the results well typed and adds no entry.
LEMMA RerankAddsNothing ==
  ASSUME NEW terms, NEW answer \in Seq(Result), NEW found \in Rerank(terms, answer)
  PROVE  /\ found \in Seq(Result)
         /\ \A i \in DOMAIN found : \E j \in DOMAIN answer : found[i].entry = answer[j].entry
<1>1. CASE terms < 2
  BY <1>1 DEF Rerank
<1>2. CASE ~(terms < 2)
  <2>1. PICK order \in [DOMAIN BoostAll(answer) -> DOMAIN BoostAll(answer)] :
          found = [k \in DOMAIN BoostAll(answer) |-> BoostAll(answer)[order[k]]]
    BY <1>2 DEF Rerank, Sorted
  <2>2. DOMAIN BoostAll(answer) = DOMAIN answer
    BY DEF BoostAll
  <2>3. ASSUME NEW j \in DOMAIN answer
        PROVE  BoostAll(answer)[j] \in Result /\ BoostAll(answer)[j].entry = answer[j].entry
    <3>1. answer[j] \in Result
      OBVIOUS
    <3>2. answer[j].text \in Text /\ answer[j].score \in 0..100
      BY <3>1, KnowledgeAssumption DEF Result
    <3>3. Boosted(answer[j].text, answer[j].score) \in 0..100
      BY <3>2, BoostedBounded
    <3>4. QED BY <3>1, <3>3 DEF BoostAll, Result
  <2>4. ASSUME NEW i \in DOMAIN answer
        PROVE  order[i] \in DOMAIN answer /\ found[i] = BoostAll(answer)[order[i]]
    BY <2>1, <2>2
  <2>5. DOMAIN found = DOMAIN answer /\ DOMAIN answer = 1..Len(answer) /\ Len(answer) \in Nat
    BY <2>1, <2>2
  <2>6. \A i \in DOMAIN answer : found[i] \in Result /\ found[i].entry = answer[order[i]].entry
    BY <2>3, <2>4
  <2>7. found \in [1..Len(answer) -> Result]
    BY <2>1, <2>2, <2>5, <2>6
  <2>8. found \in Seq(Result)
    BY <2>5, <2>7
  <2>9. \A i \in DOMAIN found : \E j \in DOMAIN answer : found[i].entry = answer[j].entry
    BY <2>4, <2>5, <2>6
  <2>10. QED BY <2>8, <2>9
<1>3. QED BY <1>1, <1>2

-----------------------------------------------------------------------------
\* Each administrator's action is a mutation to an entry that is still deleted
\* if it was.
LEMMA AdminMutates ==
  ASSUME TypeOK, NEW e \in Entries, Create(e) \/ Update(e) \/ SoftDelete(e)
  PROVE  \E entry \in Entry :
           /\ Mutate(e, entry)
           /\ e \in DOMAIN entries /\ entries[e].deleted => entry.deleted
<1>1. CASE Create(e)
  <2>1. PICK language \in Languages, text \in Texts :
          Mutate(e, [status |-> "draft", visibility |-> "private",
                     deleted |-> FALSE, language |-> language, text |-> text, updatedAt |-> 0])
    BY <1>1 DEF Create
  <2>2. [status |-> "draft", visibility |-> "private", deleted |-> FALSE,
         language |-> language, text |-> text, updatedAt |-> 0] \in Entry
    BY KnowledgeAssumption DEF Entry, Visibilities
  <2>3. e \notin DOMAIN entries
    BY <1>1 DEF Create
  <2>4. QED BY <2>1, <2>2, <2>3
<1>2. CASE Update(e)
  <2>1. e \in DOMAIN entries /\ entries[e] \in Entry
    BY <1>2 DEF Update, TypeOK
  <2>2. PICK status \in Statuses, visibility \in Visibilities,
             language \in Languages, text \in Texts :
          Mutate(e, [entries[e] EXCEPT !.status = status, !.visibility = visibility,
                                       !.language = language, !.text = text])
    BY <1>2 DEF Update
  <2> DEFINE entry == [entries[e] EXCEPT !.status = status, !.visibility = visibility,
                                         !.language = language, !.text = text]
  <2>3. entry \in Entry /\ entry.deleted = entries[e].deleted
    BY <2>1 DEF Entry
  <2>4. QED BY <2>2, <2>3
<1>3. CASE SoftDelete(e)
  <2>1. e \in DOMAIN entries /\ entries[e] \in Entry
    BY <1>3 DEF SoftDelete, TypeOK
  <2> DEFINE entry == [entries[e] EXCEPT !.deleted = TRUE]
  <2>2. entry \in Entry /\ entry.deleted
    BY <2>1 DEF Entry
  <2>3. QED BY <1>3, <2>2 DEF SoftDelete
<1>4. QED BY <1>1, <1>2, <1>3

\* What a mutation does to the table.
LEMMA MutateTable ==
  ASSUME TypeOK, NEW e \in Entries, NEW entry \in Entry, Mutate(e, entry)
  PROVE  /\ DOMAIN entries' = DOMAIN entries \cup {e}
         /\ entries'[e] \in Entry /\ entries'[e].deleted = entry.deleted
         /\ \A id \in DOMAIN entries : id # e => entries'[id] = entries[id]
         /\ entries' \in [DOMAIN entries' -> Entry]
<1>1. entries' = [id \in DOMAIN entries \cup {e} |->
                    IF id = e THEN [entry EXCEPT !.updatedAt = clock + 1] ELSE entries[id]]
  BY DEF Mutate
<1>2. [entry EXCEPT !.updatedAt = clock + 1] \in Entry
      /\ [entry EXCEPT !.updatedAt = clock + 1].deleted = entry.deleted
  <2>1. clock + 1 \in Nat
    BY KnowledgeAssumption DEF TypeOK
  <2>2. QED BY <2>1 DEF Entry
<1>3. entries \in [DOMAIN entries -> Entry]
  BY DEF TypeOK
<1>4. QED BY <1>1, <1>2, <1>3

LEMMA MutateTyped ==
  ASSUME TypeOK, NEW e \in Entries, NEW entry \in Entry, Mutate(e, entry)
  PROVE  TypeOK'
<1>1. DOMAIN entries' \subseteq Entries /\ entries' \in [DOMAIN entries' -> Entry]
  BY MutateTable DEF TypeOK
<1>2. clock' \in 0..MaxMutations
  BY KnowledgeAssumption DEF TypeOK, Mutate
<1>3. {published', untouched', gone'} \subseteq [Turns -> SUBSET Entries]
  <2>1. published \in [Turns -> SUBSET Entries] /\ untouched \in [Turns -> SUBSET Entries]
        /\ gone \in [Turns -> SUBSET Entries]
    BY DEF TypeOK
  <2>2. published' \in [Turns -> SUBSET Entries]
    BY <2>1 DEF Mutate
  <2>3. untouched' \in [Turns -> SUBSET Entries]
    BY <2>1 DEF Mutate
  <2>4. QED BY <2>1, <2>2, <2>3 DEF Mutate
<1>4. QED BY <1>1, <1>2, <1>3 DEF TypeOK, Mutate, turnVars

\* A query's answer that ends a retrieval.
LEMMA FoundTyped ==
  ASSUME TypeOK, NEW t \in Turns, NEW answer \in Answers(t),
         NEW found \in Rerank(query[t].terms, answer)
  PROVE  /\ found \in Seq(Result)
         /\ \A i \in DOMAIN found : found[i].entry \in Selected(t)
<1>1. /\ answer \in Seq(Result)
      /\ \A i \in DOMAIN answer : answer[i].entry \in Selected(t)
  BY AnswersAreSelected
<1>2. QED BY <1>1, RerankAddsNothing

LEMMA AnswerTyped ==
  ASSUME TypeOK, NEW t \in Turns, Answer(t)
  PROVE  TypeOK'
<1>1. UNCHANGED <<entries, clock, trgmEnabled, query, published, untouched, gone>>
  BY DEF Answer
<1>2. CASE Selected(t) = {} /\ at[t].pass = "same"
  <2>1. /\ at' = [at EXCEPT ![t] = [pass |-> "cross", strategy |-> Strategy]]
        /\ UNCHANGED <<pc, results, flagged, confidence>>
    BY <1>2 DEF Answer
  <2>2. at' \in [Turns -> [pass: {"same", "cross"}, strategy: {"trgm", "ilike"}]]
    BY <2>1 DEF TypeOK, Strategy
  <2>3. QED BY <1>1, <2>1, <2>2 DEF TypeOK
<1>3. CASE ~(Selected(t) = {} /\ at[t].pass = "same")
  <2>0. PICK answer \in Answers(t) : \E found \in Rerank(query[t].terms, answer) :
          /\ results' = [results EXCEPT ![t] = found]
          /\ flagged' = [flagged EXCEPT ![t] = found # <<>> /\ at[t].pass = "cross"]
          /\ Evaluate(t, found)
          /\ UNCHANGED at
    BY <1>3 DEF Answer
  <2>1. PICK found \in Rerank(query[t].terms, answer) :
          /\ results' = [results EXCEPT ![t] = found]
          /\ flagged' = [flagged EXCEPT ![t] = found # <<>> /\ at[t].pass = "cross"]
          /\ Evaluate(t, found)
          /\ UNCHANGED at
    BY <2>0
  <2>2. found \in Seq(Result)
    BY FoundTyped
  <2>3. results' \in [Turns -> Seq(Result)]
    BY <2>1, <2>2 DEF TypeOK
  <2>4. flagged' \in [Turns -> BOOLEAN]
    BY <2>1 DEF TypeOK
  <2>5. pc' \in [Turns -> {"idle", "querying", "failed"} \cup Retrieved]
    BY <2>1 DEF TypeOK, Evaluate, Retrieved
  <2>6. confidence' \in [Turns -> {"none", "low", "high"}]
    BY <2>1 DEF TypeOK, Evaluate
  <2>7. QED BY <1>1, <2>1, <2>3, <2>4, <2>5, <2>6 DEF TypeOK
<1>4. QED BY <1>2, <1>3

LEMMA InitTyped == Init => TypeOK
<1> SUFFICES ASSUME Init PROVE TypeOK
  OBVIOUS
<1>1. PICK ids \in SUBSET Entries : entries \in [ids -> Seeds]
  BY DEF Init
<1>2. Seeds \subseteq Entry
  <2>1. SUFFICES ASSUME NEW seed \in Seeds PROVE seed \in Entry
    OBVIOUS
  <2>2. PICK language \in Languages, text \in Texts :
          seed = [status |-> "approved", visibility |-> "public", deleted |-> FALSE,
                  language |-> language, text |-> text, updatedAt |-> 0]
    BY <2>1 DEF Seeds
  <2>3. "approved" \in Statuses
    BY KnowledgeAssumption
  <2>4. QED BY <2>2, <2>3 DEF Entry, Visibilities
<1>3. DOMAIN entries \subseteq Entries /\ entries \in [DOMAIN entries -> Entry]
  BY <1>1, <1>2
<1>4. (CHOOSE asked \in Query : TRUE) \in Query
  <2>1. PICK language \in Languages, terms \in Terms, limit \in Limits : TRUE
    BY KnowledgeAssumption
  <2>2. [language |-> language, terms |-> terms, intent |-> TRUE, limit |-> limit] \in Query
    BY DEF Query
  <2>3. QED BY <2>2
<1>5. query \in [Turns -> Query]
  BY <1>4 DEF Init
<1>6. clock \in 0..MaxMutations /\ trgmEnabled \in BOOLEAN
  BY KnowledgeAssumption DEF Init
<1>7. results \in [Turns -> Seq(Result)]
  BY DEF Init
<1>8. {published, untouched, gone} \subseteq [Turns -> SUBSET Entries]
  BY DEF Init
<1>9. QED BY <1>3, <1>5, <1>6, <1>7, <1>8 DEF Init, TypeOK, Retrieved

LEMMA StepTyped == TypeOK /\ [Next]_vars => TypeOK'
<1> SUFFICES ASSUME TypeOK, [Next]_vars PROVE TypeOK'
  OBVIOUS
<1>1. ASSUME NEW e \in Entries, Create(e) \/ Update(e) \/ SoftDelete(e)
      PROVE  TypeOK'
  <2>1. PICK entry \in Entry : Mutate(e, entry)
    BY <1>1, AdminMutates
  <2>2. QED BY <2>1, MutateTyped
<1>2. ASSUME NEW t \in Turns, Retrieve(t)
      PROVE  TypeOK'
  <2>1. UNCHANGED <<entries, clock, trgmEnabled, results, flagged, confidence>>
    BY <1>2 DEF Retrieve
  <2>2. pc' \in [Turns -> {"idle", "querying", "failed"} \cup Retrieved]
    BY <1>2 DEF Retrieve, TypeOK
  <2>3. at' \in [Turns -> [pass: {"same", "cross"}, strategy: {"trgm", "ilike"}]]
    BY <1>2 DEF Retrieve, TypeOK, Strategy
  <2>4. query' \in [Turns -> Query]
    BY <1>2 DEF Retrieve, TypeOK
  <2>5. published' \in [Turns -> SUBSET Entries]
    BY <1>2 DEF Retrieve, TypeOK
  <2>6. untouched' \in [Turns -> SUBSET Entries]
    BY <1>2 DEF Retrieve, TypeOK
  <2>7. gone' \in [Turns -> SUBSET Entries]
    BY <1>2 DEF Retrieve, TypeOK
  <2>8. QED BY <2>1, <2>2, <2>3, <2>4, <2>5, <2>6, <2>7 DEF TypeOK
<1>3. ASSUME NEW t \in Turns, RetrieveBlank(t)
      PROVE  TypeOK'
  BY <1>3 DEF RetrieveBlank, TypeOK, Retrieved
<1>4. ASSUME NEW t \in Turns, Answer(t)
      PROVE  TypeOK'
  BY <1>4, AnswerTyped
<1>5. ASSUME NEW t \in Turns, Fail(t)
      PROVE  TypeOK'
  <2>1. pc' \in [Turns -> {"idle", "querying", "failed"} \cup Retrieved]
    BY <1>5 DEF Fail, TypeOK
  <2>2. at' \in [Turns -> [pass: {"same", "cross"}, strategy: {"trgm", "ilike"}]]
    <3>1. at \in [Turns -> [pass: {"same", "cross"}, strategy: {"trgm", "ilike"}]]
      BY DEF TypeOK
    <3>2. [at[t] EXCEPT !.strategy = "ilike"] \in [pass: {"same", "cross"}, strategy: {"trgm", "ilike"}]
      BY <3>1
    <3>3. at' = at \/ at' = [at EXCEPT ![t] = [at[t] EXCEPT !.strategy = "ilike"]]
      BY <1>5 DEF Fail
    <3>4. QED BY <3>1, <3>2, <3>3
  <2>3. QED BY <1>5, <2>1, <2>2 DEF Fail, TypeOK
<1>6. CASE UNCHANGED vars
  BY <1>6 DEF vars, turnVars, TypeOK
<1>7. QED BY <1>1, <1>2, <1>3, <1>4, <1>5, <1>6 DEF Next

\* Whatever texts, statuses and limits there are, a turn's results are entries
\* with scores between 0 and 1: no sum of bonuses leaves the scale on which
\* the thresholds of step 7 judge the answer.
THEOREM TypeCorrect == Spec => []TypeOK
<1>1. QED BY InitTyped, StepTyped, PTL DEF Spec

-----------------------------------------------------------------------------
\* A turn has no results until its retrieval ends.
EmptyBefore == \A t \in Turns : pc[t] \in {"idle", "querying"} => results[t] = <<>>

\* A turn that awaits a query has seen every retrievable entry be published.
PublishedIsCurrent ==
  \A t \in Turns : pc[t] = "querying" =>
    \A e \in DOMAIN entries : Retrievable(entries[e]) => e \in published[t]

\* What was deleted when a turn began is still deleted.
GoneIsDeleted ==
  \A t \in Turns : \A e \in gone[t] : e \in DOMAIN entries /\ entries[e].deleted

IInv ==
  /\ TypeOK /\ EmptyBefore /\ PublishedIsCurrent /\ GoneIsDeleted
  /\ OnlyPublished /\ DeletedIsFinal

LEMMA InitInv == Init => IInv
<1> SUFFICES ASSUME Init PROVE IInv
  OBVIOUS
<1>1. \A t \in Turns : pc[t] = "idle" /\ results[t] = <<>> /\ gone[t] = {}
  BY DEF Init
<1>2. \A t \in Turns : Found(t) = {}
  BY <1>1 DEF Found
<1>3. QED
  BY <1>1, <1>2, InitTyped
  DEF IInv, EmptyBefore, PublishedIsCurrent, GoneIsDeleted, OnlyPublished, DeletedIsFinal

LEMMA MutateInv ==
  ASSUME IInv, TypeOK', NEW e \in Entries, NEW entry \in Entry, Mutate(e, entry),
         e \in DOMAIN entries /\ entries[e].deleted => entry.deleted
  PROVE  IInv'
<1>1. /\ DOMAIN entries' = DOMAIN entries \cup {e}
      /\ entries'[e].deleted = entry.deleted
      /\ \A id \in DOMAIN entries : id # e => entries'[id] = entries[id]
  BY MutateTable DEF IInv
<1>2. UNCHANGED <<pc, results, gone>>
  BY DEF Mutate, turnVars
<1>3. \A t \in Turns :
        published'[t] = IF Retrievable(entries'[e]) /\ pc[t] # "idle"
                        THEN published[t] \cup {e} ELSE published[t]
  BY DEF Mutate
<1>4. \A t \in Turns : Found(t)' = Found(t)
  BY <1>2 DEF Found
<1>5. EmptyBefore'
  BY <1>2 DEF IInv, EmptyBefore
<1>6. PublishedIsCurrent'
  BY <1>1, <1>2, <1>3 DEF IInv, PublishedIsCurrent
<1>7. GoneIsDeleted'
  <2>1. SUFFICES ASSUME NEW t \in Turns, NEW id \in gone'[t]
                 PROVE  id \in DOMAIN entries' /\ entries'[id].deleted
    BY DEF GoneIsDeleted
  <2>2. id \in DOMAIN entries /\ entries[id].deleted
    BY <1>2, <2>1 DEF IInv, GoneIsDeleted
  <2>3. CASE id = e
    BY <1>1, <2>2, <2>3
  <2>4. CASE id # e
    BY <1>1, <2>2, <2>4
  <2>5. QED BY <2>3, <2>4
<1>8. OnlyPublished'
  BY <1>3, <1>4 DEF IInv, OnlyPublished
<1>9. DeletedIsFinal'
  BY <1>2, <1>4 DEF IInv, DeletedIsFinal
<1>10. QED BY <1>5, <1>6, <1>7, <1>8, <1>9 DEF IInv

LEMMA RetrieveInv ==
  ASSUME IInv, TypeOK', NEW t \in Turns, Retrieve(t)
  PROVE  IInv'
<1>1. /\ DOMAIN pc = Turns /\ DOMAIN published = Turns /\ DOMAIN gone = Turns
      /\ pc[t] = "idle" /\ UNCHANGED <<entries, results>>
  BY DEF IInv, TypeOK, Retrieve
<1>2. /\ pc' = [pc EXCEPT ![t] = "querying"]
      /\ published' = [published EXCEPT ![t] = {e \in DOMAIN entries : Retrievable(entries[e])}]
      /\ gone' = [gone EXCEPT ![t] = {e \in DOMAIN entries : entries[e].deleted}]
  BY DEF Retrieve
<1>3. \A u \in Turns : Found(u)' = Found(u)
  BY <1>1 DEF Found
<1>4. results[t] = <<>> /\ Found(t) = {}
  BY <1>1 DEF IInv, EmptyBefore, Found
<1>5. EmptyBefore'
  BY <1>1, <1>2, <1>4 DEF IInv, EmptyBefore
<1>6. PublishedIsCurrent'
  BY <1>1, <1>2 DEF IInv, PublishedIsCurrent
<1>7. GoneIsDeleted'
  BY <1>1, <1>2 DEF IInv, GoneIsDeleted
<1>8. OnlyPublished'
  BY <1>1, <1>2, <1>3, <1>4 DEF IInv, OnlyPublished
<1>9. DeletedIsFinal'
  BY <1>1, <1>2, <1>3, <1>4 DEF IInv, DeletedIsFinal
<1>10. QED BY <1>5, <1>6, <1>7, <1>8, <1>9 DEF IInv

\* A step that leaves table, results and records alone and starts no turn.
LEMMA ControlInv ==
  ASSUME IInv, TypeOK', UNCHANGED <<entries, results, published, gone>>,
         \A t \in Turns : pc'[t] \in {"idle", "querying"} => pc'[t] = pc[t]
  PROVE  IInv'
<1>1. \A t \in Turns : Found(t)' = Found(t)
  BY DEF Found
<1>2. QED
  BY <1>1
  DEF IInv, EmptyBefore, PublishedIsCurrent, GoneIsDeleted, OnlyPublished, DeletedIsFinal

LEMMA AnswerInv ==
  ASSUME IInv, TypeOK', NEW t \in Turns, Answer(t)
  PROVE  IInv'
<1>1. /\ pc[t] = "querying" /\ UNCHANGED <<entries, published, gone>>
      /\ DOMAIN pc = Turns /\ DOMAIN results = Turns
  BY DEF Answer, IInv, TypeOK
<1>2. CASE Selected(t) = {} /\ at[t].pass = "same"
  <2>1. UNCHANGED <<pc, results>>
    BY <1>2 DEF Answer
  <2>2. QED BY <1>1, <2>1, ControlInv
<1>3. CASE ~(Selected(t) = {} /\ at[t].pass = "same")
  <2>1. PICK answer \in Answers(t) : \E found \in Rerank(query[t].terms, answer) :
          results' = [results EXCEPT ![t] = found] /\ Evaluate(t, found)
    BY <1>3 DEF Answer
  <2>2. PICK found \in Rerank(query[t].terms, answer) :
          results' = [results EXCEPT ![t] = found] /\ Evaluate(t, found)
    BY <2>1
  <2>3. \A i \in DOMAIN found : found[i].entry \in Selected(t)
    BY FoundTyped DEF IInv
  <2>4. Found(t)' \subseteq Selected(t) /\ \A u \in Turns \ {t} : Found(u)' = Found(u)
    BY <1>1, <2>2, <2>3 DEF Found
  <2>5. \A e \in Selected(t) : e \in DOMAIN entries /\ Retrievable(entries[e])
    BY DEF Selected
  <2>6. Selected(t) \subseteq published[t] /\ Selected(t) \cap gone[t] = {}
    BY <1>1, <2>5 DEF IInv, PublishedIsCurrent, GoneIsDeleted, Retrievable
  <2>7. /\ pc'[t] \in {"prompted", "noHits"}
        /\ \A u \in Turns \ {t} : pc'[u] = pc[u] /\ results'[u] = results[u]
    BY <1>1, <2>2 DEF Evaluate
  <2>8. EmptyBefore'
    BY <2>7 DEF IInv, EmptyBefore
  <2>9. PublishedIsCurrent' /\ GoneIsDeleted'
    BY <1>1, <2>7 DEF IInv, PublishedIsCurrent, GoneIsDeleted
  <2>10. OnlyPublished' /\ DeletedIsFinal'
    BY <1>1, <2>4, <2>6 DEF IInv, OnlyPublished, DeletedIsFinal
  <2>11. QED BY <2>8, <2>9, <2>10 DEF IInv
<1>4. QED BY <1>2, <1>3

LEMMA StepInv == IInv /\ [Next]_vars => IInv'
<1> SUFFICES ASSUME IInv, [Next]_vars PROVE IInv'
  OBVIOUS
<1>1. TypeOK'
  BY StepTyped DEF IInv
<1>2. ASSUME NEW e \in Entries, Create(e) \/ Update(e) \/ SoftDelete(e)
      PROVE  IInv'
  <2>1. PICK entry \in Entry :
          Mutate(e, entry) /\ (e \in DOMAIN entries /\ entries[e].deleted => entry.deleted)
    BY <1>2, AdminMutates DEF IInv
  <2>2. QED BY <1>1, <2>1, MutateInv
<1>3. ASSUME NEW t \in Turns, Retrieve(t)
      PROVE  IInv'
  BY <1>1, <1>3, RetrieveInv
<1>4. ASSUME NEW t \in Turns, RetrieveBlank(t) \/ Fail(t)
      PROVE  IInv'
  <2>1. \A u \in Turns : pc'[u] \in {"idle", "querying"} => pc'[u] = pc[u]
    BY <1>4 DEF IInv, TypeOK, RetrieveBlank, Fail
  <2>2. UNCHANGED <<entries, results, published, gone>>
    BY <1>4 DEF RetrieveBlank, Fail
  <2>3. QED BY <1>1, <2>1, <2>2, ControlInv
<1>5. ASSUME NEW t \in Turns, Answer(t)
      PROVE  IInv'
  BY <1>1, <1>5, AnswerInv
<1>6. CASE UNCHANGED vars
  BY <1>1, <1>6, ControlInv DEF vars, turnVars
<1>7. QED BY <1>2, <1>3, <1>4, <1>5, <1>6 DEF Next

\* A turn is shown no entry that was not approved, public and not deleted at
\* some time since its retrieval began, through whichever of the up to four
\* queries of retrieve() it came.
THEOREM OnlyPublishedAlways == Spec => []OnlyPublished
<1>1. IInv => OnlyPublished
  BY DEF IInv
<1>2. QED BY <1>1, InitInv, StepInv, PTL DEF Spec

\* A turn that begins after the deletion of an entry is never shown it, as no
\* administrator's request clears deletedAt.
THEOREM DeletedStaysOut == Spec => []DeletedIsFinal
<1>1. IInv => DeletedIsFinal
  BY DEF IInv
<1>2. QED BY <1>1, InitInv, StepInv, PTL DEF Spec

-----------------------------------------------------------------------------
(***************************************************************************)
(* The order of the results, and what the limit leaves out.                *)
(***************************************************************************)
Ranked(found) ==
  \A i, j \in DOMAIN found :
    i < j => found[i].score >= found[j].score /\ found[i].entry # found[j].entry
Lists(found, e) == \E i \in DOMAIN found : found[i].entry = e

\* An entry is found, or the limit is reached with entries as good.
Covers(t, found, e) ==
  \/ Lists(found, e)
  \/ /\ Len(found) = query[t].limit
     /\ \A i \in DOMAIN found : found[i].base >= Score(at[t].strategy, entries[e].text)

\* A one-to-one sequence of as many elements as S has leaves none of S out.
LEMMA OneToOneIsOnto ==
  ASSUME NEW S, IsFiniteSet(S), NEW n \in Nat, n = Cardinality(S), NEW f \in [1..n -> S],
         \A i, j \in 1..n : i # j => f[i] # f[j]
  PROVE  \A x \in S : \E i \in 1..n : f[i] = x
<1>1. IsFiniteSet(1..n) /\ Cardinality(1..n) = n
  BY FS_Interval
<1>2. f \in Injection(1..n, S)
  BY DEF Injection, IsInjective
<1>3. f \in Surjection(1..n, S)
  BY <1>1, <1>2, FS_Injection
<1>4. QED BY <1>3 DEF Surjection

LEMMA PermutationIsOnto ==
  ASSUME NEW n \in Nat, NEW f \in [1..n -> 1..n], \A i, j \in 1..n : i # j => f[i] # f[j]
  PROVE  \A k \in 1..n : \E i \in 1..n : f[i] = k
<1>1. IsFiniteSet(1..n) /\ Cardinality(1..n) = n
  BY FS_Interval
<1>2. f \in Injection(1..n, 1..n)
  BY DEF Injection, IsInjective
<1>3. f \in Surjection(1..n, 1..n)
  BY <1>1, <1>2, FS_Injection
<1>4. QED BY <1>3 DEF Surjection

\* The answer of a query is in order, and whatever it leaves out is not better.
LEMMA AnswersAreBest ==
  ASSUME TypeOK, NEW t \in Turns, NEW answer \in Answers(t)
  PROVE  Ranked(answer) /\ \A e \in Selected(t) : Covers(t, answer, e)
<1> DEFINE S == Selected(t)
           n == Smaller(query[t].limit, Cardinality(S))
           score(e) == Score(at[t].strategy, entries[e].text)
<1>1. S \subseteq DOMAIN entries /\ DOMAIN entries \subseteq Entries
  BY DEF Selected, TypeOK
<1>2. IsFiniteSet(S) /\ Cardinality(S) \in Nat
  BY <1>1, KnowledgeAssumption, FS_Subset, FS_CardinalityType
<1>3. query[t].limit \in Nat
  BY KnowledgeAssumption DEF TypeOK, Query
<1>4. n \in Nat /\ n <= Cardinality(S) /\ (n = Cardinality(S) \/ n = query[t].limit)
  BY <1>2, <1>3 DEF Smaller
<1>5. PICK ids \in SetToSeqs(S) :
        /\ \A i, j \in DOMAIN ids : i < j => InOrder(at[t].strategy, ids[i], ids[j])
        /\ answer = [k \in 1..n |-> Row(at[t].strategy, ids[k])]
  BY DEF Answers
<1>6. /\ ids \in [1..Cardinality(S) -> S]
      /\ \A i, j \in 1..Cardinality(S) : i # j => ids[i] # ids[j]
  BY DEF SetToSeqs
<1> HIDE DEF n, S
<1>7. \A e \in S : score(e) \in 0..100
  <2> SUFFICES ASSUME NEW e \in S PROVE score(e) \in 0..100
    OBVIOUS
  <2>1. entries[e] \in Entry
    BY <1>1 DEF TypeOK
  <2>2. entries[e].text \in Text
    BY <2>1, KnowledgeAssumption DEF Entry
  <2>3. QED BY <2>2, ScoreBounded
<1>8. \A i, j \in 1..Cardinality(S) : i < j => score(ids[i]) >= score(ids[j])
  <2> SUFFICES ASSUME NEW i \in 1..Cardinality(S), NEW j \in 1..Cardinality(S), i < j
               PROVE  score(ids[i]) >= score(ids[j])
    OBVIOUS
  <2>1. ids[i] \in S /\ ids[j] \in S /\ InOrder(at[t].strategy, ids[i], ids[j])
    BY <1>5, <1>6
  <2>2. score(ids[i]) \in 0..100 /\ score(ids[j]) \in 0..100
    BY <1>7, <2>1
  <2>3. score(ids[i]) > score(ids[j]) \/ score(ids[i]) = score(ids[j])
    BY <2>1 DEF InOrder
  <2> HIDE DEF score
  <2>4. QED BY <2>2, <2>3
<1>9. /\ DOMAIN answer = 1..n /\ Len(answer) = n
      /\ \A i \in 1..n : /\ answer[i].entry = ids[i]
                         /\ answer[i].score = score(ids[i]) /\ answer[i].base = score(ids[i])
  <2>1. DOMAIN answer = 1..n /\ \A i \in 1..n : answer[i] = Row(at[t].strategy, ids[i])
    BY <1>5
  <2>2. answer \in Seq(Result)
    BY AnswersAreSelected
  <2>3. Len(answer) = n
    BY <1>4, <2>1, <2>2
  <2>4. QED BY <2>1, <2>3 DEF Row
<1>10. \A i \in 1..n : i \in 1..Cardinality(S)
  BY <1>2, <1>4
<1>11. Ranked(answer)
  <2> HIDE DEF score
  <2>1. QED BY <1>6, <1>8, <1>9, <1>10 DEF Ranked
<1>12. ASSUME NEW e \in S PROVE Covers(t, answer, e)
  <2>1. PICK k \in 1..Cardinality(S) : ids[k] = e
    BY <1>2, <1>6, OneToOneIsOnto
  <2>2. CASE k \in 1..n
    BY <1>9, <2>1, <2>2 DEF Covers, Lists
  <2>3. CASE k \notin 1..n
    <3>1. n < k /\ n = query[t].limit
      BY <1>2, <1>4, <2>3
    <3>2. \A i \in 1..n : answer[i].base >= score(e)
      <4> SUFFICES ASSUME NEW i \in 1..n PROVE answer[i].base >= score(e)
        OBVIOUS
      <4>1. i < k
        BY <1>4, <3>1
      <4>2. score(ids[i]) >= score(ids[k])
        BY <1>8, <1>10, <4>1
      <4>3. QED BY <1>9, <2>1, <4>2
    <3>3. QED BY <1>9, <3>1, <3>2 DEF Covers
  <2>4. QED BY <2>2, <2>3
<1>13. QED BY <1>11, <1>12 DEF S

\* Ranking again orders by the boosted scores and loses nothing.
LEMMA RerankKeepsAll ==
  ASSUME NEW terms, NEW answer \in Seq(Result), Ranked(answer), NEW found \in Rerank(terms, answer)
  PROVE  /\ Ranked(found) /\ Len(found) = Len(answer)
         /\ \A i \in DOMAIN found : \E j \in DOMAIN answer : found[i].base = answer[j].base
         /\ \A e : Lists(answer, e) => Lists(found, e)
<1>1. CASE terms < 2
  BY <1>1 DEF Rerank
<1>2. CASE ~(terms < 2)
  <2>0. PICK n \in Nat : n = Len(answer)
    OBVIOUS
  <2> DEFINE D == 1..n
             boosted == BoostAll(answer)
  <2>1. /\ DOMAIN answer = D /\ DOMAIN boosted = D
        /\ \A i \in D : boosted[i].entry = answer[i].entry /\ boosted[i].base = answer[i].base
    BY <2>0 DEF BoostAll
  <2>2. \A i \in D : boosted[i].score \in 0..100
    <3> SUFFICES ASSUME NEW i \in D PROVE boosted[i].score \in 0..100
      OBVIOUS
    <3>1. answer[i] \in Result
      BY <2>1
    <3>2. answer[i].text \in Text /\ answer[i].score \in 0..100
      BY <3>1, KnowledgeAssumption DEF Result
    <3>3. QED BY <2>1, <3>2, BoostedBounded DEF BoostAll
  <2>3. PICK order \in [D -> D] :
          /\ found = [k \in D |-> boosted[order[k]]]
          /\ \A i, j \in D : i < j =>
               \/ boosted[order[i]].score > boosted[order[j]].score
               \/ boosted[order[i]].score = boosted[order[j]].score /\ order[i] < order[j]
    BY <1>2, <2>1 DEF Rerank, Sorted
  <2> HIDE DEF boosted
  <2>4. \A i, j \in D : i < j =>
          /\ boosted[order[i]].score >= boosted[order[j]].score
          /\ order[i] # order[j]
    <3> SUFFICES ASSUME NEW i \in D, NEW j \in D, i < j
                 PROVE  /\ boosted[order[i]].score >= boosted[order[j]].score
                        /\ order[i] # order[j]
      OBVIOUS
    <3>1. /\ order[i] \in D /\ order[j] \in D
          /\ order[i] \in Int /\ order[j] \in Int
      OBVIOUS
    <3>2. boosted[order[i]].score \in 0..100 /\ boosted[order[j]].score \in 0..100
      BY <2>2, <3>1
    <3>3. \/ boosted[order[i]].score > boosted[order[j]].score
          \/ boosted[order[i]].score = boosted[order[j]].score /\ order[i] < order[j]
      BY <2>3
    <3>4. /\ \A x, y \in 0..100 : x > y \/ x = y => x >= y
          /\ \A x \in 0..100 : ~(x > x)
          /\ \A k \in Int : ~(k < k)
      OBVIOUS
    <3>5. boosted[order[i]].score >= boosted[order[j]].score
      BY <3>2, <3>3, <3>4, Zenon
    <3>6. order[i] # order[j]
      BY <3>1, <3>2, <3>3, <3>4, Zenon
    <3>7. QED BY <3>5, <3>6
  <2>5. \A i, j \in D : i # j => order[i] # order[j]
    BY <2>1, <2>4
  <2>6. \A k \in D : \E i \in D : order[i] = k
    BY <2>5, PermutationIsOnto
  <2>7. DOMAIN found = D /\ Len(found) = Len(answer)
    <3>1. found \in Seq(Result)
      BY RerankAddsNothing
    <3>2. DOMAIN found = D
      BY <2>3
    <3>3. QED BY <2>0, <3>1, <3>2
  <2>8. \A i \in D : order[i] \in D /\ found[i] = boosted[order[i]]
    BY <2>3
  <2>9. Ranked(found)
    <3>1. \A i, j \in D : i # j => answer[i].entry # answer[j].entry
      BY <2>1 DEF Ranked
    <3>2. QED BY <2>1, <2>4, <2>7, <2>8, <3>1 DEF Ranked
  <2>10. \A e : Lists(answer, e) => Lists(found, e)
    <3> SUFFICES ASSUME NEW e, Lists(answer, e) PROVE Lists(found, e)
      OBVIOUS
    <3>1. PICK k \in D : answer[k].entry = e
      BY <2>1 DEF Lists
    <3>2. PICK i \in D : order[i] = k
      BY <2>6
    <3>3. found[i].entry = e
      BY <2>1, <2>8, <3>1, <3>2
    <3>4. QED BY <2>7, <3>3 DEF Lists
  <2>11. QED BY <2>1, <2>7, <2>8, <2>9, <2>10
<1>3. QED BY <1>1, <1>2

LEMMA FoundIsBest ==
  ASSUME TypeOK, NEW t \in Turns, NEW answer \in Answers(t),
         NEW found \in Rerank(query[t].terms, answer)
  PROVE  Ranked(found) /\ \A e \in Selected(t) : Covers(t, found, e)
<1>1. /\ answer \in Seq(Result) /\ Ranked(answer)
      /\ \A e \in Selected(t) : Covers(t, answer, e)
  BY AnswersAreSelected, AnswersAreBest
<1>2. /\ Ranked(found) /\ Len(found) = Len(answer)
      /\ \A i \in DOMAIN found : \E j \in DOMAIN answer : found[i].base = answer[j].base
      /\ \A e : Lists(answer, e) => Lists(found, e)
  BY <1>1, RerankKeepsAll
<1>3. QED BY <1>1, <1>2 DEF Covers

\* What a query that ends a retrieval does.
Ends(t, found) ==
  /\ results' = [results EXCEPT ![t] = found]
  /\ flagged' = [flagged EXCEPT ![t] = found # <<>> /\ at[t].pass = "cross"]
  /\ Evaluate(t, found) /\ UNCHANGED at
Widens(t) ==
  /\ Selected(t) = {} /\ at[t].pass = "same"
  /\ at' = [at EXCEPT ![t] = [pass |-> "cross", strategy |-> Strategy]]
  /\ UNCHANGED <<pc, results, flagged, confidence>>

LEMMA AnswerEnds ==
  ASSUME TypeOK, NEW t \in Turns, Answer(t)
  PROVE  \/ Widens(t)
         \/ \E found \in Seq(Result) :
              /\ Ends(t, found) /\ Ranked(found)
              /\ \A e \in Selected(t) : Covers(t, found, e)
<1>1. CASE Selected(t) = {} /\ at[t].pass = "same"
  BY <1>1 DEF Answer, Widens
<1>2. CASE ~(Selected(t) = {} /\ at[t].pass = "same")
  <2>1. PICK answer \in Answers(t) : \E found \in Rerank(query[t].terms, answer) : Ends(t, found)
    BY <1>2 DEF Answer, Ends
  <2>2. PICK found \in Rerank(query[t].terms, answer) : Ends(t, found)
    BY <2>1
  <2>3. QED BY <2>2, FoundTyped, FoundIsBest
<1>3. QED BY <1>1, <1>2

-----------------------------------------------------------------------------
LEMMA BestFirstStep == IInv /\ BestFirst /\ [Next]_vars => BestFirst'
<1> SUFFICES ASSUME IInv, BestFirst, [Next]_vars PROVE BestFirst'
  OBVIOUS
<1> DEFINE Judged(found, level, how) ==
             \A i \in DOMAIN found :
               /\ level = "high" => found[1].score >= AnswerThreshold
               /\ level = "low" => found[i].score < AnswerThreshold
               /\ how = "noHits" => found[i].score < MinimumScore
<1>1. \A t \in Turns : Ranked(results[t]) /\ Judged(results[t], confidence[t], pc[t])
  BY DEF BestFirst, Ranked
<1>2. /\ TypeOK /\ pc \in [Turns -> {"idle", "querying", "failed"} \cup Retrieved]
      /\ results \in [Turns -> Seq(Result)]
      /\ confidence \in [Turns -> {"none", "low", "high"}]
      /\ MinimumScore \in Nat /\ AnswerThreshold \in Nat
  BY KnowledgeAssumption DEF IInv, TypeOK
<1>3. SUFFICES \A t \in Turns :
                 Ranked(results'[t]) /\ Judged(results'[t], confidence'[t], pc'[t])
  BY DEF BestFirst, Ranked
<1>4. CASE UNCHANGED <<results, confidence>>
           /\ \A t \in Turns : pc'[t] = "noHits" => pc[t] \in {"noHits", "idle"}
  <2>1. \A t \in Turns : pc[t] = "idle" => results[t] = <<>>
    BY DEF IInv, EmptyBefore
  <2>2. QED BY <1>1, <1>4, <2>1
<1>5. ASSUME NEW t \in Turns, Answer(t)
      PROVE  \A u \in Turns : Ranked(results'[u]) /\ Judged(results'[u], confidence'[u], pc'[u])
  <2>1. CASE Widens(t)
    BY <1>1, <2>1 DEF Widens
  <2>2. CASE ~Widens(t)
    <3>1. PICK found \in Seq(Result) : Ends(t, found) /\ Ranked(found)
      BY <1>2, <1>5, <2>2, AnswerEnds
    <3> DEFINE top == IF found = <<>> THEN 0 ELSE found[1].score
               enough == found # <<>> /\ top >= MinimumScore
    <3>2. /\ results'[t] = found
          /\ pc'[t] = IF enough THEN "prompted" ELSE "noHits"
          /\ confidence'[t] =
               IF ~enough THEN "none" ELSE IF top < AnswerThreshold THEN "low" ELSE "high"
          /\ \A u \in Turns \ {t} : /\ results'[u] = results[u] /\ pc'[u] = pc[u]
                                    /\ confidence'[u] = confidence[u]
      BY <1>2, <3>1 DEF Ends, Evaluate
    <3>3. ASSUME NEW i \in DOMAIN found
          PROVE  /\ confidence'[t] = "high" => found[1].score >= AnswerThreshold
                 /\ confidence'[t] = "low" => found[i].score < AnswerThreshold
                 /\ pc'[t] = "noHits" => found[i].score < MinimumScore
      <4>1. found # <<>> /\ 1 \in DOMAIN found /\ i \in Nat /\ i >= 1
        OBVIOUS
      <4>2. found[1] \in Result /\ found[i] \in Result
        BY <4>1
      <4>3. PICK a \in 0..100, b \in 0..100 : a = found[1].score /\ b = found[i].score
        BY <4>2 DEF Result
      <4>4. a >= b
        <5>1. CASE i = 1
          <6>1. a = b
            BY <4>3, <5>1
          <6>2. QED BY <6>1
        <5>2. CASE i # 1
          <6>1. found[1].score >= found[i].score
            BY <3>1, <4>1, <5>2 DEF Ranked
          <6>2. QED BY <4>3, <6>1
        <5>3. QED BY <5>1, <5>2
      <4>5. top = a
        BY <4>1, <4>3
      <4> HIDE DEF top
      <4>6. /\ confidence'[t] = "high" => a >= AnswerThreshold
            /\ confidence'[t] = "low" => a < AnswerThreshold
            /\ pc'[t] = "noHits" => a < MinimumScore
        BY <1>2, <3>2, <4>1, <4>5
      <4>7. /\ confidence'[t] = "low" => b < AnswerThreshold
            /\ pc'[t] = "noHits" => b < MinimumScore
        <5>1. \A x, y \in 0..100, m \in Nat : x >= y /\ x < m => y < m
          OBVIOUS
        <5>2. QED BY <1>2, <4>4, <4>6, <5>1, Zenon
      <4>8. QED BY <4>3, <4>6, <4>7
    <3>4. Judged(results'[t], confidence'[t], pc'[t])
      BY <3>2, <3>3
    <3>5. QED BY <1>1, <3>1, <3>2, <3>4
  <2>3. QED BY <2>1, <2>2
<1>6. CASE ~\E t \in Turns : Answer(t)
  <2>1. UNCHANGED <<results, confidence>>
    BY <1>6 DEF Next, vars, turnVars, Create, Update, SoftDelete, Mutate, Retrieve, RetrieveBlank,
       Fail
  <2>2. \A t \in Turns : pc'[t] = "noHits" => pc[t] \in {"noHits", "idle"}
    BY <1>2, <1>6 DEF Next, vars, turnVars, Create, Update, SoftDelete, Mutate, Retrieve,
       RetrieveBlank, Fail
  <2>3. QED BY <1>4, <2>1, <2>2
<1>7. QED BY <1>5, <1>6

\* Whatever the terms' bonuses and the thresholds are, results are ranked by
\* their final scores with no entry twice, and the confidence of an answer is
\* that of its best result.
THEOREM BestIsFirst == Spec => []BestFirst
<1>1. Init => BestFirst
  BY DEF Init, BestFirst
<1>2. IInv => TypeOK
  BY DEF IInv
<1>3. QED BY <1>1, InitInv, StepInv, BestFirstStep, PTL DEF Spec

-----------------------------------------------------------------------------
\* The records of what a turn can rely on: none before it begins, and none
\* left once it looks into other languages.
NothingYet ==
  \A t \in Turns :
    /\ pc[t] = "idle" => untouched[t] = {}
    /\ pc[t] = "querying" /\ at[t].pass = "cross" => Steady(t) = {}

\* Found or left out for entries as good, and no other language was searched.
Satisfied(t, e) == ~flagged[t] /\ Covers(t, results[t], e)
MInv == NothingYet /\ \A t \in Turns : pc[t] \in Retrieved => \A e \in Steady(t) : Satisfied(t, e)

LEMMA NothingMissedFollows == MInv => NothingMissed
BY DEF MInv, NothingMissed, Satisfied, Covers, Lists, Found

\* A mutation makes no entry steady, and leaves those that are as they were.
LEMMA MutateMissed ==
  ASSUME TypeOK, MInv, NEW e \in Entries, NEW entry \in Entry, Mutate(e, entry)
  PROVE  MInv'
<1>1. /\ DOMAIN entries' = DOMAIN entries \cup {e}
      /\ \A id \in DOMAIN entries : id # e => entries'[id] = entries[id]
  BY MutateTable
<1>2. UNCHANGED <<pc, at, query, results, flagged>>
      /\ untouched' = [t \in Turns |-> untouched[t] \ {e}]
  BY DEF Mutate, turnVars
<1>3. \A t \in Turns : \A id \in Steady(t)' : id \in Steady(t) /\ entries'[id] = entries[id]
  <2> SUFFICES ASSUME NEW t \in Turns, NEW id \in Steady(t)'
               PROVE  id \in Steady(t) /\ entries'[id] = entries[id]
    OBVIOUS
  <2>1. id \in untouched[t] /\ id # e /\ id \in DOMAIN entries
    BY <1>1, <1>2 DEF Steady
  <2>2. entries'[id] = entries[id]
    BY <1>1, <2>1
  <2>3. QED BY <1>2, <2>1, <2>2 DEF Steady, Retrievable
<1>4. NothingYet'
  BY <1>2, <1>3 DEF MInv, NothingYet
<1>5. ASSUME NEW t \in Turns, pc'[t] \in Retrieved, NEW id \in Steady(t)'
      PROVE  Satisfied(t, id)'
  <2>1. Satisfied(t, id) /\ entries'[id] = entries[id]
    BY <1>2, <1>3, <1>5 DEF MInv
  <2>2. QED BY <1>2, <2>1 DEF Satisfied, Covers, Lists
<1>6. QED BY <1>4, <1>5 DEF MInv

\* A step that ends no retrieval and begins no search in other languages.
LEMMA ControlMissed ==
  ASSUME TypeOK, MInv, UNCHANGED <<entries, results, flagged>>, NEW t \in Turns,
         \A u \in Turns \ {t} : /\ pc'[u] = pc[u] /\ at'[u] = at[u]
                                /\ query'[u] = query[u] /\ untouched'[u] = untouched[u],
         \/ pc'[t] = "querying" /\ (at'[t].pass = "cross" => Steady(t)' = {})
         \/ pc'[t] = "noHits" /\ Steady(t)' = {}
         \/ pc'[t] = "failed"
  PROVE  MInv'
<1>1. \A u \in Turns \ {t} : Steady(u)' = Steady(u)
  BY DEF Steady
<1>2. \A u \in Turns \ {t} : \A e : Satisfied(u, e)' <=> Satisfied(u, e)
  BY DEF Satisfied, Covers, Lists
<1>3. NothingYet'
  BY <1>1 DEF MInv, NothingYet
<1>4. ASSUME NEW u \in Turns, pc'[u] \in Retrieved, NEW e \in Steady(u)'
      PROVE  Satisfied(u, e)'
  <2>1. CASE u = t
    BY <1>4, <2>1 DEF Retrieved
  <2>2. CASE u # t
    BY <1>1, <1>2, <1>4, <2>2 DEF MInv
  <2>3. QED BY <2>1, <2>2
<1>5. QED BY <1>3, <1>4 DEF MInv

\* In the first pass, either query selects what is steady.
LEMMA SteadyIsSelected ==
  ASSUME NEW t \in Turns, at[t].pass = "same"
  PROVE  Steady(t) \subseteq Selected(t)
BY DEF Steady, Selected, Hit

LEMMA AnswerMissed ==
  ASSUME TypeOK, MInv, NEW t \in Turns, Answer(t)
  PROVE  MInv'
<1>1. /\ pc[t] = "querying" /\ UNCHANGED <<entries, query, untouched>>
      /\ pc \in [Turns -> {"idle", "querying", "failed"} \cup Retrieved]
      /\ at \in [Turns -> [pass: {"same", "cross"}, strategy: {"trgm", "ilike"}]]
      /\ results \in [Turns -> Seq(Result)] /\ flagged \in [Turns -> BOOLEAN]
  BY DEF Answer, TypeOK
<1>2. \A u \in Turns : Steady(u)' = Steady(u)
  BY <1>1 DEF Steady
<1>3. CASE Widens(t)
  <2>1. Steady(t)' = {}
    BY <1>2, <1>3, SteadyIsSelected DEF Widens
  <2>2. pc'[t] = "querying" /\ \A u \in Turns \ {t} : pc'[u] = pc[u] /\ at'[u] = at[u]
    BY <1>1, <1>3 DEF Widens
  <2>3. UNCHANGED <<results, flagged>>
    BY <1>3 DEF Widens
  <2>4. QED BY <1>1, <2>1, <2>2, <2>3, ControlMissed
<1>4. CASE ~Widens(t)
  <2>1. PICK found \in Seq(Result) :
          Ends(t, found) /\ \A e \in Selected(t) : Covers(t, found, e)
    BY <1>4, AnswerEnds
  <2>2. /\ results'[t] = found /\ pc'[t] \in Retrieved /\ UNCHANGED at
        /\ flagged'[t] = (found # <<>> /\ at[t].pass = "cross")
        /\ \A u \in Turns \ {t} : /\ results'[u] = results[u] /\ pc'[u] = pc[u]
                                  /\ flagged'[u] = flagged[u]
    BY <1>1, <2>1 DEF Ends, Evaluate, Retrieved
  <2>3. NothingYet'
    BY <1>1, <1>2, <2>2 DEF MInv, NothingYet, Retrieved
  <2>4. ASSUME NEW e \in Steady(t) PROVE Satisfied(t, e)'
    <3>1. at[t].pass = "same"
      BY <1>1, <2>4 DEF MInv, NothingYet
    <3>2. Covers(t, found, e)
      BY <2>1, <2>4, <3>1, SteadyIsSelected
    <3>3. QED BY <1>1, <2>2, <3>1, <3>2 DEF Satisfied, Covers, Lists
  <2>5. ASSUME NEW u \in Turns \ {t}, NEW e, Satisfied(u, e) PROVE Satisfied(u, e)'
    BY <1>1, <2>2, <2>5 DEF Satisfied, Covers, Lists
  <2>6. QED BY <1>2, <2>2, <2>3, <2>4, <2>5 DEF MInv
<1>5. QED BY <1>3, <1>4

LEMMA MissedStep == TypeOK /\ MInv /\ [Next]_vars => MInv'
<1> SUFFICES ASSUME TypeOK, MInv, [Next]_vars PROVE MInv'
  OBVIOUS
<1>1. /\ pc \in [Turns -> {"idle", "querying", "failed"} \cup Retrieved]
      /\ at \in [Turns -> [pass: {"same", "cross"}, strategy: {"trgm", "ilike"}]]
      /\ query \in [Turns -> Query] /\ untouched \in [Turns -> SUBSET Entries]
  BY DEF TypeOK
<1>2. ASSUME NEW e \in Entries, Create(e) \/ Update(e) \/ SoftDelete(e)
      PROVE  MInv'
  <2>1. PICK entry \in Entry : Mutate(e, entry)
    BY <1>2, AdminMutates
  <2>2. QED BY <2>1, MutateMissed
<1>3. ASSUME NEW t \in Turns, Retrieve(t)
      PROVE  MInv'
  <2>1. /\ pc'[t] = "querying" /\ at'[t].pass = "same"
        /\ \A u \in Turns \ {t} : /\ pc'[u] = pc[u] /\ at'[u] = at[u]
                                  /\ query'[u] = query[u] /\ untouched'[u] = untouched[u]
    BY <1>1, <1>3 DEF Retrieve
  <2>2. UNCHANGED <<entries, results, flagged>>
    BY <1>3 DEF Retrieve
  <2>3. QED BY <2>1, <2>2, ControlMissed
<1>4. ASSUME NEW t \in Turns, RetrieveBlank(t)
      PROVE  MInv'
  <2>1. /\ pc[t] = "idle" /\ pc'[t] = "noHits" /\ UNCHANGED <<at, query, untouched>>
        /\ \A u \in Turns \ {t} : pc'[u] = pc[u]
    BY <1>1, <1>4 DEF RetrieveBlank
  <2>2. UNCHANGED <<entries, results, flagged>>
    BY <1>4 DEF RetrieveBlank
  <2>3. Steady(t)' = {}
    BY <2>1, <2>2 DEF MInv, NothingYet, Steady
  <2>4. QED BY <2>1, <2>2, <2>3, ControlMissed
<1>5. ASSUME NEW t \in Turns, Fail(t)
      PROVE  MInv'
  <2>1. /\ pc[t] = "querying" /\ UNCHANGED <<entries, results, flagged, query, untouched>>
        /\ \A u \in Turns \ {t} : pc'[u] = pc[u] /\ at'[u] = at[u]
        /\ pc'[t] = "querying" \/ pc'[t] = "failed"
        /\ at'[t].pass = at[t].pass
    BY <1>1, <1>5 DEF Fail
  <2>2. Steady(t)' = Steady(t)
    BY <2>1 DEF Steady
  <2>3. at[t].pass = "cross" => Steady(t) = {}
    BY <2>1 DEF MInv, NothingYet
  <2>4. QED BY <2>1, <2>2, <2>3, ControlMissed
<1>6. CASE UNCHANGED vars
  <2>1. /\ UNCHANGED <<pc, at, query, results, flagged, entries, untouched>>
        /\ \A t \in Turns : Steady(t)' = Steady(t)
    BY <1>6 DEF vars, turnVars, Steady
  <2>2. \A t \in Turns : \A e : Satisfied(t, e)' <=> Satisfied(t, e)
    BY <2>1 DEF Satisfied, Covers, Lists
  <2>3. QED BY <2>1, <2>2 DEF MInv, NothingYet
<1>7. QED BY <1>2, <1>3, <1>4, <1>5, <1>6, AnswerMissed DEF Next

\* Whichever queries fail and whatever else administrators change meanwhile: an
\* entry that stays retrievable in the message's language, and that either
\* strategy finds, is among the results or was left out, at the limit, for
\* entries with a base score as good, and other languages are not searched.
THEOREM NothingIsMissed == Spec => []NothingMissed
<1>1. Init => MInv
  BY DEF Init, MInv, NothingYet, Retrieved
<1>2. QED BY <1>1, MissedStep, TypeCorrect, NothingMissedFollows, PTL DEF Spec
=============================================================================
