----------------------- MODULE AnswerPreparationProofs -----------------------
(***************************************************************************)
(* The token budget of a prompt, for texts of any length, histories of any *)
(* number of rows, and any configured window; the history that is kept;    *)
(* and the label of a message, for any finite table of intent templates.   *)
(***************************************************************************)
EXTENDS AnswerPreparation, FiniteSetTheorems, WellFoundedInduction, SequenceTheorems, TLAPS

-----------------------------------------------------------------------------
\* Rounded up, a length is a number of tokens, and two texts joined are never
\* estimated higher than apart.
LEMMA TokensType ==
  ASSUME NEW chars \in Nat
  PROVE  Tokens(chars) \in Nat
BY DEF Tokens, CharsPerToken

LEMMA TokensOfJoined ==
  ASSUME NEW a \in Nat, NEW b \in Nat
  PROVE  Tokens(a + b) <= Tokens(a) + Tokens(b)
BY DEF Tokens, CharsPerToken

\* The budget is never negative.
LEMMA BudgetType ==
  ASSUME NEW chars \in Nat, NEW message \in Nat, NEW max \in Int
  PROVE  Budget(chars, message, max) \in Nat
<1>1. Tokens(chars + message) \in Nat
  BY TokensType
<1>2. Buffer \in Nat
  BY PreparationAssumption
<1>3. QED BY <1>1, <1>2 DEF Budget, Larger

-----------------------------------------------------------------------------
(***************************************************************************)
(* What the loop keeps: the tokens counted so far are within the budget,   *)
(* and no fewer than the kept text would count as a whole.                 *)
(***************************************************************************)
LoopInv ==
  /\ pc \in {"truncate", "assemble", "built"} =>
       /\ budget = Larger(0, maxTokens - Tokens(fixed) - Buffer)
       /\ accumulated <= budget
       /\ Tokens(kept) <= accumulated
  /\ pc = "built" => estimated = Tokens(fixed + kept)

\* Everything but the control and the intent part of the type invariant, which
\* only the first two actions touch.
Inv == TypeOK /\ LoopInv

\* Before the prompt is begun there is no history and nothing is accumulated.
LEMMA InitEstablishes ==
  ASSUME Init
  PROVE  Inv
<1>1. IntentOK
  BY DEF Init, IntentOK
<1>2. PromptOK /\ LoopOK /\ estimated \in Nat
  BY DEF Init, PromptOK, LoopOK
<1>3. LoopInv
  BY DEF Init, LoopInv
<1>4. QED BY <1>1, <1>2, <1>3 DEF Init, Inv, TypeOK

\* The label changes nothing the prompt is made of.
LEMMA DetectPreserves ==
  ASSUME Inv, DetectIntent
  PROVE  Inv'
<1>1. /\ IntentOK' /\ PromptOK' /\ LoopOK' /\ estimated' \in Nat
  BY DEF Inv, TypeOK, DetectIntent, IntentOK, PromptOK, LoopOK, promptVars, loopVars
<1>2. LoopInv'
  BY DEF DetectIntent, LoopInv
<1>3. QED BY <1>1, <1>2 DEF Inv, TypeOK, DetectIntent

\* The loop begins behind the newest row, with nothing accumulated.
LEMMA BuildPreserves ==
  ASSUME Inv, Build
  PROVE  Inv'
<1>1. PICK rag \in Sizes, message \in Sizes, low \in BOOLEAN, cross \in BOOLEAN,
           max \in Configured, length \in 0..MaxHistory :
        LET system == Persona + rag + (IF low THEN Caution ELSE 0)
                              + (IF cross THEN CrossLanguage ELSE 0)
        IN /\ maxTokens' = IF max = Undefined THEN DefaultTokens ELSE max
           /\ fixed' = system + message
           /\ budget' = Budget(system, message, maxTokens')
           /\ mapped' \in [1..length -> Sizes]
  BY DEF Build
<1> DEFINE system == Persona + rag + (IF low THEN Caution ELSE 0)
                             + (IF cross THEN CrossLanguage ELSE 0)
<1>2. system \in Nat /\ message \in Nat
  BY PreparationAssumption
<1>3. maxTokens' \in Int
  BY <1>1, PreparationAssumption
<1>4. /\ fixed' = system + message
      /\ budget' = Budget(system, message, maxTokens')
  BY <1>1
<1> HIDE DEF system
<1>5. fixed' \in Nat /\ budget' \in Nat
  BY <1>2, <1>3, <1>4, BudgetType
<1>6. budget' = Larger(0, maxTokens' - Tokens(fixed') - Buffer)
  BY <1>4 DEF Budget
<1>7. length \in Nat /\ mapped' \in Seq(Sizes) /\ Len(mapped') \in Nat
  BY <1>1, PreparationAssumption
<1>8. /\ pc' = "truncate"
      /\ i' = Len(mapped') /\ cutoff' = Len(mapped')
      /\ accumulated' = 0 /\ kept' = 0
      /\ templates' = {} /\ glossary' = {} /\ words' = {}
      /\ estimated' = estimated
  BY DEF Build
<1>9. IntentOK'
  BY <1>8, PreparationAssumption DEF IntentOK, TemplateTable
<1>10. PromptOK'
  BY <1>3, <1>5, <1>7 DEF PromptOK
<1>11. LoopOK'
  BY <1>7, <1>8 DEF LoopOK
<1>12. LoopInv'
  <2>1. Tokens(kept') = 0
    BY <1>8 DEF Tokens, CharsPerToken
  <2>2. QED BY <1>5, <1>6, <1>8, <2>1 DEF LoopInv
<1>13. QED BY <1>8, <1>9, <1>10, <1>11, <1>12 DEF Inv, TypeOK

\* A row that is kept fits, and counts no less on its own than joined.
LEMMA KeepPreserves ==
  ASSUME Inv, Keep
  PROVE  Inv'
<1>1. i \in 1..Len(mapped) /\ mapped \in Seq(Sizes) /\ Len(mapped) \in Nat
  BY DEF Inv, TypeOK, PromptOK, LoopOK, Keep
<1>2. mapped[i] \in Nat
  <2>1. mapped[i] \in Sizes
    BY <1>1
  <2>2. QED BY <2>1, PreparationAssumption
<1>3. /\ accumulated \in Nat /\ kept \in Nat /\ budget \in Nat
      /\ accumulated <= budget /\ Tokens(kept) <= accumulated
  BY DEF Inv, TypeOK, PromptOK, LoopOK, LoopInv, Keep
<1>4. /\ accumulated' = accumulated + Tokens(mapped[i])
      /\ kept' = kept + mapped[i]
      /\ accumulated + Tokens(mapped[i]) <= budget
      /\ i' = i - 1 /\ cutoff' = i - 1
      /\ pc' = pc /\ pc = "truncate"
  BY DEF Keep, Fits
<1>5. /\ fixed' = fixed /\ mapped' = mapped /\ maxTokens' = maxTokens /\ budget' = budget
      /\ templates' = templates /\ glossary' = glossary /\ words' = words
      /\ estimated' = estimated
  BY DEF Keep, promptVars, intentVars
<1>6. Tokens(mapped[i]) \in Nat /\ Tokens(kept) \in Nat
  BY <1>2, <1>3, TokensType
<1>7. Tokens(kept') <= accumulated'
  <2>1. Tokens(kept + mapped[i]) <= Tokens(kept) + Tokens(mapped[i])
    BY <1>2, <1>3, TokensOfJoined
  <2>2. Tokens(kept + mapped[i]) \in Nat
    BY <1>2, <1>3, TokensType
  <2>3. QED BY <1>3, <1>4, <1>6, <2>1, <2>2
<1>8. IntentOK' /\ PromptOK'
  BY <1>5 DEF Inv, TypeOK, IntentOK, PromptOK
<1>9. LoopOK'
  BY <1>1, <1>2, <1>3, <1>4, <1>5, <1>6 DEF LoopOK
<1>10. LoopInv'
  BY <1>4, <1>5, <1>7 DEF Inv, LoopInv
<1>11. QED BY <1>4, <1>5, <1>8, <1>9, <1>10 DEF Inv, TypeOK

\* The two ends of the loop leave what was accumulated.
LEMMA EndPreserves ==
  ASSUME Inv, Stop \/ Exhaust
  PROVE  Inv'
<1>1. /\ pc = "truncate" /\ pc' = "assemble"
      /\ cutoff' \in {cutoff, i}
      /\ UNCHANGED <<intentVars, promptVars, i, accumulated, kept, estimated>>
  BY DEF Stop, Exhaust, loopVars
<1>2. IntentOK' /\ PromptOK' /\ LoopOK' /\ estimated' \in Nat
  BY <1>1 DEF Inv, TypeOK, IntentOK, PromptOK, LoopOK, intentVars, promptVars
<1>3. LoopInv'
  BY <1>1 DEF Inv, LoopInv, promptVars
<1>4. QED BY <1>1, <1>2, <1>3 DEF Inv, TypeOK

LEMMA AssemblePreserves ==
  ASSUME Inv, Assemble
  PROVE  Inv'
<1>1. /\ pc = "assemble" /\ pc' = "built"
      /\ estimated' = Tokens(fixed + kept)
      /\ UNCHANGED <<intentVars, promptVars, loopVars>>
  BY DEF Assemble
<1>2. fixed \in Nat /\ kept \in Nat
  BY DEF Inv, TypeOK, PromptOK, LoopOK
<1>3. estimated' \in Nat
  BY <1>1, <1>2, TokensType
<1>4. IntentOK' /\ PromptOK' /\ LoopOK'
  BY <1>1 DEF Inv, TypeOK, IntentOK, PromptOK, LoopOK, intentVars, promptVars, loopVars
<1>5. LoopInv'
  BY <1>1 DEF Inv, LoopInv, promptVars, loopVars
<1>6. QED BY <1>1, <1>3, <1>4, <1>5 DEF Inv, TypeOK

\* A step that changes nothing.
LEMMA StutterPreserves ==
  ASSUME Inv, UNCHANGED vars
  PROVE  Inv'
<1>1. IntentOK' /\ PromptOK' /\ LoopOK'
  BY DEF Inv, TypeOK, IntentOK, PromptOK, LoopOK, vars, intentVars, promptVars, loopVars
<1>2. LoopInv'
  BY DEF Inv, LoopInv, vars, promptVars, loopVars
<1>3. QED BY <1>1, <1>2 DEF Inv, TypeOK, vars

LEMMA Invariance == Spec => []Inv
<1>1. Init => Inv
  BY InitEstablishes
<1>2. Inv /\ [Next]_vars => Inv'
  BY DetectPreserves, BuildPreserves, KeepPreserves, EndPreserves, AssemblePreserves,
     StutterPreserves DEF Next
<1>3. QED BY <1>1, <1>2, PTL DEF Spec

-----------------------------------------------------------------------------
\* What the loop has accumulated is within the budget when the prompt is built.
LEMMA InvImpliesWithinBudget ==
  ASSUME Inv
  PROVE  WithinBudget
<1> SUFFICES ASSUME pc = "built"
             PROVE  estimated <= Larger(Tokens(fixed), maxTokens - Buffer)
  BY DEF WithinBudget
<1>1. fixed \in Nat /\ kept \in Nat /\ maxTokens \in Int /\ accumulated \in Nat
  BY DEF Inv, TypeOK, PromptOK, LoopOK
<1>2. Buffer \in Nat
  BY PreparationAssumption
<1>3. /\ accumulated <= Larger(0, maxTokens - Tokens(fixed) - Buffer)
      /\ Tokens(kept) <= accumulated
      /\ estimated = Tokens(fixed + kept)
  BY DEF Inv, LoopInv
<1>4. Tokens(fixed + kept) <= Tokens(fixed) + Tokens(kept)
  BY <1>1, TokensOfJoined
<1>5. Tokens(fixed) \in Nat /\ Tokens(kept) \in Nat /\ Tokens(fixed + kept) \in Nat
  BY <1>1, TokensType
<1>6. QED BY <1>1, <1>2, <1>3, <1>4, <1>5 DEF Larger

\* The types of the preparation hold, the budget and the positions of the loop
\* among them: PromptBuilder never counts below zero or past the history.
THEOREM TypeCorrect == Spec => []TypeOK
<1>1. Inv => TypeOK
  BY DEF Inv
<1>2. QED BY <1>1, Invariance, PTL

\* The history never takes a prompt out of the window of the model: whatever
\* the lengths, the estimate of build() is within maxContextTokens less the
\* buffer, or no more than the part that is never cut.
THEOREM PromptWithinBudget == Spec => []WithinBudget
<1>1. Inv => WithinBudget
  BY InvImpliesWithinBudget
<1>2. QED BY <1>1, Invariance, PTL

-----------------------------------------------------------------------------
(***************************************************************************)
(* Ordered rows.                                                           *)
(***************************************************************************)
\* The order of the query is strict and total on the rows of a table.
Rowlike(rows) == \A t \in rows : t.id \in Int /\ t.priority \in Int

LEMMA BeforeIsStrict ==
  ASSUME NEW rows, Rowlike(rows)
  PROVE  /\ \A s \in rows : ~Before(s, s)
         /\ \A s, t, u \in rows : Before(s, t) /\ Before(t, u) => Before(s, u)
BY DEF Rowlike, Before

LEMMA BeforeIsTotal ==
  ASSUME NEW rows, Rowlike(rows), TemplateTable(rows), NEW s \in rows, NEW t \in rows, s # t
  PROVE  Before(s, t) \/ Before(t, s)
BY DEF Rowlike, TemplateTable, Before

\* The place of a row is the number of rows before it, and one.
Ahead(rows, t) == {s \in rows : Before(s, t)}
Place(rows, t) == Cardinality(Ahead(rows, t)) + 1

LEMMA PlaceType ==
  ASSUME NEW rows, IsFiniteSet(rows), Rowlike(rows), NEW t \in rows
  PROVE  Place(rows, t) \in 1..Cardinality(rows)
<1>1. Ahead(rows, t) \in SUBSET rows /\ t \notin Ahead(rows, t)
  BY BeforeIsStrict DEF Ahead
<1>2. /\ IsFiniteSet(Ahead(rows, t))
      /\ Cardinality(Ahead(rows, t)) <= Cardinality(rows)
      /\ Cardinality(Ahead(rows, t)) = Cardinality(rows) => Ahead(rows, t) = rows
  BY <1>1, FS_Subset
<1>3. Cardinality(Ahead(rows, t)) \in Nat /\ Cardinality(rows) \in Nat
  BY <1>2, FS_CardinalityType
<1>4. Cardinality(Ahead(rows, t)) # Cardinality(rows)
  BY <1>1, <1>2
<1>5. QED BY <1>2, <1>3, <1>4 DEF Place

LEMMA PlaceGrows ==
  ASSUME NEW rows, IsFiniteSet(rows), Rowlike(rows), NEW s \in rows, NEW t \in rows, Before(s, t)
  PROVE  Place(rows, s) < Place(rows, t)
<1>1. Ahead(rows, t) \in SUBSET rows /\ Ahead(rows, s) \in SUBSET rows
  BY DEF Ahead
<1>2. Ahead(rows, s) \in SUBSET Ahead(rows, t)
  BY BeforeIsStrict DEF Ahead
<1>3. s \in Ahead(rows, t) /\ s \notin Ahead(rows, s)
  BY BeforeIsStrict DEF Ahead
<1>4. IsFiniteSet(Ahead(rows, t)) /\ IsFiniteSet(Ahead(rows, s))
  BY <1>1, FS_Subset
<1>5. /\ Cardinality(Ahead(rows, s)) <= Cardinality(Ahead(rows, t))
      /\ Cardinality(Ahead(rows, t)) = Cardinality(Ahead(rows, s)) => Ahead(rows, t) = Ahead(rows, s)
  BY <1>2, <1>4, FS_Subset
<1>6. Cardinality(Ahead(rows, s)) \in Nat /\ Cardinality(Ahead(rows, t)) \in Nat
  BY <1>4, FS_CardinalityType
<1>7. QED BY <1>3, <1>5, <1>6 DEF Place

\* Rows at their places are a sequence of all of them, in order.
LEMMA OrderExists ==
  ASSUME NEW rows, IsFiniteSet(rows), Rowlike(rows), TemplateTable(rows)
  PROVE  \E seq \in SetToSeqs(rows) : \A m, n \in DOMAIN seq : m < n => Before(seq[m], seq[n])
<1> DEFINE size == Cardinality(rows)
           place == [t \in rows |-> Place(rows, t)]
           seq == [n \in 1..size |-> CHOOSE t \in rows : Place(rows, t) = n]
<1>1. size \in Nat /\ IsFiniteSet(1..size) /\ Cardinality(1..size) = size
  BY FS_CardinalityType, FS_Interval
<1>2. place \in [rows -> 1..size]
  BY PlaceType
<1>3. \A s, t \in rows : Place(rows, s) \in Nat /\ (s # t => Place(rows, s) # Place(rows, t))
  <2> SUFFICES ASSUME NEW s \in rows, NEW t \in rows
               PROVE  Place(rows, s) \in Nat /\ (s # t => Place(rows, s) # Place(rows, t))
    OBVIOUS
  <2>1. Place(rows, s) \in Nat /\ Place(rows, t) \in Nat
    BY <1>1, PlaceType
  <2>2. s # t => Place(rows, s) < Place(rows, t) \/ Place(rows, t) < Place(rows, s)
    BY PlaceGrows, BeforeIsTotal
  <2>3. QED BY <2>1, <2>2
<1>4. place \in Injection(rows, 1..size)
  BY <1>2, <1>3 DEF Injection, IsInjective
<1>5. place \in Surjection(rows, 1..size)
  BY <1>1, <1>4, FS_Injection
<1>6. \A n \in 1..size : \E t \in rows : Place(rows, t) = n
  BY <1>5 DEF Surjection
<1>7. \A n \in 1..size : seq[n] \in rows /\ Place(rows, seq[n]) = n
  BY <1>6
<1>8. seq \in [1..size -> rows] /\ DOMAIN seq = 1..size
  BY <1>7
<1> HIDE DEF seq
<1>9. \A m, n \in 1..size : m # n => seq[m] # seq[n]
  BY <1>7
<1>10. seq \in SetToSeqs(rows)
  BY <1>8, <1>9 DEF SetToSeqs
<1>11. ASSUME NEW m \in DOMAIN seq, NEW n \in DOMAIN seq, m < n
       PROVE  Before(seq[m], seq[n])
  <2>1. m \in Nat /\ n \in Nat /\ Place(rows, seq[m]) = m /\ Place(rows, seq[n]) = n
        /\ seq[m] \in rows /\ seq[n] \in rows
    BY <1>1, <1>7, <1>8
  <2>2. seq[m] # seq[n]
    BY <1>8, <1>9, <1>11, <2>1
  <2>3. CASE Before(seq[n], seq[m])
    <3>1. n < m
      BY <2>1, <2>3, PlaceGrows
    <3>2. QED BY <1>11, <2>1, <3>1
  <2>4. QED BY <2>1, <2>2, <2>3, BeforeIsTotal
<1>12. QED BY <1>10, <1>11

\* So findAllTemplates() is one.
LEMMA TemplatesAreOrdered ==
  ASSUME NEW rows, IsFiniteSet(rows), Rowlike(rows), TemplateTable(rows)
  PROVE  LET all == FindAllTemplates(rows)
         IN /\ all \in [1..Cardinality(rows) -> rows]
            /\ \A t \in rows : \E n \in DOMAIN all : all[n] = t
            /\ \A m, n \in DOMAIN all : m < n => Before(all[m], all[n])
<1> DEFINE all == FindAllTemplates(rows)
           size == Cardinality(rows)
<1>1. all \in SetToSeqs(rows) /\ \A m, n \in DOMAIN all : m < n => Before(all[m], all[n])
  BY OrderExists DEF FindAllTemplates
<1> HIDE DEF all
<1>2. all \in [1..size -> rows] /\ \A m, n \in 1..size : m # n => all[m] # all[n]
  BY <1>1 DEF SetToSeqs
<1>3. size \in Nat /\ IsFiniteSet(1..size) /\ Cardinality(1..size) = size
  BY FS_CardinalityType, FS_Interval
<1>4. all \in Injection(1..size, rows)
  BY <1>2 DEF Injection, IsInjective
<1>5. all \in Surjection(1..size, rows)
  BY <1>3, <1>4, FS_Injection
<1>6. \A t \in rows : \E n \in DOMAIN all : all[n] = t
  BY <1>2, <1>5 DEF Surjection
<1>7. QED BY <1>1, <1>2, <1>6 DEF all

-----------------------------------------------------------------------------
(***************************************************************************)
(* Induction: a property of numbers that fails somewhere fails at a first  *)
(* place.                                                                  *)
(***************************************************************************)
LEMMA LeastExists ==
  ASSUME NEW T \in SUBSET Nat, T # {}
  PROVE  \E m \in T : \A n \in T : m <= n
<1>1. IsWellFoundedOn(OpToRel(<, Nat), Nat)
  BY NatLessThanWellFounded
<1>2. PICK m \in T : \A n \in T : ~(<<n, m>> \in OpToRel(<, Nat))
  BY <1>1, WFMin
<1>3. \A n \in Nat : n < m => <<n, m>> \in OpToRel(<, Nat)
  BY <1>2 DEF OpToRel
<1>4. \A n \in T : ~(n < m)
  BY <1>2, <1>3
<1>5. QED BY <1>4

-----------------------------------------------------------------------------
(***************************************************************************)
(* The label.                                                              *)
(***************************************************************************)
\* A template has a keyword in the expanded text.
Found(template, some, text) == template.keywords \cap Expanded(some, text) # {}

\* What detect() returns for a table, a glossary and a message.
LEMMA DetectFindsFirst ==
  ASSUME NEW rows, IsFiniteSet(rows), Rowlike(rows), TemplateTable(rows), NEW some, NEW text
  PROVE  \/ /\ Detect(rows, some, text) = NoLabel
            /\ \A t \in rows : ~Found(t, some, text)
         \/ \E best \in rows :
              /\ Detect(rows, some, text) = best.intent
              /\ Found(best, some, text)
              /\ \A t \in rows : Found(t, some, text) => t = best \/ Before(best, t)
<1> DEFINE all == FindAllTemplates(rows)
           hits == {n \in DOMAIN all : all[n].keywords \cap Expanded(some, text) # {}}
           first == CHOOSE n \in hits : \A m \in hits : n <= m
<1>1. Detect(rows, some, text) = IF hits = {} THEN NoLabel ELSE all[first].intent
  BY DEF Detect
<1>2. /\ all \in [1..Cardinality(rows) -> rows]
      /\ \A t \in rows : \E n \in DOMAIN all : all[n] = t
      /\ \A m, n \in DOMAIN all : m < n => Before(all[m], all[n])
  BY TemplatesAreOrdered
<1> HIDE DEF all
<1>3. \A n \in DOMAIN all : all[n] \in rows /\ (n \in hits <=> Found(all[n], some, text))
  BY <1>2 DEF Found
<1>4. hits \subseteq DOMAIN all /\ DOMAIN all \subseteq Nat
  BY <1>2, FS_CardinalityType
<1> HIDE DEF hits
<1>5. CASE hits = {}
  <2>1. \A t \in rows : ~Found(t, some, text)
    BY <1>2, <1>3, <1>5
  <2>2. QED BY <1>1, <1>5, <2>1
<1>6. CASE hits # {}
  <2>1. first \in hits /\ \A m \in hits : first <= m
    <3>1. \E n \in hits : \A m \in hits : n <= m
      BY <1>4, <1>6, LeastExists
    <3>2. QED BY <3>1
  <2> HIDE DEF first
  <2>2. all[first] \in rows /\ Found(all[first], some, text)
    BY <1>3, <1>4, <2>1
  <2>3. ASSUME NEW t \in rows, Found(t, some, text)
        PROVE  t = all[first] \/ Before(all[first], t)
    <3>1. PICK n \in DOMAIN all : all[n] = t
      BY <1>2
    <3>2. n \in hits
      BY <1>3, <2>3, <3>1
    <3>3. n \in Nat /\ first \in Nat /\ first <= n
      BY <1>4, <2>1, <3>2
    <3>4. n = first \/ first < n
      BY <3>3
    <3>5. QED BY <1>2, <1>4, <2>1, <3>1, <3>4
  <2>4. QED BY <1>1, <1>6, <2>2, <2>3
<1>7. QED BY <1>5, <1>6

\* A template that has a keyword in the text is detected when it is alone.
LEMMA FoundAlone ==
  ASSUME NEW t, t.id \in Int, t.priority \in Int, t.intent # NoLabel
  PROVE  Found(t, glossary, words) <=> AloneDetected(t)
<1>1. IsFiniteSet({t})
  BY FS_Singleton
<1>2. Rowlike({t}) /\ TemplateTable({t})
  BY DEF Rowlike, TemplateTable
<1>3. \/ Detect({t}, glossary, words) = NoLabel /\ ~Found(t, glossary, words)
      \/ Detect({t}, glossary, words) = t.intent /\ Found(t, glossary, words)
  BY <1>1, <1>2, DetectFindsFirst
<1>4. QED BY <1>3 DEF AloneDetected

\* A glossary takes no word away.
LEMMA GlossaryAdds ==
  ASSUME NEW t, NEW some, NEW text, Found(t, {}, text)
  PROVE  Found(t, some, text)
BY DEF Found, Expanded

\* The tables a cache may hold are of the kind the lemmas are about.
LEMMA CacheIsTable ==
  ASSUME Inv
  PROVE  /\ IsFiniteSet(templates) /\ Rowlike(templates) /\ TemplateTable(templates)
         /\ \A t \in templates : t.intent # NoLabel
<1>1. templates \in SUBSET Templates /\ TemplateTable(templates)
  BY DEF Inv, TypeOK, IntentOK
<1>2. IsFiniteSet(templates)
  BY <1>1, PreparationAssumption, FS_Subset
<1>3. QED BY <1>1, <1>2, PreparationAssumption DEF Rowlike

\* The label that is set in step 5, as long as the tables are there.
LabelSet == pc = "build" => label = Detect(templates, glossary, words)

LEMMA LabelSetInvariance == Spec => []LabelSet
<1>1. Init => LabelSet
  BY DEF Init, LabelSet
<1>2. LabelSet /\ [Next]_vars => LabelSet'
  <2> SUFFICES ASSUME LabelSet, [Next]_vars
               PROVE  LabelSet'
    OBVIOUS
  <2>1. CASE DetectIntent
    <3>1. /\ label' = Detect(templates, glossary, words)
          /\ templates' = templates /\ glossary' = glossary /\ words' = words
      BY <2>1 DEF DetectIntent
    <3>2. QED BY <3>1 DEF LabelSet
  <2>2. CASE Build \/ Keep \/ Stop \/ Exhaust \/ Assemble
    <3>1. pc' # "build"
      BY <2>2 DEF Build, Keep, Stop, Exhaust, Assemble
    <3>2. QED BY <3>1 DEF LabelSet
  <2>3. CASE UNCHANGED vars
    BY <2>3 DEF vars, intentVars, LabelSet
  <2>4. QED BY <2>1, <2>2, <2>3 DEF Next
<1>3. QED BY <1>1, <1>2, PTL DEF Spec

\* Of the templates that alone would be detected, the label is that of the one
\* with the highest priority, and of those the oldest; there is none only if none
\* would be.  For any tables, however many rows they have and whatever keywords.
THEOREM LabelIsOfBestTemplate == Spec => []BestTemplate
<1>1. ASSUME Inv, LabelSet
      PROVE  BestTemplate
  <2> SUFFICES ASSUME pc = "build"
               PROVE  \/ label = NoLabel /\ \A t \in templates : ~AloneDetected(t)
                      \/ \E best \in templates :
                           /\ label = best.intent
                           /\ AloneDetected(best)
                           /\ \A t \in templates : AloneDetected(t) =>
                                \/ t.priority < best.priority
                                \/ t.priority = best.priority /\ t.id >= best.id
    BY DEF BestTemplate
  <2>1. label = Detect(templates, glossary, words)
    BY <1>1 DEF LabelSet
  <2>2. \/ /\ label = NoLabel
           /\ \A t \in templates : ~AloneDetected(t)
        \/ \E best \in templates :
             /\ label = best.intent
             /\ AloneDetected(best)
             /\ \A t \in templates : AloneDetected(t) => t = best \/ Before(best, t)
    BY <1>1, <2>1, CacheIsTable, DetectFindsFirst, FoundAlone DEF Rowlike
  <2>3. \A best, t \in templates : t = best \/ Before(best, t) =>
          \/ t.priority < best.priority
          \/ t.priority = best.priority /\ t.id >= best.id
    BY <1>1, CacheIsTable DEF Rowlike, Before
  <2>4. QED BY <2>2, <2>3
<1>2. QED BY <1>1, Invariance, LabelSetInvariance, PTL

\* A row of the glossary never costs a message its label, nor lowers the priority
\* of the template it comes from.
THEOREM GlossaryHidesNothing == Spec => []GlossaryNeverHides
<1>1. ASSUME Inv, LabelSet
      PROVE  GlossaryNeverHides
  <2> SUFFICES ASSUME pc = "build", NEW plain \in templates,
                      plain.intent = Detect(templates, {}, words)
               PROVE  \E t \in templates : t.intent = label /\ t.priority >= plain.priority
    BY DEF GlossaryNeverHides
  <2>1. label = Detect(templates, glossary, words)
    BY <1>1 DEF LabelSet
  <2>2. plain.intent # NoLabel
    BY <1>1, CacheIsTable
  <2>3. PICK found \in templates : plain.intent = found.intent /\ Found(found, {}, words)
    BY <1>1, <2>2, CacheIsTable, DetectFindsFirst
  <2>4. plain = found
    BY <1>1, <2>3, CacheIsTable DEF TemplateTable
  <2>5. Found(plain, glossary, words)
    BY <2>3, <2>4, GlossaryAdds
  <2>6. PICK best \in templates :
          /\ label = best.intent
          /\ \A t \in templates : Found(t, glossary, words) => t = best \/ Before(best, t)
    BY <1>1, <2>1, <2>5, CacheIsTable, DetectFindsFirst
  <2>7. plain = best \/ Before(best, plain)
    BY <2>5, <2>6
  <2>8. best.priority >= plain.priority
    BY <1>1, <2>7, CacheIsTable DEF Rowlike, Before
  <2>9. QED BY <2>6, <2>8
<1>2. QED BY <1>1, Invariance, LabelSetInvariance, PTL

-----------------------------------------------------------------------------
(***************************************************************************)
(* Sums along a history.  FoldLeft() recurs on the sets of positions: the  *)
(* last one is added to the sum of the others.                             *)
(***************************************************************************)
LEMMA MaxOfPositions ==
  ASSUME NEW k \in Nat, NEW S \in SUBSET (1..k), k \in S
  PROVE  Max(S) = k
<1>1. k \in S /\ \A y \in S : k >= y
  OBVIOUS
<1>2. \A x \in S : (\A y \in S : x >= y) => x = k
  OBVIOUS
<1>3. Max(S) = CHOOSE x \in S : \A y \in S : x >= y
  BY DEF Max
<1> DEFINE top == CHOOSE x \in S : \A y \in S : x >= y
<1>4. top \in S /\ \A y \in S : top >= y
  BY <1>1
<1>5. QED BY <1>2, <1>3, <1>4

\* The equation that FoldLeft() solves, for summands w at the positions 1..k.
Folds(g, w, k) ==
  g = [S \in SUBSET (1..k) |-> IF S = {} THEN 0 ELSE g[S \ {Max(S)}] + w[Max(S)]]

LEMMA FoldExtends ==
  ASSUME NEW k \in Nat, NEW w, NEW g, Folds(g, w, k)
  PROVE  \E h : Folds(h, w, k + 1)
<1> DEFINE h == [S \in SUBSET (1..(k + 1)) |->
                   IF k + 1 \in S THEN g[S \ {k + 1}] + w[k + 1] ELSE g[S]]
<1>1. \A S \in SUBSET (1..k) :
        g[S] = IF S = {} THEN 0 ELSE g[S \ {Max(S)}] + w[Max(S)]
  BY DEF Folds
<1>2. \A S \in SUBSET (1..(k + 1)) : S \ {k + 1} \in SUBSET (1..k)
  OBVIOUS
<1>3. ASSUME NEW S \in SUBSET (1..(k + 1))
      PROVE  h[S] = IF S = {} THEN 0 ELSE h[S \ {Max(S)}] + w[Max(S)]
  <2>1. \A R \in SUBSET (1..k) : R \in SUBSET (1..(k + 1)) /\ k + 1 \notin R
    OBVIOUS
  <2>2. \A R \in SUBSET (1..k) : h[R] = g[R]
    BY <2>1
  <2>3. CASE k + 1 \in S
    <3>1. Max(S) = k + 1
      BY <2>3, MaxOfPositions
    <3>2. h[S] = g[S \ {k + 1}] + w[k + 1]
      BY <2>3
    <3>3. h[S \ {k + 1}] = g[S \ {k + 1}]
      BY <1>2, <2>2
    <3>4. QED BY <2>3, <3>1, <3>2, <3>3
  <2>4. CASE k + 1 \notin S
    <3>0. \A x \in 1..(k + 1) : x # k + 1 => x \in 1..k
      OBVIOUS
    <3>1. S \in SUBSET (1..k) /\ S \ {Max(S)} \in SUBSET (1..k)
      BY <2>4, <3>0
    <3>2. h[S] = g[S] /\ h[S \ {Max(S)}] = g[S \ {Max(S)}]
      BY <2>2, <3>1
    <3>3. QED BY <1>1, <3>1, <3>2
  <2>5. QED BY <2>3, <2>4
<1>4. Folds(h, w, k + 1)
  <2>1. h = [S \in SUBSET (1..(k + 1)) |-> h[S]]
    OBVIOUS
  <2> HIDE DEF h
  <2>2. QED BY <1>3, <2>1 DEF Folds
<1>5. QED BY <1>4

LEMMA FoldExists ==
  ASSUME NEW k \in Nat, NEW w
  PROVE  \E g : Folds(g, w, k)
<1> DEFINE bad == {n \in Nat : ~ \E g : Folds(g, w, n)}
<1>1. \E g : Folds(g, w, 0)
  <2> DEFINE zero == [S \in SUBSET (1..0) |-> 0]
  <2>1. \A S \in SUBSET (1..0) : S = {}
    OBVIOUS
  <2>2. zero = [S \in SUBSET (1..0) |-> IF S = {} THEN 0 ELSE zero[S \ {Max(S)}] + w[Max(S)]]
    BY <2>1
  <2>3. Folds(zero, w, 0)
    BY <2>2 DEF Folds
  <2>4. QED BY <2>3
<1>2. ASSUME bad # {}
      PROVE  FALSE
  <2>1. PICK n \in bad : \A m \in bad : n <= m
    BY <1>2, LeastExists
  <2>2. n # 0 /\ n \in Nat /\ n - 1 \in Nat /\ n - 1 \notin bad
    BY <1>1, <2>1
  <2>3. PICK g : Folds(g, w, n - 1)
    BY <2>2
  <2>4. \E h : Folds(h, w, (n - 1) + 1)
    BY <2>2, <2>3, FoldExtends
  <2>5. (n - 1) + 1 = n
    BY <2>2
  <2>6. QED BY <2>1, <2>4, <2>5
<1>3. QED BY <1>2

\* Sums of the first rows, one row at a time.
Adds(p, w, k) == p[0] = 0 /\ \A n \in 1..k : p[n] = p[n - 1] + w[n]

LEMMA FoldAdds ==
  ASSUME NEW k \in Nat, NEW w, NEW g, Folds(g, w, k)
  PROVE  Adds([n \in 0..k |-> g[1..n]], w, k)
<1> DEFINE p == [n \in 0..k |-> g[1..n]]
<1>1. \A S \in SUBSET (1..k) :
        g[S] = IF S = {} THEN 0 ELSE g[S \ {Max(S)}] + w[Max(S)]
  BY DEF Folds
<1>2. p[0] = 0
  <2>1. 1..0 = {} /\ {} \in SUBSET (1..k) /\ 0 \in 0..k
    OBVIOUS
  <2>2. QED BY <1>1, <2>1
<1>3. ASSUME NEW n \in 1..k
      PROVE  p[n] = p[n - 1] + w[n]
  <2>1. 1..n \in SUBSET (1..k) /\ n \in 1..n /\ n \in 0..k /\ n - 1 \in 0..k /\ n \in Nat
        /\ (1..n) \ {n} = 1..(n - 1) /\ 1..n # {}
    OBVIOUS
  <2>2. Max(1..n) = n
    BY <2>1, MaxOfPositions
  <2>3. g[1..n] = g[(1..n) \ {n}] + w[n]
    BY <1>1, <2>1, <2>2
  <2>4. QED BY <2>1, <2>3
<1>4. QED BY <1>2, <1>3 DEF Adds

LEMMA MaxIsElement ==
  ASSUME NEW k \in Nat, NEW S \in SUBSET (1..k), S # {}
  PROVE  Max(S) \in S
<1> DEFINE bounds == {n \in Nat : \A y \in S : y <= n}
<1>1. k \in bounds
  OBVIOUS
<1>2. PICK m \in bounds : \A n \in bounds : m <= n
  BY <1>1, LeastExists
<1>3. m \in Nat /\ \A y \in S : y <= m /\ y \in Nat /\ y >= 1
  BY <1>2
<1>4. m \in S
  <2> SUFFICES ASSUME m \notin S
               PROVE  FALSE
    OBVIOUS
  <2>1. m >= 1
    <3>1. PICK y \in S : TRUE
      OBVIOUS
    <3>2. QED BY <1>3, <3>1
  <2>2. m - 1 \in Nat /\ \A y \in S : y <= m - 1
    BY <1>3, <2>1
  <2>3. m - 1 \in bounds
    BY <2>2
  <2>4. QED BY <1>2, <1>3, <2>3
<1>5. m \in Nat /\ S \in SUBSET (1..m)
  BY <1>3
<1>6. QED BY <1>4, <1>5, MaxOfPositions

\* Both sums of the loop are folds.
SumTokens(rows) == Sum(rows, Tokens)
SumSizes(rows) == Sum(rows, LAMBDA size : size)

LEMMA TokensAdd ==
  ASSUME NEW rows \in Seq(Nat)
  PROVE  \E p : /\ Adds(p, [n \in 1..Len(rows) |-> Tokens(rows[n])], Len(rows))
                /\ SumTokens(rows) = p[Len(rows)]
<1> DEFINE k == Len(rows)
           w == [n \in 1..k |-> Tokens(rows[n])]
           Body(g) == [S \in SUBSET (DOMAIN rows) |->
                         IF S = {} THEN 0 ELSE g[S \ {Max(S)}] + Tokens(rows[Max(S)])]
           fold == CHOOSE g : g = Body(g)
<1>1. k \in Nat /\ DOMAIN rows = 1..k
  OBVIOUS
<1>2. SumTokens(rows) = fold[DOMAIN rows]
  BY DEF SumTokens, Sum, FoldLeft, MapThenFoldSet
<1>3. \A S \in SUBSET (1..k) : S # {} => w[Max(S)] = Tokens(rows[Max(S)])
  BY <1>1, MaxIsElement
<1> HIDE DEF w
<1>4. \A g : Folds(g, w, k) <=> g = Body(g)
  BY <1>1, <1>3 DEF Folds
<1>5. \E g : g = Body(g)
  BY <1>1, <1>4, FoldExists
<1>6. fold = Body(fold)
  BY <1>5
<1> HIDE DEF fold
<1>7. Adds([n \in 0..k |-> fold[1..n]], w, k)
  BY <1>1, <1>4, <1>6, FoldAdds
<1>8. [n \in 0..k |-> fold[1..n]][k] = fold[DOMAIN rows]
  BY <1>1
<1>9. QED BY <1>2, <1>7, <1>8 DEF w

LEMMA SizesAdd ==
  ASSUME NEW rows \in Seq(Nat)
  PROVE  \E p : /\ Adds(p, rows, Len(rows))
                /\ SumSizes(rows) = p[Len(rows)]
<1> DEFINE k == Len(rows)
           Body(g) == [S \in SUBSET (DOMAIN rows) |->
                         IF S = {} THEN 0 ELSE g[S \ {Max(S)}] + rows[Max(S)]]
           fold == CHOOSE g : g = Body(g)
<1>1. k \in Nat /\ DOMAIN rows = 1..k
  OBVIOUS
<1>2. SumSizes(rows) = fold[DOMAIN rows]
  BY DEF SumSizes, Sum, FoldLeft, MapThenFoldSet
<1>3. \A g : Folds(g, rows, k) <=> g = Body(g)
  BY <1>1 DEF Folds
<1>4. \E g : g = Body(g)
  BY <1>1, <1>3, FoldExists
<1>5. fold = Body(fold)
  BY <1>4
<1> HIDE DEF fold
<1>6. Adds([n \in 0..k |-> fold[1..n]], rows, k)
  BY <1>1, <1>3, <1>5, FoldAdds
<1>7. [n \in 0..k |-> fold[1..n]][k] = fold[DOMAIN rows]
  BY <1>1
<1>8. QED BY <1>2, <1>6, <1>7

\* Sums of numbers are numbers, and the sums of an end are those of the whole
\* less what comes before it.
LEMMA SumsAreNat ==
  ASSUME NEW k \in Nat, NEW w \in [1..k -> Nat], NEW p, Adds(p, w, k)
  PROVE  \A n \in 0..k : p[n] \in Nat
<1> DEFINE bad == {n \in Nat : n <= k /\ p[n] \notin Nat}
<1>1. ASSUME bad # {}
      PROVE  FALSE
  <2>1. PICK n \in bad : \A m \in bad : n <= m
    BY <1>1, LeastExists
  <2>2. n # 0
    BY <2>1 DEF Adds
  <2>3. n \in 1..k /\ n - 1 \in Nat /\ p[n - 1] \in Nat
    BY <2>1, <2>2
  <2>4. p[n] = p[n - 1] + w[n] /\ w[n] \in Nat
    BY <2>3 DEF Adds
  <2>5. QED BY <2>1, <2>3, <2>4
<1>2. QED BY <1>1

\* v is c summands of w, from the one behind b on; then q is sums of p, less p[b].
EndOf(v, w, b, c) == \A n \in 1..c : v[n] = w[n + b]
SumsBeyond(q, p, b, c) == \A n \in 0..c : q[n] = p[n + b] - p[b]

LEMMA SumsOfEnd ==
  ASSUME NEW k \in Nat, NEW w, w \in [1..k -> Nat], NEW p, Adds(p, w, k),
         NEW b \in 0..k, NEW c \in Nat, c = k - b,
         NEW v, NEW q, Adds(q, v, c), EndOf(v, w, b, c)
  PROVE  SumsBeyond(q, p, b, c)
<1> DEFINE bad == {n \in Nat : n <= c /\ q[n] # p[n + b] - p[b]}
<1>1. \A n \in 0..k : p[n] \in Nat
  BY SumsAreNat
<1>2. ASSUME bad # {}
      PROVE  FALSE
  <2>1. PICK n \in bad : \A m \in bad : n <= m
    BY <1>2, LeastExists
  <2>2. n # 0
    <3>1. q[0] = 0 /\ p[b] \in Nat /\ 0 + b = b
      BY <1>1 DEF Adds
    <3>2. QED BY <2>1, <3>1
  <2>3. n \in 1..c /\ n - 1 \in Nat /\ n + b \in 1..k /\ (n - 1) + b \in 0..k
        /\ (n - 1) + b = (n + b) - 1
    BY <2>1, <2>2
  <2>4. q[n - 1] = p[(n - 1) + b] - p[b]
    BY <2>1, <2>3
  <2>5. q[n] = q[n - 1] + v[n] /\ v[n] = w[n + b]
    BY <2>3 DEF Adds, EndOf
  <2>6. p[n + b] = p[(n - 1) + b] + w[n + b]
    BY <2>3 DEF Adds
  <2>7. p[n + b] \in Nat /\ p[(n - 1) + b] \in Nat /\ p[b] \in Nat /\ w[n + b] \in Nat
    BY <1>1, <2>3
  <2>8. \A x, y, z \in Nat : (x - y) + z = (x + z) - y
    OBVIOUS
  <2>9. q[n] = p[n + b] - p[b]
    <3>1. q[n] = (p[(n - 1) + b] - p[b]) + w[n + b]
      BY <2>4, <2>5, Zenon
    <3>2. (p[(n - 1) + b] - p[b]) + w[n + b] = (p[(n - 1) + b] + w[n + b]) - p[b]
      BY <2>7, <2>8
    <3>3. QED BY <2>6, <3>1, <3>2, Zenon
  <2>10. q[n] # p[n + b] - p[b]
    BY <2>1, Zenon
  <2>11. QED BY <2>9, <2>10, Zenon
<1>3. QED
  <2>1. \A n \in 0..c : n \in Nat /\ n <= c
    OBVIOUS
  <2>2. \A n \in 0..c : q[n] = p[n + b] - p[b]
    BY <1>2, <2>1, Zenon
  <2>3. QED BY <2>2 DEF SumsBeyond

\* The end of a history from row n on.
End(rows, n) == SubSeq(rows, n, Len(rows))

LEMMA EndIs ==
  ASSUME NEW rows \in Seq(Nat), NEW n \in 1..(Len(rows) + 1)
  PROVE  /\ End(rows, n) \in Seq(Nat) /\ Len(End(rows, n)) = Len(rows) - (n - 1)
         /\ \A m \in 1..(Len(rows) - (n - 1)) : End(rows, n)[m] = rows[m + (n - 1)]
<1>1. Len(rows) \in Nat /\ DOMAIN rows = 1..Len(rows) /\ \A m \in 1..Len(rows) : rows[m] \in Nat
  OBVIOUS
<1>2. /\ End(rows, n) \in Seq(Nat)
      /\ Len(End(rows, n)) = IF n <= Len(rows) THEN Len(rows) - n + 1 ELSE 0
      /\ \A m \in 1..(Len(rows) - n + 1) : End(rows, n)[m] = rows[n + m - 1]
  BY <1>1, SubSeqProperties DEF End
<1>3. QED BY <1>1, <1>2

\* Sums of ends: an end that begins a row earlier has that row more.
EndSums(sum, rows, w) ==
  /\ sum[Len(rows) + 1] = 0
  /\ \A n \in 1..Len(rows) : sum[n] = w[n] + sum[n + 1]
  /\ \A n \in 1..(Len(rows) + 1) : sum[n] \in Nat

\* Which is so for sums S of ends that are those of all summands less those before.
LEMMA EndsAddUp ==
  ASSUME NEW rows \in Seq(Nat), NEW w \in [1..Len(rows) -> Nat], NEW p, Adds(p, w, Len(rows)),
         NEW sum, \A n \in 1..(Len(rows) + 1) : sum[n] = p[Len(rows)] - p[n - 1]
  PROVE  EndSums(sum, rows, w)
<1> DEFINE k == Len(rows)
<1>1. k \in Nat
  OBVIOUS
<1> HIDE DEF k
<1>2. w \in [1..k -> Nat] /\ Adds(p, w, k) /\ \A n \in 1..(k + 1) : sum[n] = p[k] - p[n - 1]
  BY DEF k
<1>3. \A n \in 0..k : p[n] \in Nat
  BY <1>1, <1>2, SumsAreNat
<1>4. sum[k + 1] = 0
  <2>1. k + 1 \in 1..(k + 1) /\ (k + 1) - 1 = k /\ p[k] \in Nat
    BY <1>1, <1>3
  <2>2. sum[k + 1] = p[k] - p[k]
    BY <1>2, <2>1
  <2>3. QED BY <2>1, <2>2
<1>5. ASSUME NEW n \in 1..k
      PROVE  sum[n] = w[n] + sum[n + 1]
  <2>1. n \in 1..(k + 1) /\ n + 1 \in 1..(k + 1) /\ (n + 1) - 1 = n /\ n - 1 \in 0..k /\ n \in 0..k
    BY <1>1
  <2>2. sum[n] = p[k] - p[n - 1] /\ sum[n + 1] = p[k] - p[n]
    BY <1>2, <2>1
  <2>3. p[n] = p[n - 1] + w[n]
    BY <1>2 DEF Adds
  <2>4. p[n] \in Nat /\ p[n - 1] \in Nat /\ p[k] \in Nat /\ w[n] \in Nat
    BY <1>1, <1>2, <1>3, <2>1
  <2>5. \A x, y, z \in Nat : x - y = z + (x - (y + z))
    OBVIOUS
  <2>6. p[k] - p[n - 1] = w[n] + (p[k] - (p[n - 1] + w[n]))
    BY <2>4, <2>5, Zenon
  <2>7. QED BY <2>2, <2>3, <2>6, Zenon
<1>6. ASSUME NEW n \in 1..(k + 1)
      PROVE  sum[n] \in Nat
  <2> DEFINE bad == {m \in Nat : m <= k /\ sum[(k + 1) - m] \notin Nat}
  <2>1. ASSUME bad # {}
        PROVE  FALSE
    <3>1. PICK m \in bad : \A l \in bad : m <= l
      BY <2>1, LeastExists
    <3>2. m # 0
      <4>1. (k + 1) - 0 = k + 1
        BY <1>1
      <4>2. QED BY <1>4, <3>1, <4>1
    <3>3. /\ m - 1 \in Nat /\ m - 1 <= k /\ m - 1 < m /\ (k + 1) - m \in 1..k
          /\ (k + 1) - (m - 1) = ((k + 1) - m) + 1
      BY <1>1, <3>1, <3>2
    <3>4. sum[((k + 1) - m) + 1] \in Nat
      <4>1. m \in Nat /\ ~(m <= m - 1)
        BY <3>1
      <4>2. m - 1 \notin bad
        BY <3>1, <4>1, Zenon
      <4>3. QED BY <3>3, <4>2
    <3>5. sum[(k + 1) - m] = w[(k + 1) - m] + sum[((k + 1) - m) + 1] /\ w[(k + 1) - m] \in Nat
      BY <1>2, <1>5, <3>3
    <3>6. sum[(k + 1) - m] \in Nat
      BY <3>4, <3>5
    <3>7. QED BY <3>1, <3>6
  <2>2. (k + 1) - n \in Nat /\ (k + 1) - n <= k /\ (k + 1) - ((k + 1) - n) = n
    BY <1>1
  <2>3. (k + 1) - n \notin bad
    BY <2>1
  <2> HIDE DEF bad
  <2>4. sum[(k + 1) - ((k + 1) - n)] \in Nat
    BY <2>2, <2>3 DEF bad
  <2>5. QED BY <2>2, <2>4
<1>7. QED BY <1>4, <1>5, <1>6 DEF EndSums, k

\* A longer end has no smaller sum.
LEMMA EndSumsFall ==
  ASSUME NEW rows \in Seq(Nat), NEW w \in [1..Len(rows) -> Nat], NEW sum, EndSums(sum, rows, w),
         NEW m \in 1..(Len(rows) + 1), NEW n \in 1..(Len(rows) + 1), m <= n
  PROVE  sum[n] <= sum[m]
<1> DEFINE k == Len(rows)
           bad == {l \in Nat : m <= l /\ l <= k + 1 /\ ~(sum[l] <= sum[m])}
<1>1. k \in Nat
  OBVIOUS
<1> HIDE DEF k
<1>2. /\ \A l \in 1..k : sum[l] = w[l] + sum[l + 1] /\ w[l] \in Nat
      /\ \A l \in 1..(k + 1) : sum[l] \in Nat
  BY DEF EndSums, k
<1>3. m \in 1..(k + 1) /\ n \in 1..(k + 1)
  BY DEF k
<1>4. ASSUME bad # {}
      PROVE  FALSE
  <2>1. PICK l \in bad : \A h \in bad : l <= h
    BY <1>4, LeastExists
  <2>2. sum[m] <= sum[m]
    BY <1>2, <1>3
  <2>3. l # m /\ l \in Nat /\ m <= l /\ l <= k + 1
    BY <2>1, <2>2
  <2>4. l - 1 \in 1..k /\ l - 1 \in Nat /\ m <= l - 1 /\ l - 1 <= k + 1 /\ (l - 1) + 1 = l
        /\ l \in 1..(k + 1) /\ l - 1 \in 1..(k + 1) /\ ~(l <= l - 1)
    BY <1>1, <1>3, <2>3
  <2>5. l - 1 \notin bad
    BY <2>1, <2>4, Zenon
  <2>6. sum[l - 1] <= sum[m]
    BY <2>4, <2>5
  <2>7. sum[l - 1] = w[l - 1] + sum[l] /\ w[l - 1] \in Nat
    BY <1>2, <2>4
  <2>8. sum[l - 1] \in Nat /\ sum[l] \in Nat /\ sum[m] \in Nat
    BY <1>2, <1>3, <2>4
  <2>9. sum[l] <= sum[m]
    BY <2>6, <2>7, <2>8
  <2>10. QED BY <2>1, <2>9
<1>5. QED
  <2>1. n \in Nat /\ n <= k + 1
    BY <1>1, <1>3
  <2> HIDE DEF bad
  <2>2. n \notin bad
    BY <1>4
  <2>3. QED BY <2>1, <2>2 DEF bad

\* The two sums, of every end of a history.
TokensFrom(rows) == [n \in 1..(Len(rows) + 1) |-> SumTokens(End(rows, n))]
SizesFrom(rows) == [n \in 1..(Len(rows) + 1) |-> SumSizes(End(rows, n))]
TokensOf(rows) == [n \in 1..Len(rows) |-> Tokens(rows[n])]

LEMMA TokensFromEnds ==
  ASSUME NEW rows \in Seq(Nat)
  PROVE  TokensOf(rows) \in [1..Len(rows) -> Nat] /\ EndSums(TokensFrom(rows), rows, TokensOf(rows))
<1> DEFINE k == Len(rows)
           w == TokensOf(rows)
<1>1. k \in Nat /\ \A n \in 1..k : rows[n] \in Nat
  OBVIOUS
<1>2. w \in [1..k -> Nat]
  BY <1>1, TokensType DEF TokensOf
<1>3. PICK p : Adds(p, w, k) /\ SumTokens(rows) = p[k]
  BY TokensAdd DEF TokensOf
<1>4. ASSUME NEW n \in 1..(k + 1)
      PROVE  TokensFrom(rows)[n] = p[k] - p[n - 1]
  <2> DEFINE tail == End(rows, n)
  <2>1. /\ tail \in Seq(Nat) /\ Len(tail) = k - (n - 1)
        /\ \A m \in 1..(k - (n - 1)) : tail[m] = rows[m + (n - 1)]
    BY <1>4, EndIs
  <2> HIDE DEF tail
  <2>2. PICK q : Adds(q, TokensOf(tail), k - (n - 1)) /\ SumTokens(tail) = q[k - (n - 1)]
    <3>1. \E q : Adds(q, TokensOf(tail), Len(tail)) /\ SumTokens(tail) = q[Len(tail)]
      BY <2>1, TokensAdd DEF TokensOf
    <3>2. QED BY <2>1, <3>1
  <2>3. n - 1 \in 0..k /\ k - (n - 1) \in 0..(k - (n - 1)) /\ (k - (n - 1)) + (n - 1) = k
    BY <1>1
  <2>4. \A m \in 1..(k - (n - 1)) : TokensOf(tail)[m] = w[m + (n - 1)]
    <3>1. \A m \in 1..(k - (n - 1)) : m + (n - 1) \in 1..k
      BY <1>1
    <3>2. QED BY <2>1, <3>1 DEF TokensOf
  <2>5. \A m \in 0..(k - (n - 1)) : q[m] = p[m + (n - 1)] - p[n - 1]
    <3> DEFINE b == n - 1
               c == k - b
    <3> HIDE DEF k, w, b, c
    <3>1. /\ k \in Nat /\ w \in [1..k -> Nat] /\ Adds(p, w, k) /\ b \in 0..k
          /\ c \in Nat /\ c = k - b
          /\ Adds(q, TokensOf(tail), c)
          /\ EndOf(TokensOf(tail), w, b, c)
      BY <1>1, <1>2, <1>3, <2>2, <2>3, <2>4 DEF b, c, EndOf
    <3>2. SumsBeyond(q, p, b, c)
      BY <3>1, SumsOfEnd, Zenon
    <3>3. QED BY <3>2 DEF b, c, SumsBeyond
  <2>6. q[k - (n - 1)] = p[k] - p[n - 1]
    BY <2>3, <2>5, Zenon
  <2>7. QED BY <2>2, <2>6 DEF TokensFrom, tail
<1>5. QED BY <1>2, <1>3, <1>4, EndsAddUp

LEMMA SizesFromEnds ==
  ASSUME NEW rows \in Seq(Nat)
  PROVE  EndSums(SizesFrom(rows), rows, rows)
<1> DEFINE k == Len(rows)
<1>1. k \in Nat /\ rows \in [1..k -> Nat]
  OBVIOUS
<1>2. PICK p : Adds(p, rows, k) /\ SumSizes(rows) = p[k]
  BY SizesAdd
<1>3. ASSUME NEW n \in 1..(k + 1)
      PROVE  SizesFrom(rows)[n] = p[k] - p[n - 1]
  <2> DEFINE tail == End(rows, n)
  <2>1. /\ tail \in Seq(Nat) /\ Len(tail) = k - (n - 1)
        /\ \A m \in 1..(k - (n - 1)) : tail[m] = rows[m + (n - 1)]
    BY <1>3, EndIs
  <2> HIDE DEF tail
  <2>2. PICK q : Adds(q, tail, k - (n - 1)) /\ SumSizes(tail) = q[k - (n - 1)]
    <3>1. \E q : Adds(q, tail, Len(tail)) /\ SumSizes(tail) = q[Len(tail)]
      BY <2>1, SizesAdd
    <3>2. QED BY <2>1, <3>1
  <2>3. n - 1 \in 0..k /\ k - (n - 1) \in 0..(k - (n - 1)) /\ (k - (n - 1)) + (n - 1) = k
    BY <1>1
  <2>4. \A m \in 0..(k - (n - 1)) : q[m] = p[m + (n - 1)] - p[n - 1]
    <3> DEFINE b == n - 1
               c == k - b
    <3> HIDE DEF k, b, c
    <3>1. /\ k \in Nat /\ rows \in [1..k -> Nat] /\ Adds(p, rows, k) /\ b \in 0..k
          /\ c \in Nat /\ c = k - b
          /\ Adds(q, tail, c) /\ EndOf(tail, rows, b, c)
      BY <1>1, <1>2, <2>1, <2>2, <2>3 DEF b, c, EndOf
    <3>2. SumsBeyond(q, p, b, c)
      BY <3>1, SumsOfEnd, Zenon
    <3>3. QED BY <3>2 DEF b, c, SumsBeyond
  <2>5. q[k - (n - 1)] = p[k] - p[n - 1]
    BY <2>3, <2>4, Zenon
  <2>6. QED BY <2>2, <2>5 DEF SizesFrom, tail
<1>4. QED BY <1>1, <1>2, <1>3, EndsAddUp

-----------------------------------------------------------------------------
(***************************************************************************)
(* The history that is kept.                                               *)
(***************************************************************************)
\* Both accumulators are sums of the end the loop has walked, which fits; when
\* the loop is left before its end, the row before does not.
EndKept ==
  pc \in {"truncate", "assemble", "built"} =>
    /\ kept = SizesFrom(mapped)[cutoff + 1]
    /\ accumulated = TokensFrom(mapped)[cutoff + 1]
    /\ pc = "truncate" => cutoff = i
    /\ pc # "truncate" /\ cutoff > 0 => TokensFrom(mapped)[cutoff] > budget

\* A history is a sequence of lengths.
LEMMA MappedIsHistory ==
  ASSUME NEW history \in Seq(Sizes)
  PROVE  history \in Seq(Nat) /\ Len(history) \in Nat
<1>1. Sizes \subseteq Nat
  BY PreparationAssumption
<1>2. history \in Seq(Nat)
  BY <1>1, SeqMonotonic
<1>3. QED BY <1>2

LEMMA EndKeptStep ==
  ASSUME Inv, Inv', EndKept, [Next]_vars
  PROVE  EndKept'
<1> DEFINE k == Len(mapped)
           tokens == TokensFrom(mapped)
           sizes == SizesFrom(mapped)
<1>1. mapped \in Seq(Nat) /\ k \in Nat /\ mapped' \in Seq(Nat) /\ Len(mapped') \in Nat
  BY MappedIsHistory DEF Inv, TypeOK, PromptOK
<1>2. EndSums(tokens, mapped, TokensOf(mapped)) /\ EndSums(sizes, mapped, mapped)
  BY <1>1, TokensFromEnds, SizesFromEnds
<1>3. CASE DetectIntent
  BY <1>3 DEF DetectIntent, EndKept
<1>4. CASE Build
  <2>1. i' = Len(mapped') /\ cutoff' = Len(mapped') /\ accumulated' = 0 /\ kept' = 0
        /\ pc' = "truncate"
    BY <1>4 DEF Build
  <2>2. TokensFrom(mapped')[Len(mapped') + 1] = 0 /\ SizesFrom(mapped')[Len(mapped') + 1] = 0
    BY <1>1, TokensFromEnds, SizesFromEnds DEF EndSums
  <2>3. QED BY <2>1, <2>2 DEF EndKept
<1>5. CASE Keep
  <2>1. /\ pc = "truncate" /\ i > 0 /\ pc' = pc /\ mapped' = mapped
        /\ accumulated' = accumulated + Tokens(mapped[i])
        /\ cutoff' = i - 1 /\ i' = i - 1
        /\ kept' = kept + mapped[i]
    BY <1>5 DEF Keep, promptVars
  <2>2. kept = sizes[i + 1] /\ accumulated = tokens[i + 1]
    BY <2>1 DEF EndKept
  <2>3. i \in 1..k /\ (i - 1) + 1 = i /\ i + 1 \in 1..(k + 1)
    BY <1>1, <2>1 DEF Inv, TypeOK, LoopOK
  <2>4. /\ tokens[i] = Tokens(mapped[i]) + tokens[i + 1]
        /\ sizes[i] = mapped[i] + sizes[i + 1]
        /\ tokens[i + 1] \in Nat /\ sizes[i + 1] \in Nat
    BY <1>2, <2>3 DEF EndSums, TokensOf
  <2>5. mapped[i] \in Nat /\ Tokens(mapped[i]) \in Nat
    <3>1. mapped[i] \in Nat
      BY <1>1, <2>3
    <3>2. QED BY <3>1, TokensType
  <2>6. kept' = sizes[i] /\ accumulated' = tokens[i]
    BY <2>1, <2>2, <2>4, <2>5
  <2>7. QED BY <2>1, <2>3, <2>6 DEF EndKept
<1>6. CASE Stop
  <2>1. /\ pc = "truncate" /\ i > 0 /\ pc' = "assemble" /\ cutoff' = i
        /\ ~(accumulated + Tokens(mapped[i]) <= budget)
        /\ mapped' = mapped /\ budget' = budget /\ accumulated' = accumulated /\ kept' = kept
    BY <1>6 DEF Stop, Fits, promptVars
  <2>2. kept = sizes[i + 1] /\ accumulated = tokens[i + 1]
    BY <2>1 DEF EndKept
  <2>3. i \in 1..k /\ budget \in Nat
    BY <1>1, <2>1 DEF Inv, TypeOK, LoopOK, PromptOK
  <2>4. tokens[i] = Tokens(mapped[i]) + tokens[i + 1] /\ tokens[i + 1] \in Nat
    BY <1>2, <2>3 DEF EndSums, TokensOf
  <2>5. Tokens(mapped[i]) \in Nat
    <3>1. mapped[i] \in Nat
      BY <1>1, <2>3
    <3>2. QED BY <3>1, TokensType
  <2>6. tokens[i] > budget
    BY <2>1, <2>2, <2>3, <2>4, <2>5
  <2>7. QED BY <2>1, <2>2, <2>6 DEF EndKept
<1>7. CASE Exhaust
  BY <1>7 DEF Exhaust, promptVars, loopVars, EndKept
<1>8. CASE Assemble
  BY <1>8 DEF Assemble, promptVars, loopVars, EndKept
<1>9. CASE UNCHANGED vars
  BY <1>9 DEF vars, promptVars, loopVars, EndKept
<1>10. QED BY <1>3, <1>4, <1>5, <1>6, <1>7, <1>8, <1>9 DEF Next

LEMMA EndKeptInvariance == Spec => []EndKept
<1>1. Init => EndKept
  BY DEF Init, EndKept
<1>2. Inv /\ Inv' /\ EndKept /\ [Next]_vars => EndKept'
  BY EndKeptStep
<1>3. QED BY <1>1, <1>2, Invariance, PTL DEF Spec

\* What truncateHistory() keeps is the longest end of the history within the
\* budget: it leaves no gap, and one row more would not have fitted.  For
\* histories and rows of any length, and any budget.
THEOREM HistoryKeepsLongestEnd == Spec => []LongestEnd
<1>1. ASSUME Inv, EndKept
      PROVE  LongestEnd
  <2> SUFFICES ASSUME pc = "built"
               PROVE  /\ kept = Sum(Rows(cutoff + 1), LAMBDA size : size)
                      /\ \A n \in 1..(Len(mapped) + 1) :
                           Sum(Rows(n), Tokens) <= budget <=> n > cutoff
    BY DEF LongestEnd
  <2> DEFINE k == Len(mapped)
             tokens == TokensFrom(mapped)
  <2>1. mapped \in Seq(Nat) /\ k \in Nat
    BY <1>1, MappedIsHistory DEF Inv, TypeOK, PromptOK
  <2>2. TokensOf(mapped) \in [1..k -> Nat] /\ EndSums(tokens, mapped, TokensOf(mapped))
    BY <2>1, TokensFromEnds
  <2>3. /\ cutoff \in 0..k /\ budget \in Nat /\ cutoff + 1 \in 1..(k + 1)
        /\ cutoff \in Nat
    BY <1>1, <2>1 DEF Inv, TypeOK, LoopOK, PromptOK
  <2>4. \A n \in 1..(k + 1) : tokens[n] = Sum(Rows(n), Tokens)
    BY DEF TokensFrom, SumTokens, End, Rows
  <2>5. SizesFrom(mapped)[cutoff + 1] = Sum(Rows(cutoff + 1), LAMBDA size : size)
    BY <2>3 DEF SizesFrom, SumSizes, End, Rows
  <2>6. kept = Sum(Rows(cutoff + 1), LAMBDA size : size)
    BY <1>1, <2>5 DEF EndKept
  <2>7. tokens[cutoff + 1] <= budget /\ (cutoff > 0 => tokens[cutoff] > budget)
    BY <1>1 DEF EndKept, Inv, LoopInv
  <2>8. ASSUME NEW n \in 1..(k + 1)
        PROVE  tokens[n] <= budget <=> n > cutoff
    <3>1. tokens[n] \in Nat /\ tokens[cutoff + 1] \in Nat
      BY <2>2, <2>3 DEF EndSums
    <3>2. CASE n > cutoff
      <4>1. cutoff + 1 <= n
        BY <2>1, <2>3, <3>2
      <4>2. tokens[n] <= tokens[cutoff + 1]
        BY <2>1, <2>2, <2>3, <4>1, EndSumsFall
      <4>3. QED BY <2>3, <2>7, <3>1, <3>2, <4>2
    <3>3. CASE ~(n > cutoff)
      <4>1. n <= cutoff /\ cutoff > 0 /\ cutoff \in 1..(k + 1)
        BY <2>1, <2>3, <3>3
      <4>2. tokens[cutoff] <= tokens[n] /\ tokens[cutoff] \in Nat
        BY <2>1, <2>2, <4>1, EndSumsFall DEF EndSums
      <4>3. QED BY <2>3, <2>7, <3>1, <3>3, <4>1, <4>2
    <3>4. QED BY <3>2, <3>3
  <2>9. QED BY <2>4, <2>6, <2>8
<1>2. QED BY <1>1, Invariance, EndKeptInvariance, PTL
==============================================================================
