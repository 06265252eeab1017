-------------------------- MODULE AnswerPreparation --------------------------
(***************************************************************************)
(* What run() computes for a message that both safety checks let through:  *)
(* its intent label (step 5, IntentService.detect), and, once history and  *)
(* knowledge entries are there, the prompt (step 8, PromptBuilder.build in *)
(* src/src/chat/prompt-builder.ts).  Texts are their numbers of characters.*)
(* The loop that cuts the history is one action per round.  What the       *)
(* queries between the two steps return is chosen here.                    *)
(***************************************************************************)
EXTENDS Intent

CONSTANTS
  Templates, Glossary, \* rows that intent_templates and glossary_terms may hold
  Messages,            \* the sets of words a message may hold
  Sizes,               \* lengths a message, a history row, the RAG context may have
  Persona, Caution, CrossLanguage, \* lengths of the three fixed system texts
  Configured,          \* what getNumber('llm_max_context_tokens') may return
  Undefined,           \* ... when the key is absent or no number
  DefaultTokens,       \* 8000
  Buffer,              \* 200 tokens kept free
  MaxHistory           \* bound: rows of the history (getHistory returns at most 50)

ASSUME PreparationAssumption ==
  /\ IsFiniteSet(Templates)
  /\ \A t \in Templates : t.id \in Int /\ t.priority \in Int /\ t.intent # NoLabel
  /\ {} \in Messages /\ Messages \subseteq SUBSET Words
  /\ Sizes \subseteq Nat
  /\ {Persona, Caution, CrossLanguage, Buffer, DefaultTokens, MaxHistory} \subseteq Nat
  /\ Configured \subseteq Int \cup {Undefined}

VARIABLES
  pc,           \* the step of run(), or of the loop of truncateHistory()
  templates, glossary, \* the cache of IntentService
  words,        \* the words of the message
  label,        \* ctx.intentLabel
  fixed,        \* characters of the system messages and the user's message
  mapped,       \* the lengths of the history rows that truncateHistory() walks
  maxTokens,    \* maxContextTokens
  budget,       \* remainingBudget
  i,            \* the row the loop looks at next, from the newest
  accumulated,  \* its tokens so far
  cutoff,       \* the rows it drops so far: those up to this one
  kept,         \* characters of the rows after 'cutoff'
  estimated     \* estimatedTokens of the built prompt

intentVars == <<templates, glossary, words, label>>
promptVars == <<fixed, mapped, maxTokens, budget>>
loopVars == <<i, accumulated, cutoff, kept>>
vars == <<pc, intentVars, promptVars, loopVars, estimated>>

IntentOK ==
  /\ templates \subseteq Templates /\ TemplateTable(templates)
  /\ glossary \subseteq Glossary
  /\ words \in Messages
PromptOK ==
  /\ fixed \in Nat
  /\ mapped \in Seq(Sizes)
  /\ maxTokens \in Int
  /\ budget \in Nat
LoopOK ==
  /\ i \in 0..Len(mapped)
  /\ accumulated \in Nat
  /\ cutoff \in 0..Len(mapped)
  /\ kept \in Nat
TypeOK ==
  /\ pc \in {"detect", "build", "truncate", "assemble", "built"}
  /\ IntentOK /\ PromptOK /\ LoopOK
  /\ estimated \in Nat

Init ==
  /\ pc = "detect"
  /\ templates \in {rows \in SUBSET Templates : TemplateTable(rows)}
  /\ glossary \in SUBSET Glossary
  /\ words \in Messages
  /\ label = NoLabel
  /\ fixed = 0 /\ mapped = <<>> /\ maxTokens = 0 /\ budget = 0
  /\ i = 0 /\ accumulated = 0 /\ cutoff = 0 /\ kept = 0
  /\ estimated = 0

-----------------------------------------------------------------------------
\* Step 5: the label.
DetectIntent ==
  /\ pc = "detect"
  /\ pc' = "build"
  /\ label' = Detect(templates, glossary, words)
  /\ UNCHANGED <<templates, glossary, words, promptVars, loopVars, estimated>>

CharsPerToken == 3

\* estimateTokens(): rounded up.
Tokens(chars) == (chars + CharsPerToken - 1) \div CharsPerToken

Larger(m, n) == IF m >= n THEN m ELSE n

\* Mutant of Budget: the message itself is forgotten.
BudgetOfSystem(chars, message, max) == Larger(0, max - Tokens(chars) - Buffer)

\* Mutant of Budget: no Math.max(0, ...).
BudgetUnclamped(chars, message, max) == max - Tokens(chars + message) - Buffer

\* remainingBudget, from the characters of the system messages and the message.
Budget(chars, message, max) == Larger(0, max - Tokens(chars + message) - Buffer)

\* build() up to truncateHistory(): the system prompt, the RAG context (there
\* is one, step 7 saw a hit), the two notes; the budget.  The filter by role
\* keeps every row: run() stores user and assistant messages only.
\* Nothing reads the words and the tables again in this turn: they are cleared
\* here, so that TLC does not tell states apart by them.
Build ==
  /\ pc = "build"
  /\ pc' = "truncate"
  /\ \E rag, message \in Sizes, low, cross \in BOOLEAN, max \in Configured,
        length \in 0..MaxHistory :
       LET system == Persona + rag + (IF low THEN Caution ELSE 0)
                             + (IF cross THEN CrossLanguage ELSE 0)
       IN /\ maxTokens' = IF max = Undefined THEN DefaultTokens ELSE max
          /\ fixed' = system + message
          /\ budget' = Budget(system, message, maxTokens')
          /\ mapped' \in [1..length -> Sizes]
  /\ i' = Len(mapped')
  /\ cutoff' = Len(mapped')
  /\ accumulated' = 0
  /\ kept' = 0
  /\ templates' = {} /\ glossary' = {} /\ words' = {}
  /\ UNCHANGED <<label, estimated>>

Fits == accumulated + Tokens(mapped[i]) <= budget

\* A round of the loop that keeps its row.
Keep ==
  /\ pc = "truncate" /\ i > 0
  /\ Fits
  /\ accumulated' = accumulated + Tokens(mapped[i])
  /\ cutoff' = i - 1
  /\ kept' = kept + mapped[i]
  /\ i' = i - 1
  /\ UNCHANGED <<pc, intentVars, promptVars, estimated>>

\* Mutant of Stop: the long row is dropped, and the loop goes on.
StopSkips ==
  /\ pc = "truncate" /\ i > 0
  /\ ~Fits
  /\ i' = i - 1
  /\ UNCHANGED <<pc, intentVars, promptVars, accumulated, cutoff, kept, estimated>>

\* The break: the budget is exhausted.
Stop ==
  /\ pc = "truncate" /\ i > 0
  /\ ~Fits
  /\ cutoff' = i
  /\ pc' = "assemble"
  /\ UNCHANGED <<intentVars, promptVars, i, accumulated, kept, estimated>>

\* The loop ends with the oldest row.
Exhaust ==
  /\ pc = "truncate" /\ i = 0
  /\ pc' = "assemble"
  /\ UNCHANGED <<intentVars, promptVars, loopVars, estimated>>

\* The rest of build(): the estimate of all messages together.
Assemble ==
  /\ pc = "assemble"
  /\ pc' = "built"
  /\ estimated' = Tokens(fixed + kept)
  /\ UNCHANGED <<intentVars, promptVars, loopVars>>

Next == DetectIntent \/ Build \/ Keep \/ Stop \/ Exhaust \/ Assemble

Spec == Init /\ [][Next]_vars

-----------------------------------------------------------------------------
\* Of the templates that detect() would answer with if there were no other, it
\* answers with the one of the highest priority, and of those with the lowest
\* id; with none only if there is none (intent.service.ts: "evaluated in
\* priority-descending order; the first match wins").
AloneDetected(template) == Detect({template}, glossary, words) # NoLabel
BestTemplate ==
  pc = "build" =>
    \/ label = NoLabel /\ \A t \in templates : ~AloneDetected(t)
    \/ \E best \in templates :
         /\ label = best.intent
         /\ AloneDetected(best)
         /\ \A t \in templates : AloneDetected(t) =>
              t.priority < best.priority \/ (t.priority = best.priority /\ t.id >= best.id)

\* A glossary can only add: a message that has a label without it has one of
\* at least that priority with it.
GlossaryNeverHides ==
  pc = "build" =>
    \A plain \in templates :
      plain.intent = Detect(templates, {}, words)
        => \E t \in templates : t.intent = label /\ t.priority >= plain.priority

\* The prompt never exceeds the budget by its history: its estimate is at most
\* maxContextTokens less the buffer, or, when the fixed part alone is longer
\* than that, no more than the fixed part.  Each row is rounded up on its own
\* and the prompt as a whole.
WithinBudget ==
  pc = "built" => estimated <= Larger(Tokens(fixed), maxTokens - Buffer)

\* What is kept is the longest end of the history that fits: no row is skipped
\* and a newer one kept, and the row before it would not have fitted.
Sum(sizes, Measure(_)) == FoldLeft(LAMBDA sum, size : sum + Measure(size), 0, sizes)
Rows(from) == SubSeq(mapped, from, Len(mapped))
LongestEnd ==
  pc = "built" =>
    /\ kept = Sum(Rows(cutoff + 1), LAMBDA size : size)
    /\ \A n \in 1..(Len(mapped) + 1) : Sum(Rows(n), Tokens) <= budget <=> n > cutoff
=============================================================================
