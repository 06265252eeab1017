------------------------------- MODULE Intent -------------------------------
(***************************************************************************)
(* IntentService.detect() (src/src/intent/intent.service.ts) as operators. *)
(* A text is the set of the words that String.includes() finds in it; a    *)
(* word may hold others (a compound holds its parts).  The blanks between  *)
(* appended synonyms, across which no seeded keyword reaches, are left out.*)
(***************************************************************************)
EXTENDS Integers, FiniteSets, Sequences, SequencesExt

CONSTANTS Words,    \* keywords, glossary terms and synonyms, in lower case
          Holds,    \* Holds[w]: the words found in word w, itself among them
          NoLabel   \* intentLabel: null

ASSUME IntentAssumption ==
  /\ Holds \in [Words -> SUBSET Words]
  /\ \A w \in Words : w \in Holds[w]

\* The words found in a text that holds those of 'some'.
Text(some) == UNION {Holds[w] : w \in some}

\* Mutant of Expanded: where there are synonyms, they replace the input.
ExpandedOnly(glossary, words) ==
  LET hits == {forms \in glossary : forms \cap words # {}}
  IN IF hits = {} THEN words ELSE UNION {Text(forms) : forms \in hits}

\* expandWithGlossary(): a glossary row is the set of its forms, the term and
\* its synonyms; all are appended when the input holds one of them.
Expanded(glossary, words) ==
  words \cup UNION {Text(forms) : forms \in {forms \in glossary : forms \cap words # {}}}

\* What the table guarantees: id is the primary key, intent is unique.
TemplateTable(templates) ==
  \A s, t \in templates : s.id = t.id \/ s.intent = t.intent => s = t

\* Mutant of Before: the query orders by id only.
BeforeById(s, t) == s.id < t.id

\* The order of the query: by falling priority, then by id.
Before(s, t) == s.priority > t.priority \/ (s.priority = t.priority /\ s.id < t.id)

\* findAllTemplates().
FindAllTemplates(templates) ==
  CHOOSE rows \in SetToSeqs(templates) :
    \A m, n \in DOMAIN rows : m < n => Before(rows[m], rows[n])

\* detect(): the intent of the first template with a keyword in the text.
Detect(templates, glossary, words) ==
  LET ordered == FindAllTemplates(templates)
      text == Expanded(glossary, words)
      hits == {i \in DOMAIN ordered : ordered[i].keywords \cap text # {}}
  IN IF hits = {} THEN NoLabel
     ELSE ordered[CHOOSE i \in hits : \A j \in hits : i <= j].intent
=============================================================================
