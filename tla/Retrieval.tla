----------------------------- MODULE Retrieval -----------------------------
(***************************************************************************)
(* Scoring and ranking of knowledge entries for one message                *)
(* (src/src/retrieval/services/postgres-retrieval.service.ts with          *)
(* src/src/retrieval/constants/retrieval-scoring.constants.ts), as         *)
(* operators.  What the text of an entry has to do with the message is a   *)
(* record; scores are in hundredths.  pg_trgm's similarity() is external:  *)
(* it is a number of the record.                                           *)
(***************************************************************************)
EXTENDS Integers, Sequences

\* title, content: similarity() of the column and the normalised message;
\* inTitle ... inContent: the column contains it (ILIKE); titleTerms: the
\* extracted terms found in the title; aliasTerms: the other terms found in
\* the aliases; labelled: the entry has the intent label of the message.
Text ==
  [title: 0..100, content: 0..100,
   inTitle: BOOLEAN, inAliases: BOOLEAN, inTags: BOOLEAN, inContent: BOOLEAN,
   titleTerms: Nat, aliasTerms: Nat, labelled: BOOLEAN]

Larger(m, n) == IF m >= n THEN m ELSE n
Smaller(m, n) == IF m <= n THEN m ELSE n

-----------------------------------------------------------------------------
\* retrieveWithIlike(): the WHERE clause over the four columns, and the score
\* of the first column that matches.
IlikeHit(x) == x.inTitle \/ x.inAliases \/ x.inContent \/ x.inTags
IlikeScore(x) ==
  CASE x.inTitle -> 90
    [] x.inAliases /\ ~x.inTitle -> 85
    [] x.inTags /\ ~x.inAliases /\ ~x.inTitle -> 70
    [] OTHER -> 50

\* retrieveWithTrgm(): the threshold is on the plain similarities, the score
\* on the boosted ones.
TrgmHit(x) == Larger(x.title, x.content) > 10 \/ x.inAliases \/ x.inTags
TrgmScore(x) ==
  Smaller(100, Larger((x.title * 120) \div 100, x.content)
                 + (IF x.inAliases THEN 10 ELSE 0) + (IF x.inTags THEN 5 ELSE 0))

Hit(strategy, x) == IF strategy = "trgm" THEN TrgmHit(x) ELSE IlikeHit(x)
Score(strategy, x) == IF strategy = "trgm" THEN TrgmScore(x) ELSE IlikeScore(x)

\* Mutant of Boosted: the score is not capped.
BoostedUncapped(x, score) == score + 5 * x.titleTerms + 4 * x.aliasTerms

\* The score after rerankWithTerms(): a bonus for each term found, capped.
Boosted(x, score) == Smaller(100, score + 5 * x.titleTerms + 4 * x.aliasTerms)

BoostAll(results) ==
  [i \in DOMAIN results |->
     LET r == results[i]
     IN [entry |-> r.entry, text |-> r.text, language |-> r.language,
         base |-> r.base, score |-> Boosted(r.text, r.score)]]

\* Array.prototype.sort by falling score, which is stable: the only element.
Sorted(results) ==
  LET before(i, j) == \/ results[i].score > results[j].score
                      \/ results[i].score = results[j].score /\ i < j
  IN {[i \in DOMAIN results |-> results[order[i]]] :
        order \in {order \in [DOMAIN results -> DOMAIN results] :
                    \A i, j \in DOMAIN results : i < j => before(order[i], order[j])}}

\* Mutant of Rerank: the boosted scores are not sorted again.
RerankUnsorted(terms, results) == {IF terms < 2 THEN results ELSE BoostAll(results)}

\* rerankWithTerms(), with the number of terms that extractTerms() found.
Rerank(terms, results) == IF terms < 2 THEN {results} ELSE Sorted(BoostAll(results))
=============================================================================
