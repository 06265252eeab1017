---------------------------- MODULE MCKnowledge ----------------------------
(***************************************************************************)
(* Knowledge for TLC: three texts, one for each way an entry can matter    *)
(* to the message.                                                         *)
(***************************************************************************)
EXTENDS Knowledge

NoMatch ==
  [title |-> 0, content |-> 0, inTitle |-> FALSE, inAliases |-> FALSE, inTags |-> FALSE,
   inContent |-> FALSE, titleTerms |-> 0, aliasTerms |-> 0, labelled |-> TRUE]

\* A hit of both strategies in the body, whose terms are also in the title: it
\* overtakes TagHit when the results are ranked again.
BodyHit == [NoMatch EXCEPT !.title = 20, !.content = 80, !.inContent = TRUE, !.titleTerms = 5]

\* A hit of both strategies by a tag, a weak one for pg_trgm.
TagHit == [NoMatch EXCEPT !.title = 30, !.inTags = TRUE, !.aliasTerms = 1]

\* Similar to the message and containing none of it, of another intent: a hit
\* of pg_trgm alone, below the minimum score.
Similar == [NoMatch EXCEPT !.title = 15, !.labelled = FALSE]

MCTexts == {BodyHit, TagHit, Similar}
MCLanguages == {"zh-TW", "en"}

EntrySymmetry == Permutations(Entries)
=============================================================================
