------------------------ MODULE MCAnswerPreparation ------------------------
(***************************************************************************)
(* AnswerPreparation for TLC: three templates whose keywords overlap, one  *)
(* with the priority of another, two glossary rows of which one leads to   *)
(* the other, and a compound word that holds a keyword.                    *)
(***************************************************************************)
EXTENDS AnswerPreparation

MCWords == {"spec", "price", "oring", "seal", "sealing kit"}
MCHolds == [w \in MCWords |-> IF w = "sealing kit" THEN {w, "seal"} ELSE {w}]

Template(id, intent, keywords, priority) ==
  [id |-> id, intent |-> intent, keywords |-> keywords, priority |-> priority]
MCTemplates ==
  {Template(1, "faq", {"spec", "price"}, 0),
   Template(2, "product", {"spec", "seal"}, 10),
   Template(3, "quote", {"price"}, 10)}

MCGlossary == {{"oring", "sealing kit"}, {"seal", "price"}}

\* A message with the compound also holds its part.
MCMessages == {Text(some) : some \in SUBSET MCWords}

\* Around the rounding, and around the budget.
MCSizes == {0, 3, 4}
MCConfigured == {Undefined, 0, 8, 9}
=============================================================================
