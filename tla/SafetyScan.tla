----------------------------- MODULE SafetyScan -----------------------------
(***************************************************************************)
(* scanPrompt() and checkConfidentiality() of src/src/safety/safety        *)
(* .service.ts, and what steps 3 and 4 of run() make of their answers, as  *)
(* operators on the cached rows.  A message is the set of the keys that    *)
(* includes() finds in it, and the set of those that match it as regular   *)
(* expressions.                                                            *)
(***************************************************************************)
EXTENDS Naturals

CONSTANTS Keys,      \* patterns of rules, keywords of blacklist entries
          Malformed  \* keys that new RegExp() rejects

Types == {"prompt_injection", "jailbreak", "confidential", "confidential_topic",
          "internal", "internal_topic", "pricing_sensitive"}

\* A row of safety_rules or of blacklist_entries (which has no isRegex).
Row == [key: Keys, type: Types, isRegex: BOOLEAN, isActive: BOOLEAN]

Message == [includes: SUBSET Keys, matches: SUBSET Keys]

\* One round of the loop over the rules; the exception of a malformed pattern
\* is caught in the round, and the loop goes on.
Matched(rule, message) ==
  IF rule.isRegex THEN rule.key \notin Malformed /\ rule.key \in message.matches
                  ELSE rule.key \in message.includes

Lowest(ids) == CHOOSE id \in ids : \A other \in ids : id <= other

\* ruleTypeToCategory().
RuleTypeToCategory(type) ==
  CASE type \in {"prompt_injection", "jailbreak"}          -> type
    [] type \in {"confidential", "confidential_topic"} -> "confidential_topic"
    [] type \in {"internal", "internal_topic"}         -> "internal_topic"
    [] OTHER                                           -> "blacklist_keyword"

\* Entries of these types are left to checkConfidentiality().
Secret(entry) == entry.type \in {"confidential", "internal"}

\* The entries of the blacklist that occur in the message.
Occurring(blacklist, message) ==
  {id \in DOMAIN blacklist : blacklist[id].key \in message.includes}

\* Mutant of MatchedRules: the first malformed pattern ends the loop.
MatchedRulesUntilError(rules, message) ==
  {id \in DOMAIN rules :
     /\ Matched(rules[id], message)
     /\ \A other \in DOMAIN rules :
          rules[other].isRegex /\ rules[other].key \in Malformed => id < other}

MatchedRules(rules, message) == {id \in DOMAIN rules : Matched(rules[id], message)}

\* scanPrompt(): the category of the first rule that matches, by id; then the
\* keywords that are not secret.
ScanPrompt(rules, blacklist, message) ==
  LET matched == MatchedRules(rules, message)
      generic == {id \in Occurring(blacklist, message) : ~Secret(blacklist[id])}
  IN IF matched # {} THEN RuleTypeToCategory(rules[Lowest(matched)].type)
     ELSE IF generic # {} THEN "blacklist_keyword" ELSE "not blocked"

\* checkConfidentiality().
CheckConfidentiality(blacklist, message) ==
  \E id \in Occurring(blacklist, message) : Secret(blacklist[id])

\* isSensitiveCategory() of the pipeline.
IsSensitiveCategory(category) ==
  category \in {"prompt_injection", "jailbreak", "confidential_topic", "internal_topic"}

\* Steps 3 and 4 of run(): the verdict that ChatPipeline takes as given.
Verdict(rules, blacklist, message) ==
  LET category == ScanPrompt(rules, blacklist, message)
  IN IF category # "not blocked"
     THEN IF IsSensitiveCategory(category) THEN "sensitive" ELSE "blocked"
     ELSE IF CheckConfidentiality(blacklist, message) THEN "confidential" ELSE "admitted"
=============================================================================
