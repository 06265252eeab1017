--------------------------- MODULE MCSafetyCache ---------------------------
(***************************************************************************)
(* SafetyCache for TLC: a rule that the seed knows and an administrator    *)
(* may have disabled, one that is malformed as a regular expression, and   *)
(* keywords of both kinds.                                                 *)
(***************************************************************************)
EXTENDS SafetyCache, TLC

MCKeys == {"jailbreak", "(bad", "NDA"}
MCMalformed == {"(bad"}

RowOf(key, type, isRegex, isActive) ==
  [key |-> key, type |-> type, isRegex |-> isRegex, isActive |-> isActive]
Disabled == RowOf("jailbreak", "jailbreak", FALSE, FALSE)
Broken == RowOf("(bad", "internal_topic", TRUE, TRUE)
Margin == RowOf("NDA", "pricing_sensitive", FALSE, TRUE)

MCSeedRules == <<RowOf("jailbreak", "jailbreak", FALSE, TRUE)>>
MCSeedEntries == <<RowOf("NDA", "confidential", FALSE, TRUE)>>

Both(rules, blacklist) == [tb \in Tables |-> IF tb = "rules" THEN rules ELSE blacklist]
MCInitial == {Both(<<>>, <<>>), Both(<<Broken, Disabled>>, <<Margin>>)}

Fields(key, type, isRegex, isActive) == RowOf(key, type, isRegex, isActive)
JobOf(tb, call, id, change) == [table |-> tb, call |-> call, id |-> id, change |-> change]
Disable == Fields(Unset, Unset, Unset, FALSE)
MCJobs ==
  {JobOf("rules", "create", 0, Fields("jailbreak", "prompt_injection", TRUE, Unset)),
   JobOf("rules", "exists", 2, Disable),
   JobOf("rules", "exists", 1, Fields(Unset, Unset, FALSE, TRUE)),
   JobOf("blacklist", "create", 0, Fields("NDA", "internal", Unset, Unset)),
   JobOf("blacklist", "exists", 1, Fields("jailbreak", "internal", Unset, Unset))}

MCMessages ==
  {[includes |-> some, matches |-> some \ MCMalformed] : some \in SUBSET MCKeys}

RequestSymmetry == Permutations(Requests)
=============================================================================
