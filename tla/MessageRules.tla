---------------------------- MODULE MessageRules ----------------------------
(***************************************************************************)
(* How the category based scheduler finds the modules that a message goes  *)
(* to: the rule tables of scheduler.cxx and the lookup of                  *)
(* cbd_scheduler.cxx.                                                      *)
(*                                                                         *)
(* A category mask (module_category_t, one bit per category) is the set of *)
(* the indices of its set bits; CATEGORY_SCHEDULER (0) is the empty set.   *)
(***************************************************************************)
EXTENDS Integers, Sequences

CONSTANTS
  Modules,     \* the loadable modules (shared libraries)
  Categories,  \* the category bits in use, a subset of 0 .. CATEGORY_COUNT - 1
  MsgIds,      \* the values the property MESSAGE_ID can have
  LogId        \* MSG_TYPE_LOG, the one of log messages

ASSUME CategoriesAssumption == Categories \subseteq 0 .. 31

Mask == SUBSET Categories

Rule == [to : Mask, broadcast : BOOLEAN]

(* The module lists of the scheduler: one list of modules per category.    *)
ModuleInfoLists == [Categories -> Seq(Modules)]

(* A hash table whose missing keys and empty vectors are treated alike.    *)
RulesAt(table, key) == IF key \in DOMAIN table THEN table[key] ELSE << >>

(***************************************************************************)
(* Lookup.                                                                 *)
(***************************************************************************)

(* find_lssb_u32: a mask with several bits stands for its lowest one.      *)
CategoryIndex(mask) == CHOOSE i \in mask : \A j \in mask : i =< j

(* The configured rules: those for the sender's exact mask, else those for *)
(* the bare message id.                                                    *)
FindInConfigMessageRules(config, category, id) ==
  LET specific == RulesAt(config.specific, <<category, id>>)
  IN  IF specific # << >> THEN specific ELSE RulesAt(config.plain, id)

(* Mutant: the types that modules declare win over the configuration.      *)
FindMessageRule_DeclaredFirst(config, original, category, id) ==
  IF RulesAt(original, id) # << >>
  THEN RulesAt(original, id)
  ELSE FindInConfigMessageRules(config, category, id)

(* find_message_rule: configured rules win over the declared types.        *)
FindMessageRule(config, original, category, id) ==
  LET configured == FindInConfigMessageRules(config, category, id)
  IN  IF configured # << >> THEN configured ELSE RulesAt(original, id)

(* The modules one rule hands a message to, in the order of the calls.     *)
RuleTargets(infos, rule) ==
  IF rule.to = {}
  THEN << >>
  ELSE LET list == infos[CategoryIndex(rule.to)]
       IN  IF rule.broadcast \/ list = << >> THEN list ELSE << Head(list) >>

(***************************************************************************)
(* The calls that handing over a message consists of: call <<r, k>> goes   *)
(* to the k-th target of the r-th rule, and calls are made in this order.  *)
(***************************************************************************)
Calls(infos, rules) ==
  UNION { {r} \X DOMAIN RuleTargets(infos, rules[r]) : r \in DOMAIN rules }

CallTarget(infos, rules, call) == RuleTargets(infos, rules[call[1]])[call[2]]

Before(a, b) == a[1] < b[1] \/ (a[1] = b[1] /\ a[2] < b[2])

(* c is the next of the calls (or list positions) S.                       *)
IsFirst(c, S) == c \in S /\ \A d \in S : d = c \/ Before(c, d)

(* traverse_module_infos visits the entries of the lists in this order.    *)
PositionsOf(infos) == UNION { {c} \X DOMAIN infos[c] : c \in Categories }
=============================================================================
