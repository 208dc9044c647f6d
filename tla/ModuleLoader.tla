---------------------------- MODULE ModuleLoader ----------------------------
(***************************************************************************)
(* The construction of a scheduler: the constructor of scheduler.cxx loads *)
(* the modules of the configuration one after the other and builds the     *)
(* module lists and the rules made from the message types that the modules *)
(* say they take; the constructor of cbd_scheduler.cxx then loads the      *)
(* configured rules.  Once the tables are complete a message is routed by  *)
(* looking its rules up.                                                   *)
(***************************************************************************)
EXTENDS MessageRules, FiniteSets

CONSTANTS
  Settings,    \* sequence of [module, category, load, imt]: <modules> of the file
  Entries,     \* sequence of [from, command, to, broadcast]: <messages> of the file
  Commands,    \* function from command names to message ids: <commands>
  Unresolved,  \* what get_hex_string leaves for a name not in <commands>
  SentAs       \* the <<module, mask, id>> that modules notify the scheduler of

ASSUME SettingsAssumption ==
  /\ Settings \in Seq([module : Modules, category : Mask, load : BOOLEAN,
                       imt : Seq(MsgIds)])
  /\ \A i, j \in DOMAIN Settings :
       Settings[i].module = Settings[j].module => i = j
  /\ Entries \in Seq([from : Mask, command : STRING, to : Mask, broadcast : BOOLEAN])
  /\ LogId \in MsgIds /\ Unresolved \notin MsgIds
  /\ SentAs \subseteq Modules \X Mask \X MsgIds

VARIABLES
  next,     \* the setting that load_modules_internal looks at
  infos,    \* _module_infos
  original, \* _original_message_rules
  logs,     \* number of log messages pushed so far
  phase,    \* "loading", "ready", or "failed" (the constructor threw)
  routed    \* the last routed message, as [by, mask, id], and, as to, the
            \* module that each call made for it goes to

loaderVars == <<next, infos, original, logs, phase, routed>>

Setting(m) == Settings[CHOOSE i \in DOMAIN Settings : Settings[i].module = m]

NotRouted == [to |-> << >>]

-----------------------------------------------------------------------------
(* store_module_info: one entry per bit of the mask.                       *)
StoreModuleInfo(lists, s) ==
  [c \in Categories |->
     IF c \in s.category THEN Append(lists[c], s.module) ELSE lists[c]]

(* The elements of a finite set in the order of visiting them; before says *)
(* which ones come before each element.                                    *)
InTurn(before) ==
  [i \in 1 .. Cardinality(DOMAIN before) |->
     CHOOSE t \in DOMAIN before : Cardinality(before[t]) = i - 1]

(* load_imt and convert_to_message_rule, for the entry at position p: the  *)
(* rules that it adds for id, as <<p, <<k, c>>>> for the k-th type that    *)
(* the module declares and each bit c of its mask.                         *)
LoadImt(lists, p, id) ==
  LET s == Setting(lists[p[1]][p[2]])
  IN  {p} \X ({ k \in DOMAIN s.imt : s.imt[k] = id } \X s.category)

(* Mutant: only the types of the module just loaded are read.              *)
Readings_NewestOnly(lists, id) ==
  UNION { LoadImt(lists, p, id) : p \in { q \in PositionsOf(lists) :
                                           lists[q[1]][q[2]] = Settings[next].module } }

(* load_module_imt traverses every entry stored so far, not only the ones  *)
(* of the module that has just been loaded...                              *)
Readings(lists, id) == UNION { LoadImt(lists, p, id) : p \in PositionsOf(lists) }

ReadBefore(u, v) == Before(u[1], v[1]) \/ (u[1] = v[1] /\ Before(u[2], v[2]))

(* ...in the order of the lists, types and bits, and appends a broadcast   *)
(* rule for each bit.                                                      *)
LoadModuleImt(lists, table) ==
  LET turns(id) == InTurn([v \in Readings(lists, id) |->
                             { u \in Readings(lists, id) : ReadBefore(u, v) }])
  IN  [id \in MsgIds |->
         table[id] \o [i \in DOMAIN turns(id) |->
                         [to |-> {turns(id)[i][2][2]}, broadcast |-> TRUE]]]

LoaderInit ==
  /\ next = 1
  /\ infos = [c \in Categories |-> << >>]
  /\ original = [id \in MsgIds |-> << >>]
  /\ logs \in {0, 1}     \* 1: load_server_config failed and that was logged
  /\ phase = "loading"
  /\ routed = NotRouted

(* The setting is not to be loaded.                                        *)
SkipModule ==
  /\ phase = "loading" /\ next \in DOMAIN Settings
  /\ ~ Settings[next].load
  /\ next' = next + 1
  /\ UNCHANGED <<infos, original, logs, phase, routed>>

(* The library or one of its functions is missing, or create returns NULL. *)
LoadFails ==
  /\ phase = "loading" /\ next \in DOMAIN Settings
  /\ Settings[next].load
  /\ next' = next + 1
  /\ logs' = logs + 1
  /\ UNCHANGED <<infos, original, phase, routed>>

(* The module is created and stored; a module stored in no list changes no *)
(* rule.                                                                   *)
LoadModule ==
  /\ phase = "loading" /\ next \in DOMAIN Settings
  /\ Settings[next].load
  /\ next' = next + 1
  /\ infos' = StoreModuleInfo(infos, Settings[next])
  /\ logs' = logs + 1
  /\ original' = IF Settings[next].category # {}
                 THEN LoadModuleImt(infos', original)
                 ELSE original
  /\ UNCHANGED <<phase, routed>>

(* The constructor succeeds when at least one module was loaded.           *)
LoadFinished ==
  /\ phase = "loading" /\ next \notin DOMAIN Settings
  /\ IF PositionsOf(infos) = {}
     THEN phase' = "failed" /\ UNCHANGED logs
     ELSE phase' = "ready" /\ logs' = logs + 1
  /\ UNCHANGED <<next, infos, original, routed>>

-----------------------------------------------------------------------------
(* load_message_rules: entries with the same key accumulate.  get_single   *)
(* finds the value of a command; for a name that is not a command the      *)
(* buffer still holds the text of the category looked up before it, which  *)
(* is no message id.                                                       *)
MessageIdOf(e) ==
  IF e.command \in DOMAIN Commands THEN Commands[e.command] ELSE Unresolved

Key(e) == <<e.from, MessageIdOf(e)>>

EntriesFor(key) == { i \in DOMAIN Entries : Key(Entries[i]) = key }

ConfigMessageRules ==
  LET turns(key) == InTurn([i \in EntriesFor(key) |-> { j \in EntriesFor(key) : j < i }])
  IN  [specific |-> [key \in { Key(Entries[i]) : i \in DOMAIN Entries } |->
                       [n \in DOMAIN turns(key) |->
                          [to        |-> Entries[turns(key)[n]].to,
                           broadcast |-> Entries[turns(key)[n]].broadcast]]],
       plain |-> << >>]

(* dispatch_module_message (and, with is_sync, handle_module_message): the *)
(* calls of assign, which are made in their order, and whose they are.     *)
DispatchModuleMessage(category, id) ==
  LET rules == FindMessageRule(ConfigMessageRules, original, category, id)
  IN  [call \in Calls(infos, rules) |-> CallTarget(infos, rules, call)]

(* A log message of the scheduler itself.                                  *)
RouteLog ==
  /\ phase = "ready"
  /\ routed' = [by |-> "scheduler", mask |-> {}, id |-> LogId,
                to |-> DispatchModuleMessage({}, LogId)]
  /\ UNCHANGED <<next, infos, original, logs, phase>>

(* A message that a loaded module notified the scheduler of.               *)
Route ==
  /\ phase = "ready"
  /\ \E s \in SentAs :
       /\ \E p \in PositionsOf(infos) : infos[p[1]][p[2]] = s[1]
       /\ routed' = [by |-> s[1], mask |-> s[2], id |-> s[3],
                     to |-> DispatchModuleMessage(s[2], s[3])]
  /\ UNCHANGED <<next, infos, original, logs, phase>>

(* create_module returned NULL to the daemon, which ends.                  *)
Failed == phase = "failed" /\ UNCHANGED loaderVars

LoaderNext == SkipModule \/ LoadFails \/ LoadModule \/ LoadFinished
        \/ RouteLog \/ Route \/ Failed

LoaderSpec == LoaderInit /\ [][LoaderNext]_loaderVars

-----------------------------------------------------------------------------
(* What has been loaded, and in which order.                               *)
Loaded == { infos[p[1]][p[2]] : p \in PositionsOf(infos) }

LoadIndex(m) == CHOOSE i \in DOMAIN Settings : Settings[i].module = m

Declared(m, id) == { k \in DOMAIN Setting(m).imt : Setting(m).imt[k] = id }

LoadedFrom(m) == { n \in Loaded : LoadIndex(n) >= LoadIndex(m) }

(* Reference: the rules for id.  A module m with several bits is in a list *)
(* d for each of them and has a rule to each bit c; and its types are read *)
(* again at the load of each module n after it.                            *)
DeclaredRules(id) ==
  UNION { {m} \X Setting(m).category \X Declared(m, id) \X LoadedFrom(m)
              \X Setting(m).category : m \in Loaded }

RulesTo(id, to) == { r \in DeclaredRules(id) : r[5] \in to }

(* Reference: is m among the modules that the entry e hands a message to.  *)
EntryReaches(e, m) ==
  LET members(c) == { n \in Loaded : c \in Setting(n).category }
  IN  \E c \in e.to :
        /\ \A d \in e.to : c =< d
        /\ m \in members(c)
        /\ e.broadcast \/ \A n \in members(c) : LoadIndex(m) =< LoadIndex(n)

CallsMade(m) == { call \in DOMAIN routed.to : routed.to[call] = m }

(***************************************************************************)
(* Types of the tables that the scheduler keeps.                           *)
(***************************************************************************)
LoaderTypeOK ==
  /\ next \in 1 .. Len(Settings) + 1
  /\ infos \in ModuleInfoLists
  /\ original \in [MsgIds -> Seq(Rule)]
  /\ logs \in Nat
  /\ phase \in {"loading", "ready", "failed"}
  /\ \A call \in DOMAIN routed.to : routed.to[call] \in Modules

(***************************************************************************)
(* The tables have their types.  load_module calls load_module_imt, which  *)
(* goes through every module stored so far: the number of rules for a      *)
(* message id and a category is exactly what that repetition gives,        *)
(* whichever modules fail to load.  In particular every type a loaded      *)
(* module declares has a rule, and a type that only modules which failed   *)
(* to load declare has none.                                               *)
(***************************************************************************)
RulesFollowTheLoads ==
  /\ LoaderTypeOK
  /\ \A id \in MsgIds, c \in Categories :
       Cardinality({ i \in DOMAIN original[id] : original[id][i].to = {c} })
         = Cardinality(RulesTo(id, {c}))

(***************************************************************************)
(* The calls that dispatch_module_message makes for a message: those of    *)
(* the entries for the sender's mask if there are any, and only otherwise  *)
(* those of the declared types, once for each repeated rule.               *)
(***************************************************************************)
RoutedByEntriesOrDeclarations ==
  routed # NotRouted =>
    LET entries == EntriesFor(<<routed.mask, routed.id>>)
    IN  \A m \in Modules :
          Cardinality(CallsMade(m)) =
            IF m \notin Loaded THEN 0
            ELSE IF entries # {}
            THEN Cardinality({ i \in entries : EntryReaches(Entries[i], m) })
            ELSE Cardinality(RulesTo(routed.id, Setting(m).category))
=============================================================================
