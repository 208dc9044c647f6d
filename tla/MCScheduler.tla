---------------------------- MODULE MCScheduler ----------------------------
(***************************************************************************)
(* Modules of etc/customize_edr.xml: the logger, which runs on the main    *)
(* thread, and file_monitor, which is isolated, together or alone.         *)
(* The tables are the ones that ModuleLoader builds for them.              *)
(***************************************************************************)
EXTENDS Scheduler, SequencesExt, TLC

MCModules == {"logger", "rpcsrv", "file_monitor"}
MCCategories == {0, 3, 14}
MCMsgIds == {"MSG_TYPE_LOG", "msg_req_cmd", "msg_result_cmd"}

LoggerSetting ==
  [module |-> "logger", category |-> {0}, load |-> TRUE, imt |-> << >>]
RpcsrvSetting ==
  [module |-> "rpcsrv", category |-> {14}, load |-> TRUE,
   imt |-> << "msg_result_cmd" >>]
FileMonitorSetting ==
  [module |-> "file_monitor", category |-> {3}, load |-> TRUE,
   imt |-> << "msg_req_cmd" >>]

AllSettings == << LoggerSetting, RpcsrvSetting, FileMonitorSetting >>

MCEntries ==
  << [from |-> {},   command |-> "MSG_TYPE_LOG", to |-> {0}, broadcast |-> FALSE],
     [from |-> {3},  command |-> "MSG_TYPE_LOG", to |-> {0}, broadcast |-> FALSE],
     [from |-> {14}, command |-> "msg_req_cmd",  to |-> {3}, broadcast |-> TRUE] >>

(* Requests of rpcsrv go out with the configured mask, results of          *)
(* file_monitor with the logger bit added.                                 *)
MCSends ==
  [m \in MCModules |->
     CASE m = "rpcsrv"       -> { <<{14}, "msg_req_cmd">> }
       [] m = "file_monitor" -> { <<{0, 3}, "msg_result_cmd">> }
       [] OTHER              -> {}]

Loader ==
  INSTANCE ModuleLoader WITH
    Modules <- MCModules, Categories <- MCCategories, MsgIds <- MCMsgIds,
    LogId <- "MSG_TYPE_LOG", Settings <- AllSettings, Entries <- MCEntries,
    Commands <- [c \in MCMsgIds |-> c], Unresolved <- "0x2", SentAs <- {},
    next <- 1, infos <- << >>, original <- << >>, logs <- 0,
    phase <- "ready", routed <- << >>

LoadNext(tables, s) ==
  LET stored == Loader!StoreModuleInfo(tables.infos, s)
  IN  [infos |-> stored, original |-> Loader!LoadModuleImt(stored, tables.original)]

LoadAll(settings) ==
  FoldLeft(LoadNext, [infos |-> [c \in MCCategories |-> << >>],
                      original |-> [id \in MCMsgIds |-> << >>]], settings)

(* The tables of the logger and one isolated module that logs, and of the  *)
(* isolated module alone, written out for TLC, which evaluates the         *)
(* assumption once and the loader's tables at every use.                   *)
LoggerInfos == 0 :> << "logger" >> @@ 3 :> << "file_monitor" >> @@ 14 :> << >>
SingleInfos == 0 :> << >> @@ 3 :> << "file_monitor" >> @@ 14 :> << >>
DeclaredRules ==
  "MSG_TYPE_LOG" :> << >> @@ "msg_result_cmd" :> << >>
    @@ "msg_req_cmd" :> << [to |-> {3}, broadcast |-> TRUE] >>
MCConfigRules ==
  [specific |-> <<{}, "MSG_TYPE_LOG">>   :> << [to |-> {0}, broadcast |-> FALSE] >>
             @@ <<{3}, "MSG_TYPE_LOG">>  :> << [to |-> {0}, broadcast |-> FALSE] >>
             @@ <<{14}, "msg_req_cmd">>  :> << [to |-> {3}, broadcast |-> TRUE] >>,
   plain |-> << >>]

ASSUME TablesAreLoaded ==
  /\ LoadAll(<< LoggerSetting, FileMonitorSetting >>) =
       [infos |-> LoggerInfos, original |-> DeclaredRules]
  /\ LoadAll(<< FileMonitorSetting >>) = [infos |-> SingleInfos, original |-> DeclaredRules]
  /\ MCConfigRules = Loader!ConfigMessageRules

LoggerSends ==
  [m \in MCModules |-> IF m = "file_monitor" THEN { <<{3}, "MSG_TYPE_LOG">> } ELSE {}]
SingleModules == {"file_monitor"}
SingleSends == [m \in SingleModules |-> MCSends[m]]

MCIsolated == {"rpcsrv", "file_monitor"}

MCLog == [category |-> {}, id |-> "MSG_TYPE_LOG", src |-> None, n |-> 0]
OneLog == << MCLog >>
NoLog == << >>
=============================================================================
