--------------------------- MODULE MCModuleLoader ---------------------------
(***************************************************************************)
(* The part of etc/customize_edr.xml around the requests of clients, with  *)
(* the category bits of module_defines.h (logger 0, center_agent 1,        *)
(* file_monitor 3, rpcsrv 14, upgrade 17), and two modules that the file   *)
(* could name as well: one in two categories that declares a type twice,   *)
(* and one in no category.                                                 *)
(***************************************************************************)
EXTENDS ModuleLoader

MCModules == {"logger", "rpcsrv", "center_agent", "file_monitor", "upgrade",
              "sysinfo", "two_bits", "no_bits"}

MCCategories == {0, 1, 3, 8, 14, 17}

MCMsgIds == {"MSG_TYPE_LOG", "msg_req_cmd", "msg_result_cmd", "Update",
             "Monitor", "CENTER_MESSAGE_VIRUS_LIB_DATE"}

MCSettings ==
  << [module |-> "two_bits",     category |-> {3, 17}, load |-> TRUE,
      imt |-> << "msg_req_cmd", "Update", "msg_req_cmd" >>],
     [module |-> "logger",       category |-> {0},  load |-> TRUE,  imt |-> << >>],
     [module |-> "rpcsrv",       category |-> {14}, load |-> TRUE,
      imt |-> << "msg_result_cmd" >>],
     [module |-> "center_agent", category |-> {1},  load |-> TRUE,
      imt |-> << "CENTER_MESSAGE_VIRUS_LIB_DATE" >>],
     [module |-> "no_bits",      category |-> {},   load |-> TRUE,
      imt |-> << "Update" >>],
     [module |-> "file_monitor", category |-> {3},  load |-> TRUE,
      imt |-> << "Monitor", "msg_req_cmd" >>],
     [module |-> "upgrade",      category |-> {17}, load |-> TRUE,
      imt |-> << "Update", "CENTER_MESSAGE_VIRUS_LIB_DATE", "msg_req_cmd" >>],
     [module |-> "sysinfo",      category |-> {8},  load |-> FALSE, imt |-> << >>] >>

Entry(from, command, to, broadcast) ==
  [from |-> from, command |-> command, to |-> to, broadcast |-> broadcast]

(* The last two have a target of several bits and one of none.             *)
MCEntries ==
  << Entry({},   "MSG_TYPE_LOG",   {0},  FALSE),
     Entry({17}, "msg_result_cmd", {14}, FALSE),
     Entry({17}, "CENTER_MESSAGE_VIRUS_LIB_DATE", {1}, FALSE),
     Entry({1},  "Update",         {17}, FALSE),
     Entry({1},  "Monitor",        {3},  FALSE),
     Entry({14}, "msg_req_cmd",    {3},  TRUE),
     Entry({14}, "msg_req_cmd",    {1},  TRUE),
     Entry({14}, "msg_req_cmd",    {17}, TRUE),
     Entry({14}, "MSG_TYPE_LOG",   {0},  FALSE),
     Entry({3},  "msg_result_cmd", {14}, FALSE),
     Entry({3, 17}, "msg_req_cmd", {3, 17}, TRUE),
     Entry({3, 17}, "Update",      {},   TRUE) >>

MCCommands == [c \in {"MSG_TYPE_LOG", "msg_req_cmd", "msg_result_cmd", "Update"} |-> c]

(* rpcsrv, file_monitor and upgrade or the logger bit to their mask when   *)
(* they send requests and results (implements.cxx:124,                     *)
(* interface_monitor.cpp:527, upgrade_interface.cpp:219); the masks        *)
(* without it are the ones that the entries name.                          *)
MCSentAs ==
  { <<"rpcsrv", {0, 14}, "msg_req_cmd">>, <<"rpcsrv", {14}, "msg_req_cmd">>,
    <<"rpcsrv", {14}, "MSG_TYPE_LOG">>,
    <<"file_monitor", {0, 3}, "msg_result_cmd">>,
    <<"file_monitor", {3}, "msg_result_cmd">>,
    <<"upgrade", {0, 17}, "msg_result_cmd">>,
    <<"upgrade", {17}, "CENTER_MESSAGE_VIRUS_LIB_DATE">>,
    <<"center_agent", {1}, "Update">>, <<"center_agent", {1}, "Monitor">>,
    <<"two_bits", {3, 17}, "msg_req_cmd">>, <<"two_bits", {3, 17}, "Update">> }
=============================================================================
