------------------------------ MODULE MCSysTask ------------------------------
(* Instances of SysTask; the configuration gives the commands.             *)
EXTENDS SysTask
=============================================================================
