---------------------------- MODULE MCEventLoop ----------------------------
(* The instance of EventLoop: one connection, on which everything meets.   *)
EXTENDS EventLoop
=============================================================================
