---------------------------- MODULE MCCenterAgent ----------------------------
(* The instance of CenterAgent: two tasks and a few faults.                *)
EXTENDS CenterAgent
=============================================================================
