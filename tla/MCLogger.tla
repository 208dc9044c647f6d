------------------------------ MODULE MCLogger ------------------------------
(* Instances of Logger; the configurations give the sizes.                 *)
EXTENDS Logger
=============================================================================
