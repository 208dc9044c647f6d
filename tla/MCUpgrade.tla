------------------------------ MODULE MCUpgrade ------------------------------
(* Three releases whose tokens are ordered differently; a configuration     *)
(* file has no sequences.                                                   *)
EXTENDS Upgrade

MCDaemonVersions == {<<0, 9, 9>>, <<0, 10, 0>>, <<1, 0, 1>>}
=============================================================================
