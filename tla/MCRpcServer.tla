---------------------------- MODULE MCRpcServer ----------------------------
(* Instances of RpcServer; the configurations give the kinds of requests.  *)
EXTENDS RpcServer
=============================================================================
