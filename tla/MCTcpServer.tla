---------------------------- MODULE MCTcpServer ----------------------------
(***************************************************************************)
(* Instance of TcpServer for TLC.  Two clients and two connections, so     *)
(* that one client may come back from its address while the old connection *)
(* is still being destroyed; messages of three bytes and a buffer of so    *)
(* few that what is left of one message and the next make it move its      *)
(* contents down, or grow.                                                 *)
(***************************************************************************)
EXTENDS TcpServer

TwoClients == {1, 2}
NoneOrOne  == {0, 1}
=============================================================================
