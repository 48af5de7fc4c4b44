-------------------------- MODULE MCOpcuaSubscribe --------------------------
(* OpcuaSubscribe on small instances. *)
EXTENDS OpcuaFeed

CONSTANTS n1, n2

MCOneNode == <<n1>>
MCTwoNodes == <<n1, n2>>
=============================================================================
