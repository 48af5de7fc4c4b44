----------------------------- MODULE MCOpcuaNew -----------------------------
(* OpcuaNew with two nodes. *)
EXTENDS OpcuaNew

CONSTANTS n1, n2

MCDefaultRoots == <<n1, n2>>
MCNodeLists == {<<>>, <<n1, Unparsable>>, <<Unparsable, n2>>, <<n2>>}

(* None, one, a loop, one twice, and more than maxNodePerParent lets through. *)
MCReferenceLists ==
  {<<>>, <<n1>>, <<n2>>, <<n1, n2>>, <<n2, n2, n1>>, <<n1, n2, n2, n1>>, <<n2, n1, n1, n2>>}
=============================================================================
