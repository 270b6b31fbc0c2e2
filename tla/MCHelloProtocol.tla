-------------------------- MODULE MCHelloProtocol --------------------------
(* One other node.                                                           *)
EXTENDS HelloProtocol
CONSTANTS n1, me, otherIf    \* otherIf: the address of another interface
OneNode == {n1}
=============================================================================
