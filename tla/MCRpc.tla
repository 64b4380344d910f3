------------------------------- MODULE MCRpc -------------------------------
(* RpcChannel with two commands: either endpoint A submits both, or A and  *)
(* B submit one each.                                                      *)
EXTENDS RpcChannel

CONSTANTS A, B, c1, c2

MCPeers == {A, B}
MCCmds == {c1, c2}
OneSided == [c \in MCCmds |-> A]
TwoSided == [c \in MCCmds |-> IF c = c1 THEN A ELSE B]
BothWays == {OneSided, TwoSided}
OnlyOneSided == {OneSided}
OnlyTwoSided == {TwoSided}
ClientA == {A}
Nobody == {}
=============================================================================
