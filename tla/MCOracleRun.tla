----------------------------- MODULE MCOracleRun -----------------------------
(* Two nodes and four paths: 1 is blocked by policy 1 on n1 and is the     *)
(* first canary candidate; 2 is blocked by policies 1 and 2 on n2; 3 is    *)
(* dead and no policy selects it; 4 comes from a node agent and is denied  *)
(* by a policy the CNI ignores.                                            *)
EXTENDS OracleRun
MCPolicies == 1..3
MCNodeOf == <<"n1", "n2", "n2", "n1">>
MCDenied == <<{1}, {1, 2}, {}, {3}>>
=============================================================================
