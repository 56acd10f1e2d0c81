------------------------------ MODULE MCDaemon ------------------------------
(* Daemon on small instances.                                              *)
EXTENDS Daemon, TLC

CONSTANTS c1, c2, k1, k2, k3, v1, v2

\* The options and what they default to treat k1 and k2 alike.
Symmetry == Permutations(Clients) \cup Permutations({k1, k2})

\* Two MCP servers that are given different options, and a terminal where a third
\* variable was set.
MCFlags    == {[k \in Keys |-> IF k = given THEN v2 ELSE Unset] : given \in {k1, k2}}
MCDefaults == [k \in Keys |-> v1]
MCUserEnv  == [k \in Keys |-> IF k = k3 THEN v2 ELSE Unset]

=============================================================================
