---------------------------- MODULE MCDapClient ----------------------------
(* DapClient on small instances; the callers are interchangeable.          *)
EXTENDS DapClient, TLC

CONSTANTS c1, c2, c3

Symmetry == Permutations(Callers)

=============================================================================
