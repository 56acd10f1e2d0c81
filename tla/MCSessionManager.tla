--------------------------- MODULE MCSessionManager ---------------------------
(* SessionManager on small instances: handlers and generated ids are          *)
(* interchangeable in the safety runs.                                        *)
EXTENDS SessionManager, TLC

CONSTANTS h1, h2, h3, a, x1, x2, x3, w

Symmetry == Permutations({x1, x2, x3} \cap Ids) \cup Permutations(Handlers)

=============================================================================
