--------------------------- MODULE MCBreakpoints ---------------------------
(* Breakpoints on small instances; the clients are interchangeable.        *)
EXTENDS Breakpoints, TLC

CONSTANTS h1, h2, c

Symmetry == Permutations(Handlers)

=============================================================================
