------------------------------- MODULE MCMcp -------------------------------
(* Mcp on small instances.                                                 *)
EXTENDS Mcp, TLC

CONSTANTS a, b

\* Two stops of one session; the other one runs, ends and is removed.
MCStops == a :> 2 @@ b :> 0

=============================================================================
