---------------------------- MODULE MCInspection ----------------------------
(* Inspection on small instances.                                          *)
EXTENDS Inspection

CONSTANTS h1, h2, a, b

=============================================================================
