----------------------------- MODULE MCBuffers -----------------------------
(* Buffers on small instances.                                             *)
EXTENDS Buffers

=============================================================================
