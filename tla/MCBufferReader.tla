----------------------------- MODULE MCBufferReader -----------------------------
(***************************************************************************)
(* The buffer reader on small instances: two outputs with one panel of two *)
(* columns each, so that a row is eight pixels and both the turn from one  *)
(* port to the next and the wrap of the counters happen.                   *)
(***************************************************************************)
EXTENDS BufferReader
=============================================================================
