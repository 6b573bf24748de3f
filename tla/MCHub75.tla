-------------------------------- MODULE MCHub75 --------------------------------
(***************************************************************************)
(* The panel driver with its pixels on small instances: two outputs with   *)
(* two panels of two columns each.                                         *)
(***************************************************************************)
EXTENDS Hub75
=============================================================================
