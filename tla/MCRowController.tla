---------------------------- MODULE MCRowController ----------------------------
(***************************************************************************)
(* The panel driver's control on small instances.  All its counters are    *)
(* bounded by the constants, so nothing is constrained here.               *)
(***************************************************************************)
EXTENDS RowController
=============================================================================
