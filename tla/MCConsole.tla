------------------------------- MODULE MCConsole -------------------------------
(***************************************************************************)
(* The socket's buffer takes less than the greeting and an answer, and     *)
(* out_data the greeting and an answer but no more.  "Panic done!" is half *)
(* of what the UART holds.                                                 *)
(***************************************************************************)
EXTENDS Console
=============================================================================
