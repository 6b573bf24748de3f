----------------------------- MODULE MCPanelAddress -----------------------------
(***************************************************************************)
(* The address generator on a small instance: a chain of two panels of two *)
(* by four LEDs in two rows, in every rotation and with room for both next *)
(* to each other, above each other, or not.  Of the panels in the second   *)
(* place the memory has room at width 6 and not at width 8.                *)
(***************************************************************************)
EXTENDS PanelAddress

MCWidths == {6, 8}

MCPanelConfig ==
  [x : {0}, y : {0}, rot : 0..3]
  \cup {[x |-> 1, y |-> 0, rot |-> 1], [x |-> 0, y |-> 1, rot |-> 2]}
=============================================================================
