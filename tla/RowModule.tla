------------------------------- MODULE RowModule -------------------------------
(***************************************************************************)
(* The column counter and the shift clock of the panels (class RowModule   *)
(* of hub75.py).  A shift puts Pairs pixel pairs on the pins: pixel k of   *)
(* the upper half of a panel and pixel k of its lower half at a time.      *)
(***************************************************************************)
EXTENDS Integers

CONSTANT Pairs (* Pixel pairs of a shift: 256, 4 panels of 64 columns.     *)

ASSUME PairsAssumption == Pairs \in Nat /\ Pairs > 0

VARIABLES
  column_counter, (* Counts the addresses of a shift and the delay after.  *)
  buffer_counter, (* column_counter one clock ago: where the data is.      *)
  shifting,       (* A shift is going on.                                  *)
  clk             (* The shift clock of the panels.                        *)

row_module_vars == <<column_counter, buffer_counter, shifting, clk>>

OutputDelay == 2
ColumnMax == 2 * Pairs + 1 + OutputDelay

(* Which half of the panel the data of this clock is for. *)
BufferSelect == buffer_counter % 2

RowModuleInit ==
  /\ column_counter = 0
  /\ buffer_counter = 0
  /\ shifting = FALSE
  /\ clk = 0

ShiftClock ==
  /\ clk' = IF buffer_counter < OutputDelay THEN 0 ELSE buffer_counter % 2
  /\ buffer_counter' = column_counter

ShiftStart(start) ==
  /\ column_counter = 0
  /\ start
  /\ column_counter' = 1
  /\ shifting' = TRUE

\* Mutant: the end of a shift is never reported.
ShiftEndUnseen ==
  /\ column_counter = ColumnMax - 1
  /\ column_counter' = 0
  /\ UNCHANGED shifting

ShiftEnd ==
  /\ column_counter = ColumnMax - 1
  /\ column_counter' = 0
  /\ shifting' = FALSE

ShiftColumn ==
  /\ column_counter \in 1..(ColumnMax - 2)
  /\ column_counter' = column_counter + 1
  /\ UNCHANGED shifting

ShiftIdle(start) ==
  /\ column_counter = 0
  /\ ~start
  /\ UNCHANGED <<column_counter, shifting>>

RowModuleTick(start) ==
  /\ ShiftClock
  /\ \/ ShiftStart(start)
     \/ ShiftEnd
     \/ ShiftColumn
     \/ ShiftIdle(start)

RisingEdge == clk = 0 /\ clk' = 1

RowModuleTypeOK ==
  /\ column_counter \in 0..(ColumnMax - 1)
  /\ buffer_counter \in 0..(ColumnMax - 1)
  /\ shifting \in BOOLEAN
  /\ clk \in {0, 1}
=============================================================================
