-------------------------- MODULE RamAddressGenerator --------------------------
(***************************************************************************)
(* The pipeline that asks the memory for the pixels of a row (class        *)
(* RamAddressGenerator of hub75.py): a counter over the pixels, a look-up  *)
(* of the panel's configuration and the computation of the address, each   *)
(* one clock after the other.  An address is the tag of the pixel it is    *)
(* for; module PanelAddress has the arithmetic.                            *)
(***************************************************************************)
EXTENDS RowBuffers

CONSTANT RowCount   \* rows addressed by the row pins: 16

VARIABLES
  row,                 (* The row that is read: the row controller's.      *)
  address_counter,     (* The number of the pixel that enters the pipeline.*)
  started,             (* Some address of the row is still to be given.    *)
  counter_previous,    (* The pixel whose panel has been looked up ...     *)
  config_lookup_valid, (* ... if there is one.                             *)
  adr,                 (* The address offered to the memory port ...       *)
  adr_valid            (* ... if there is one.                             *)

generator_vars == <<address_counter, started, counter_previous,
                    config_lookup_valid, adr, adr_valid>>

Delay == 2
NoPixel == [number |-> -1, row |-> NoRow]
Running(start) == start \/ address_counter # 0

GeneratorInit ==
  /\ address_counter = 0
  /\ started = FALSE
  /\ counter_previous = 0
  /\ config_lookup_valid = FALSE
  /\ adr = NoPixel
  /\ adr_valid = FALSE

(* The pipeline moves when its address is taken.  The first term is meant  *)
(* to fill it after a start; it also holds when the counter is back at 0   *)
(* and the last addresses are still in the pipeline.                       *)
Move(enable) == address_counter < Delay \/ enable

CountPixels(start, move) ==
  address_counter' =
    CASE address_counter = 0 /\ start -> 1
      [] address_counter = 0 /\ ~start -> 0
      [] address_counter # 0 /\ move -> (address_counter + 1) % RowPixels
      [] OTHER -> address_counter

(* The registers of both stages hold while the pipeline does not move. *)
Stages(start, move) ==
  IF move
    THEN /\ config_lookup_valid' = Running(start)
         /\ counter_previous' = address_counter
         /\ adr_valid' = config_lookup_valid
         /\ adr' = [number |-> counter_previous, row |-> row]
    ELSE UNCHANGED <<config_lookup_valid, counter_previous, adr_valid, adr>>

\* Mutant: the end of the row is not noticed.
StartedForever(start, move) == started' = (started \/ start)

(* started ends with the last address leaving, even if start is high. *)
Started(start, move) ==
  started' = IF move /\ adr_valid /\ ~config_lookup_valid
               THEN FALSE
               ELSE started \/ start

GeneratorTick(start, enable) ==
  /\ CountPixels(start, Move(enable))
  /\ Stages(start, Move(enable))
  /\ Started(start, Move(enable))
=============================================================================
