---------------------------- MODULE DisplaySchedule ----------------------------
(***************************************************************************)
(* What the panel driver promises whoever looks at the panel: binary code  *)
(* modulation.  Row after row, and in a row from the most significant      *)
(* plane to bit 0, every plane is lit once, without a break, for exactly   *)
(* 2^bit * BrightnessPsc clocks.  It may be dark in between for as long as *)
(* the driver likes.                                                       *)
(*                                                                         *)
(* Time is counted here: lit_clocks goes up in every clock the LEDs are    *)
(* on.  Whoever implements this has to count each of them, so a clock with *)
(* the LEDs on is never a stuttering step, and a time that is too long is  *)
(* no better than one that is too short.                                   *)
(***************************************************************************)
EXTENDS Integers

CONSTANTS BrightnessBits, BrightnessPsc, RowCount

VARIABLES
  row,        (* The row on the row pins.                                  *)
  bit,        (* The plane shown last.                                     *)
  lit_clocks, (* Clocks the LEDs have been on for it.                      *)
  lit         (* The LEDs are on.                                          *)

sched_vars == <<row, bit, lit_clocks, lit>>

Weight(b) == 2 ^ b * BrightnessPsc

(* The first plane shown is bit 0 of row 0; nothing is due before it. *)
Init ==
  /\ row = 0
  /\ bit = 1 % BrightnessBits
  /\ lit_clocks = Weight(bit)
  /\ lit = FALSE

(* Planes follow each other in the dark, each when the one before it has   *)
(* had its time.                                                           *)
NextPlane ==
  /\ ~lit /\ ~lit'
  /\ lit_clocks = Weight(bit)
  /\ lit_clocks' = 0
  /\ IF bit = 0
       THEN bit' = BrightnessBits - 1 /\ row' = (row + 1) % RowCount
       ELSE bit' = bit - 1 /\ row' = row

LightUp ==
  /\ ~lit /\ lit'
  /\ lit_clocks = 0
  /\ UNCHANGED <<row, bit, lit_clocks>>

(* A clock with the LEDs on, the last one when the time is complete. *)
Burn ==
  /\ lit
  /\ lit_clocks' = lit_clocks + 1
  /\ lit' = (lit_clocks' # Weight(bit))
  /\ UNCHANGED <<row, bit>>

Next == NextPlane \/ LightUp \/ Burn

Spec == Init /\ [][Next]_sched_vars
=============================================================================
