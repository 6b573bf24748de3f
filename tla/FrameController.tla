---------------------------- MODULE FrameController ----------------------------
(***************************************************************************)
(* The frame controller of the panel driver (class FrameController of      *)
(* hub75.py).  It walks through the rows of the panel and, within a row,   *)
(* through the bit planes of the brightness code, from the most            *)
(* significant to bit 0.  For every plane it waits until the previous one  *)
(* has been lit for its time and the next one has been shifted into the    *)
(* panel, latches it and lights it for 2^bit * BrightnessPsc clocks.       *)
(*                                                                         *)
(* One step of this module is one rising edge of the system clock.  The    *)
(* values FSM statements give to a register override those of the          *)
(* synchronous block, as migen puts them last.                             *)
(***************************************************************************)
EXTENDS Integers

CONSTANTS
  BrightnessBits, (* Bit planes of a colour: 8.                            *)
  BrightnessPsc,  (* Clocks bit 0 is lit for: 16.                          *)
  CounterMax,     (* Clocks of a latch pulse and of the guard after it: 8. *)
  RowCount        (* Rows addressed by the row pins: 16, the values of a   *)
                  (* 4-bit signal.                                         *)

ASSUME FrameAssumption ==
  /\ BrightnessBits \in Nat /\ BrightnessBits > 1
  /\ BrightnessPsc \in Nat /\ BrightnessPsc > 0
  /\ CounterMax \in Nat /\ CounterMax > 1
  /\ RowCount \in Nat /\ RowCount > 1
  /\ \A b \in 0..(BrightnessBits - 1) : 0 < 2 ^ b /\ 2 ^ b < 2 ^ BrightnessBits
  /\ 2 ^ BrightnessBits \in Nat

VARIABLES
  frame_fsm,          (* State of the FSM.                                 *)
  counter,            (* Rest of the latch pulse or of the guard after it. *)
  brightness_bit,     (* The plane being shifted into the panel.           *)
  brightness_counter, (* Clocks the latched plane still has to be lit.     *)
  row_active,         (* The row pins: the row that lights up.             *)
  row_shifting,       (* The row whose planes are being shifted.           *)
  enabled             (* The field "enabled" of the CSR ctrl.              *)

frame_vars == <<frame_fsm, counter, brightness_bit, brightness_counter,
                row_active, row_shifting, enabled>>

TopBit == BrightnessBits - 1

(* The values of brightness_counter, a register of 12 bits in the code. *)
BrightnessCounter == 0..(2 ^ BrightnessBits * BrightnessPsc - 1)

(* How long a bit plane is lit. *)
OnTime(bit) == 2 ^ bit * BrightnessPsc

FrameInit ==
  /\ frame_fsm = "RST"
  /\ counter = 0
  /\ brightness_bit = 0
  /\ brightness_counter = 0
  /\ row_active = 0
  /\ row_shifting = 0
  /\ enabled \in BOOLEAN

\* Mutant: the LEDs are on in the guard after the latch.
OeUnguarded == brightness_counter = 0

(* The signals the controller drives in the current clock. *)
LatchEnds == frame_fsm = "LATCH" /\ counter = 0
StartShifting == frame_fsm = "RST" \/ LatchEnds
Lat == frame_fsm = "LATCH"
Oe == brightness_counter = 0 \/ counter # 0  \* high: the LEDs are off

\* Mutant: the lit time stands still while the display is disabled.
CountDownEnabled ==
  /\ counter' = IF counter # 0 THEN counter - 1 ELSE 0
  /\ brightness_counter' = IF brightness_counter # 0 /\ counter = 0 /\ enabled
                             THEN brightness_counter - 1
                             ELSE brightness_counter

(* The synchronous block: the guard runs down first, then the lit time. *)
CountDown ==
  /\ counter' = IF counter # 0 THEN counter - 1 ELSE 0
  /\ brightness_counter' = IF brightness_counter # 0 /\ counter = 0
                             THEN brightness_counter - 1
                             ELSE brightness_counter

FrameReset ==
  /\ frame_fsm = "RST"
  /\ frame_fsm' = "WAIT"
  /\ CountDown
  /\ UNCHANGED <<brightness_bit, row_active, row_shifting>>

\* Mutant: a plane is latched without waiting for its shift.
MayLatchUnshifted(shifting_done) == brightness_counter = 0 /\ enabled

MayLatch(shifting_done) == brightness_counter = 0 /\ shifting_done /\ enabled

FrameWait(shifting_done) ==
  /\ frame_fsm = "WAIT"
  /\ ~MayLatch(shifting_done)
  /\ CountDown
  /\ UNCHANGED <<frame_fsm, brightness_bit, row_active, row_shifting>>

FrameStartLatch(shifting_done) ==
  /\ frame_fsm = "WAIT"
  /\ MayLatch(shifting_done)
  /\ frame_fsm' = "LATCH"
  /\ counter' = CounterMax - 1
  /\ UNCHANGED <<brightness_bit, brightness_counter, row_active, row_shifting>>

FrameLatch ==
  /\ frame_fsm = "LATCH"
  /\ counter # 0
  /\ CountDown
  /\ UNCHANGED <<frame_fsm, brightness_bit, row_active, row_shifting>>

(* The latched plane is lit from here on and the next one is shifted.  The *)
(* row pins follow with every plane but the last of a row.                 *)
FrameEndLatch ==
  /\ LatchEnds
  /\ frame_fsm' = "WAIT"
  /\ counter' = CounterMax - 1
  /\ brightness_counter' = OnTime(brightness_bit)
  /\ \/ /\ brightness_bit # 0
        /\ row_active' = row_shifting
        /\ brightness_bit' = brightness_bit - 1
        /\ UNCHANGED row_shifting
     \/ /\ brightness_bit = 0
        /\ row_shifting' = (row_shifting + 1) % RowCount
        /\ brightness_bit' = TopBit
        /\ UNCHANGED row_active

(* The CPU may write the enable bit at any time. *)
FrameTick(shifting_done) ==
  /\ \/ FrameReset
     \/ FrameWait(shifting_done)
     \/ FrameStartLatch(shifting_done)
     \/ FrameLatch
     \/ FrameEndLatch
  /\ enabled' \in BOOLEAN

FrameTypeOK ==
  /\ frame_fsm \in {"RST", "WAIT", "LATCH"}
  /\ counter \in 0..(CounterMax - 1)
  /\ brightness_bit \in 0..TopBit
  /\ brightness_counter \in BrightnessCounter
  /\ row_active \in 0..(RowCount - 1)
  /\ row_shifting \in 0..(RowCount - 1)
  /\ enabled \in BOOLEAN
=============================================================================
