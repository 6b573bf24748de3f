----------------------------- MODULE RowController -----------------------------
(***************************************************************************)
(* The panel driver without its pixels (class RowController of hub75.py    *)
(* and what it ties together): the frame controller, the row module, the   *)
(* buffer reader, and the FSM that starts the latter two and answers the   *)
(* frame controller.  While the planes of a row are shifted out of one row *)
(* buffer, the next row is read into the other one.                        *)
(*                                                                         *)
(* All components are clocked together, so a step is one step of each.     *)
(* The buffer reader is taken by what it promises (RowFetch).              *)
(***************************************************************************)
EXTENDS FrameController, RowModule, RowFetch

VARIABLES
  row_fsm,         (* State of the FSM.                                    *)
  shifting_buffer, (* The row buffer that is shifted out; the other one is *)
                   (* the reader's.                                        *)
  edges,           (* History: rising edges of clk since the last start of *)
                   (* the row module.                                      *)
  lit_clocks       (* History: clocks the LEDs have been on since the last *)
                   (* latch.                                               *)

control_vars == <<frame_vars, row_module_vars, fetch_vars,
                  row_fsm, shifting_buffer, edges, lit_clocks>>

RowIdle == row_fsm = "IDLE"
RowStart == RowIdle /\ StartShifting
MemStart == RowStart /\ brightness_bit = TopBit
ShiftingDone == RowIdle /\ ~StartShifting
FetchDone == fetch_done /\ ~MemStart

(* The row the reader is asked for. *)
FetchRow == (row_shifting + 1) % RowCount

(* The plane on the panel: the one before the plane being shifted. *)
ShownBit == (brightness_bit + 1) % BrightnessBits

ControlInit ==
  /\ FrameInit
  /\ RowModuleInit
  /\ FetchInit
  /\ row_fsm = "IDLE"
  /\ shifting_buffer = 0
  /\ edges = 0
  /\ lit_clocks = OnTime(ShownBit)   \* nothing is due before the first latch

RowWait ==
  /\ RowIdle
  /\ row_fsm' = IF RowStart THEN "WAIT_TILL_START" ELSE "IDLE"
  /\ UNCHANGED shifting_buffer

RowWaitTillStart ==
  /\ row_fsm = "WAIT_TILL_START"
  /\ row_fsm' = IF shifting THEN "SHIFT_OUT" ELSE row_fsm
  /\ UNCHANGED shifting_buffer

RowShiftOut ==
  /\ row_fsm = "SHIFT_OUT"
  /\ shifting \/ (brightness_bit = 0 /\ ~FetchDone)
  /\ UNCHANGED <<row_fsm, shifting_buffer>>

\* Mutant: the swap does not wait for the next row to be read.
RowEndUnread ==
  /\ row_fsm = "SHIFT_OUT"
  /\ ~shifting
  /\ row_fsm' = "IDLE"
  /\ shifting_buffer' = IF brightness_bit = 0 THEN 1 - shifting_buffer
                                              ELSE shifting_buffer

(* Only the last plane of a row waits for the next row and swaps to it. *)
RowEnd ==
  /\ row_fsm = "SHIFT_OUT"
  /\ ~shifting
  /\ brightness_bit = 0 => FetchDone
  /\ row_fsm' = "IDLE"
  /\ shifting_buffer' = IF brightness_bit = 0 THEN 1 - shifting_buffer
                                              ELSE shifting_buffer

RowTick == RowWait \/ RowWaitTillStart \/ RowShiftOut \/ RowEnd

CountEdges == edges' = IF RowStart THEN 0
                       ELSE IF RisingEdge THEN edges + 1 ELSE edges

CountLit == lit_clocks' = IF LatchEnds THEN 0
                          ELSE IF ~Oe THEN lit_clocks + 1 ELSE lit_clocks

ControlTick ==
  /\ FrameTick(ShiftingDone)
  /\ RowTick
  /\ RowModuleTick(RowStart)
  /\ FetchTick(MemStart)
  /\ CountEdges
  /\ CountLit

ControlSpec == ControlInit /\ [][ControlTick]_control_vars

(* Everything but the enable bit: the CPU is not bound to write it.        *)
clocked_vars == <<frame_fsm, counter, brightness_bit, brightness_counter,
                  row_active, row_shifting, row_module_vars, fetch_vars,
                  row_fsm, shifting_buffer, edges, lit_clocks>>

(* The clock does not stop, and a row that is being read makes progress:   *)
(* the memory answers, and prevent_read is low whenever the Art-Net queue  *)
(* has drained.                                                            *)
ReaderMoves == fetch_vars' # fetch_vars
ControlFairness ==
  /\ WF_clocked_vars(ControlTick)
  /\ WF_control_vars(ControlTick /\ ReaderMoves)

ControlLiveSpec == ControlSpec /\ ControlFairness

ControlTypeOK ==
  /\ FrameTypeOK
  /\ RowModuleTypeOK
  /\ FetchTypeOK
  /\ row_fsm \in {"IDLE", "WAIT_TILL_START", "SHIFT_OUT"}
  /\ shifting_buffer \in {0, 1}
  /\ edges \in 0..Pairs
  /\ lit_clocks \in Nat

(***************************************************************************)
(* Properties.                                                             *)
(***************************************************************************)

(* When the latch of the panel opens and for as long as it is open, the    *)
(* shift of the plane is complete: all pairs were clocked in, the clock is *)
(* low and nothing that could clock the panel is running.                  *)
LatchQuiet ==
  Lat => /\ RowIdle /\ ~shifting
         /\ column_counter = 0 /\ clk = 0
         /\ edges = Pairs

(* The LEDs are off from before the latch opens until after it is closed,  *)
(* and on both sides of a change of the row pins: no row ever shows        *)
(* another row's plane.                                                    *)
DarkWhenPanelChanges ==
  [][Lat \/ Lat' \/ row_active' # row_active => Oe /\ Oe']_control_vars

(* The reader takes the row it reads and the buffer it writes from signals *)
(* that are not registered: neither may change until it is done.           *)
OperandsStable ==
  [][~fetch_done => UNCHANGED <<row_shifting, shifting_buffer>>]_control_vars

(* Nobody is started who is still busy: a start would be lost (row module) *)
(* or restart a row in the middle (reader).                                *)
NoLostStart ==
  /\ RowStart => column_counter = 0 /\ ~shifting
  /\ MemStart => fetch_done /\ fetched >= Pixels - TailLoss
  /\ StartShifting => RowIdle

Schedule == INSTANCE DisplaySchedule WITH
  row <- row_active, bit <- ShownBit, lit <- ~Oe

(* The driver shows the planes in the order and for the times of binary    *)
(* code modulation: the LEDs are on for so many clocks of each plane, not  *)
(* one more or less, however long the shift of the next plane, the read of *)
(* the next row or the enable bit keep it waiting.                         *)
ImplementsSchedule == Schedule!Spec

(* With the display enabled for good, every row lights up again and again: *)
(* frame controller, row controller, row module and reader never all wait  *)
(* for each other.                                                         *)
EveryRowShown ==
  <>[]enabled => \A r \in 0..(RowCount - 1) : []<>(row_active = r /\ ~Oe)

(***************************************************************************)
(* The invariant the properties follow from.                               *)
(***************************************************************************)

(* Edges after the clock has been through position p of a shift. *)
EdgesAt(p) == IF p < OutputDelay THEN 0 ELSE p \div 2 - 1
ClkAt(p) == IF p > OutputDelay /\ p % 2 = 0 THEN 1 ELSE 0

(* What the row module does in each state of the row controller's FSM. *)
ShiftInv ==
  /\ RowIdle => /\ column_counter = 0 /\ buffer_counter = 0
                /\ ~shifting /\ clk = 0
                /\ edges = IF frame_fsm = "RST" THEN 0 ELSE Pairs
  /\ row_fsm = "WAIT_TILL_START" =>
       /\ column_counter = 1 /\ buffer_counter = 0
       /\ shifting /\ clk = 0 /\ edges = 0
  /\ row_fsm = "SHIFT_OUT" /\ shifting =>
       /\ column_counter \in 2..(ColumnMax - 1)
       /\ buffer_counter = column_counter - 1
       /\ clk = ClkAt(buffer_counter)
       /\ edges = EdgesAt(buffer_counter)
  /\ row_fsm = "SHIFT_OUT" /\ ~shifting =>
       /\ column_counter = 0 /\ edges = Pairs
       /\ \/ buffer_counter = ColumnMax - 1
          \/ buffer_counter = 0 /\ clk = 0

(* The frame controller latches while the row controller is idle, and is   *)
(* in the guard of a plane only when that plane is still to be lit.        *)
LatchInv ==
  /\ frame_fsm = "RST" => RowIdle /\ counter = 0 /\ brightness_counter = 0 /\ brightness_bit = 0
  /\ frame_fsm = "LATCH" => RowIdle /\ brightness_counter = 0
  /\ frame_fsm = "WAIT" /\ counter # 0 => brightness_counter > 0

(* The reader is done wherever its operands change or it is started, and a *)
(* pixel is not written behind its place.                                  *)
FetchInv ==
  /\ brightness_bit = TopBit => fetch_done
  /\ brightness_bit = 0 /\ RowIdle /\ frame_fsm # "RST" => fetch_done
  /\ fetch_done => fetched >= Pixels - TailLoss
  /\ fetched <= last_fetched + 1

(* The row pins lag behind the row being shifted for its first plane. *)
RowInv ==
  row_shifting = IF brightness_bit = TopBit THEN (row_active + 1) % RowCount
                                            ELSE row_active

(* What a plane has not been lit for yet is in brightness_counter: all of  *)
(* its time during the guard.                                              *)
LitInv ==
  /\ lit_clocks + brightness_counter = OnTime(ShownBit)
  /\ frame_fsm = "WAIT" /\ counter # 0 => lit_clocks = 0

ControlInv == ControlTypeOK /\ ShiftInv /\ LatchInv /\ FetchInv /\ RowInv /\ LitInv
=============================================================================
