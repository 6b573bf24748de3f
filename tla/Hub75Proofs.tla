------------------------------ MODULE Hub75Proofs ------------------------------
(***************************************************************************)
(* The panel driver is correct for all values of its constants: any number *)
(* of planes, rows and pixels, any chains of panels of any size, any width *)
(* of the latch pulse.                                                     *)
(*                                                                         *)
(* First the control: ControlInv is inductive, and the safety properties   *)
(* of RowController and the refinement of DisplaySchedule follow from it.  *)
(* Then the pixels: with ControlInv, HubInv is inductive, and says where a *)
(* pixel is on its way from the row buffer to the lit panel.               *)
(***************************************************************************)
EXTENDS Hub75, SequenceTheorems, TLAPS

(* The modulus where it can only wrap once, as the counters use it.        *)
LEMMA Wrap ==
  ASSUME NEW n \in Nat, n > 0, NEW c \in 0..n
  PROVE  c % n = IF c = n THEN 0 ELSE c
<1>1. CASE c = n
  <2>1. n % n = 0 OBVIOUS
  <2> QED BY <1>1, <2>1
<1>2. CASE c < n
  <2>1. c % n = c BY <1>2
  <2> QED BY <1>2, <2>1
<1> QED BY <1>1, <1>2

(* A plane is lit for at least one clock, and its time fits the register.  *)
LEMMA OnTimeFits ==
  ASSUME NEW b \in 0..TopBit
  PROVE  OnTime(b) \in BrightnessCounter \ {0}
<1> DEFINE p == 2 ^ b
           m == 2 ^ BrightnessBits
<1>1. p \in Nat /\ m \in Nat /\ 0 < p /\ p < m
  BY FrameAssumption DEF TopBit
<1>2. BrightnessPsc \in Nat /\ BrightnessPsc > 0
  BY FrameAssumption
<1> HIDE DEF p, m
<1>3. p * BrightnessPsc \in Nat /\ m * BrightnessPsc \in Nat
  BY <1>1, <1>2
<1>4. p * BrightnessPsc > 0
  BY <1>1, <1>2
<1>5. p * BrightnessPsc < m * BrightnessPsc
  BY <1>1, <1>2
<1>6. p * BrightnessPsc \in 0..(m * BrightnessPsc - 1) \ {0}
  BY <1>3, <1>4, <1>5
<1> QED BY <1>6 DEF OnTime, BrightnessCounter, p, m

(* The register can run down from every value to 0. *)
LEMMA RunsDown ==
  /\ 0 \in BrightnessCounter
  /\ \A v \in BrightnessCounter : v \in Nat /\ (v # 0 => v - 1 \in BrightnessCounter)
<1> DEFINE top == 2 ^ BrightnessBits * BrightnessPsc - 1
<1>1. top \in Int
  BY FrameAssumption
<1>2. OnTime(0) \in 0..top
  BY OnTimeFits, FrameAssumption DEF BrightnessCounter, TopBit
<1> HIDE DEF top
<1>3. 0 \in 0..top /\ \A v \in 0..top : v \in Nat /\ (v # 0 => v - 1 \in 0..top)
  BY <1>1, <1>2
<1> QED BY <1>3 DEF BrightnessCounter, top

(* The row controller is idle whenever the frame controller starts a       *)
(* shift, so no start is overlooked.                                       *)
LEMMA StartSeen ==
  ASSUME ControlInv
  PROVE  RowStart <=> StartShifting
BY DEF ControlInv, LatchInv, RowStart, StartShifting, LatchEnds

(***************************************************************************)
(* The initial states.                                                     *)
(***************************************************************************)
LEMMA InitInv == ControlInit => ControlInv
<1> SUFFICES ASSUME ControlInit PROVE ControlInv
  OBVIOUS
<1> USE DEF ControlInit, FrameInit, RowModuleInit, FetchInit
<1>6. lit_clocks \in Nat /\ LitInv
  <2>1. ShownBit \in 0..TopBit
    BY FrameAssumption DEF ShownBit, TopBit
  <2>2. lit_clocks = OnTime(ShownBit) /\ brightness_counter = 0 /\ frame_fsm = "RST"
    OBVIOUS
  <2>3. OnTime(ShownBit) \in Nat
    BY <2>1, OnTimeFits, RunsDown
  <2> HIDE DEF ControlInit, FrameInit, RowModuleInit, FetchInit
  <2> QED BY <2>2, <2>3 DEF LitInv
<1>1. ControlTypeOK
  <2>2. FrameTypeOK
    BY RunsDown, FrameAssumption DEF FrameTypeOK, TopBit
  <2>1. shifting \in BOOLEAN /\ fetch_done \in BOOLEAN
    BY Zenon
  <2>3. RowModuleTypeOK
    BY <2>1, PairsAssumption DEF RowModuleTypeOK, ColumnMax, OutputDelay
  <2>4. FetchTypeOK
    BY <2>1, PixelsAssumption DEF FetchTypeOK
  <2> QED BY <1>6, <2>2, <2>3, <2>4, PairsAssumption DEF ControlTypeOK
<1>2. ShiftInv
  BY DEF ShiftInv, RowIdle
<1>3. LatchInv
  BY DEF LatchInv, RowIdle
<1>4. FetchInv
  BY FrameAssumption, PixelsAssumption DEF FetchInv, TopBit
<1>5. RowInv
  BY FrameAssumption DEF RowInv, TopBit
<1> QED BY <1>1, <1>2, <1>3, <1>4, <1>5, <1>6 DEF ControlInv

(***************************************************************************)
(* The step, one part of the invariant at a time.                          *)
(***************************************************************************)

(* What the row module and the row controller's FSM do to each other.      *)
LEMMA ShiftStep ==
  ASSUME ControlInv, ControlTick
  PROVE  ShiftInv' /\ RowModuleTypeOK' /\ edges' \in 0..Pairs
         /\ row_fsm' \in {"IDLE", "WAIT_TILL_START", "SHIFT_OUT"}
<1> USE PairsAssumption DEF ColumnMax, OutputDelay, RowIdle, EdgesAt, ClkAt
<1>1. /\ row_fsm \in {"IDLE", "WAIT_TILL_START", "SHIFT_OUT"}
      /\ column_counter \in 0..(2 * Pairs + 2) /\ buffer_counter \in 0..(2 * Pairs + 2)
      /\ shifting \in BOOLEAN /\ clk \in {0, 1} /\ edges \in 0..Pairs
  BY DEF ControlInv, ControlTypeOK, RowModuleTypeOK
<1>2. ShiftClock /\ CountEdges /\ RowTick /\ RowModuleTick(RowStart)
  BY DEF ControlTick, RowModuleTick
<1>3. frame_fsm' # "RST"
  BY DEF ControlTick, FrameTick, FrameReset, FrameWait, FrameStartLatch,
         FrameLatch, FrameEndLatch, LatchEnds
<1>9. shifting' \in BOOLEAN
  BY <1>1, <1>2, Zenon DEF RowModuleTick, ShiftStart, ShiftEnd, ShiftColumn, ShiftIdle
<1>4. CASE row_fsm = "IDLE" /\ RowStart
  <2>1. column_counter = 0 /\ buffer_counter = 0 /\ ~shifting /\ clk = 0
    BY <1>4 DEF ControlInv, ShiftInv
  <2>2. row_fsm' = "WAIT_TILL_START"
    BY <1>2, <1>4 DEF RowTick, RowWait, RowWaitTillStart, RowShiftOut, RowEnd
  <2>3. column_counter' = 1 /\ shifting'
    BY <1>2, <1>4, <2>1 DEF RowModuleTick, ShiftStart, ShiftEnd, ShiftColumn, ShiftIdle
  <2>4. buffer_counter' = 0 /\ clk' = 0 /\ edges' = 0
    BY <1>2, <1>4, <2>1 DEF ShiftClock, CountEdges
  <2> QED BY <1>9, <2>2, <2>3, <2>4 DEF ShiftInv, RowModuleTypeOK
<1>5. CASE row_fsm = "IDLE" /\ ~RowStart
  <2>1. column_counter = 0 /\ buffer_counter = 0 /\ ~shifting /\ clk = 0
    BY <1>5 DEF ControlInv, ShiftInv
  <2>2. frame_fsm # "RST" /\ edges = Pairs
    BY <1>5 DEF ControlInv, ShiftInv, RowStart, StartShifting
  <2>3. row_fsm' = "IDLE"
    BY <1>2, <1>5 DEF RowTick, RowWait, RowWaitTillStart, RowShiftOut, RowEnd
  <2>4. column_counter' = 0 /\ ~shifting'
    BY <1>2, <1>5, <2>1 DEF RowModuleTick, ShiftStart, ShiftEnd, ShiftColumn, ShiftIdle
  <2>5. buffer_counter' = 0 /\ clk' = 0 /\ edges' = Pairs
    BY <1>2, <1>5, <2>1, <2>2 DEF ShiftClock, CountEdges, RisingEdge
  <2> QED BY <1>9, <1>3, <2>3, <2>4, <2>5 DEF ShiftInv, RowModuleTypeOK
<1>6. CASE row_fsm = "WAIT_TILL_START"
  <2>1. column_counter = 1 /\ buffer_counter = 0 /\ shifting /\ clk = 0 /\ edges = 0 /\ ~RowStart
    BY <1>6 DEF ControlInv, ShiftInv, RowStart
  <2>2. row_fsm' = "SHIFT_OUT"
    BY <1>2, <1>6, <2>1 DEF RowTick, RowWait, RowWaitTillStart, RowShiftOut, RowEnd
  <2>6. column_counter = 1
    BY <2>1
  <2>3. column_counter' = 2 /\ UNCHANGED shifting
    BY <1>2, <2>6 DEF RowModuleTick, ShiftStart, ShiftEnd, ShiftColumn, ShiftIdle
  <2>5. shifting'
    BY <2>1, <2>3, Zenon
  <2>4. buffer_counter' = 1 /\ clk' = 0 /\ edges' = 0
    BY <1>2, <2>1 DEF ShiftClock, CountEdges, RisingEdge
  <2> QED BY <1>9, <2>2, <2>3, <2>4, <2>5 DEF ShiftInv, RowModuleTypeOK
<1>7. CASE row_fsm = "SHIFT_OUT" /\ shifting
  <2>1. /\ column_counter \in 2..(2 * Pairs + 2) /\ buffer_counter = column_counter - 1
        /\ clk = ClkAt(buffer_counter) /\ edges = EdgesAt(buffer_counter) /\ ~RowStart
    BY <1>7 DEF ControlInv, ShiftInv, RowStart
  <2>2. row_fsm' = "SHIFT_OUT"
    BY <1>2, <1>7 DEF RowTick, RowWait, RowWaitTillStart, RowShiftOut, RowEnd
  <2>3. buffer_counter' = column_counter
    BY <1>2 DEF ShiftClock
  <2>4. clk' = ClkAt(column_counter)
    BY <1>2, <2>1 DEF ShiftClock
  <2>5. edges' = EdgesAt(column_counter)
    BY <1>2, <2>1, <2>4 DEF CountEdges, RisingEdge
  <2>6. CASE column_counter = 2 * Pairs + 2
    <3>1. column_counter' = 0 /\ ~shifting'
      BY <1>2, <2>1, <2>6 DEF RowModuleTick, ShiftStart, ShiftEnd, ShiftColumn, ShiftIdle
    <3>2. edges' = Pairs
      BY <2>5, <2>6
    <3> QED BY <1>9, <2>2, <2>3, <2>4, <2>6, <3>1, <3>2 DEF ShiftInv, RowModuleTypeOK
  <2>7. CASE column_counter # 2 * Pairs + 2
    <3>1. column_counter' = column_counter + 1 /\ UNCHANGED shifting
      BY <1>2, <2>1, <2>7 DEF RowModuleTick, ShiftStart, ShiftEnd, ShiftColumn, ShiftIdle
    <3>3. shifting'
      BY <1>7, <3>1, Zenon
    <3>2. EdgesAt(column_counter) \in 0..Pairs /\ ClkAt(column_counter) \in {0, 1}
      BY <2>1, <2>7
    <3> QED BY <1>9, <2>1, <2>2, <2>3, <2>4, <2>5, <2>7, <3>1, <3>2, <3>3 DEF ShiftInv, RowModuleTypeOK
  <2> QED BY <2>6, <2>7
<1>8. CASE row_fsm = "SHIFT_OUT" /\ ~shifting
  <2>1. column_counter = 0 /\ edges = Pairs /\ ~RowStart
    BY <1>8 DEF ControlInv, ShiftInv, RowStart
  <2>2. buffer_counter = 2 * Pairs + 2 \/ (buffer_counter = 0 /\ clk = 0)
    BY <1>8 DEF ControlInv, ShiftInv
  <2>3. buffer_counter' = 0 /\ clk' = 0 /\ edges' = Pairs
    BY <1>2, <2>1, <2>2 DEF ShiftClock, CountEdges, RisingEdge
  <2>4. column_counter' = 0 /\ ~shifting'
    BY <1>2, <1>8, <2>1 DEF RowModuleTick, ShiftStart, ShiftEnd, ShiftColumn, ShiftIdle
  <2>5. row_fsm' \in {"SHIFT_OUT", "IDLE"}
    BY <1>2, <1>8 DEF RowTick, RowWait, RowWaitTillStart, RowShiftOut, RowEnd
  <2> QED BY <1>9, <1>3, <2>3, <2>4, <2>5 DEF ShiftInv, RowModuleTypeOK
<1> QED BY <1>1, <1>4, <1>5, <1>6, <1>7, <1>8

(* The row controller stays idle while the frame controller latches, so    *)
(* that its last clock of a latch can start it.                            *)
LEMMA StaysIdle ==
  ASSUME ControlInv, ControlTick, RowIdle, ~StartShifting
  PROVE  RowIdle'
BY DEF ControlTick, RowTick, RowWait, RowWaitTillStart, RowShiftOut, RowEnd, RowIdle, RowStart

(* The registers of the frame controller, and when it latches.             *)
LEMMA FrameStep ==
  ASSUME ControlInv, ControlTick
  PROVE  FrameTypeOK' /\ LatchInv' /\ RowInv'
<1> USE FrameAssumption DEF TopBit
<1>1. FrameTypeOK /\ LatchInv /\ RowInv
  BY DEF ControlInv, ControlTypeOK
<1>2. enabled' \in BOOLEAN
  BY DEF ControlTick, FrameTick
<1>3. CASE FrameReset
  <2>1. counter = 0 /\ brightness_counter = 0 /\ brightness_bit = 0
    BY <1>1, <1>3 DEF FrameReset, LatchInv
  <2>2. counter' = 0 /\ brightness_counter' = 0 /\ frame_fsm' = "WAIT"
    BY <1>3, <2>1 DEF FrameReset, CountDown
  <2> QED BY <1>1, <1>2, <1>3, <2>2 DEF FrameReset, FrameTypeOK, LatchInv, RowInv
<1>4. CASE FrameWait(ShiftingDone)
  <2>1. counter' \in 0..(CounterMax - 1) /\ (counter' # 0 => counter # 0)
    BY <1>1, <1>4 DEF FrameWait, CountDown, FrameTypeOK
  <2>2. brightness_counter' \in BrightnessCounter
    BY <1>1, <1>4, RunsDown DEF FrameWait, CountDown, FrameTypeOK
  <2>3. counter' # 0 => brightness_counter' > 0
    BY <1>1, <1>4, <2>1 DEF FrameWait, CountDown, LatchInv
  <2> QED BY <1>1, <1>2, <1>4, <2>1, <2>2, <2>3 DEF FrameWait, FrameTypeOK, LatchInv, RowInv
<1>5. CASE FrameStartLatch(ShiftingDone)
  <2>1. RowIdle'
    BY <1>5, StaysIdle DEF FrameStartLatch, MayLatch, ShiftingDone
  <2> QED BY <1>1, <1>2, <1>5, <2>1
          DEF FrameStartLatch, MayLatch, FrameTypeOK, LatchInv, RowInv
<1>6. CASE FrameLatch
  <2>1. RowIdle /\ brightness_counter = 0
    BY <1>1, <1>6 DEF FrameLatch, LatchInv
  <2>2. RowIdle'
    BY <1>6, <2>1, StaysIdle DEF FrameLatch, StartShifting, LatchEnds
  <2>3. counter' \in 0..(CounterMax - 1) /\ brightness_counter' = 0
    BY <1>1, <1>6, <2>1 DEF FrameLatch, CountDown, FrameTypeOK
  <2> QED BY <1>1, <1>2, <1>6, <2>2, <2>3, RunsDown DEF FrameLatch, FrameTypeOK, LatchInv, RowInv
<1>7. CASE FrameEndLatch
  <2>1. brightness_counter' \in BrightnessCounter \ {0}
    BY <1>1, <1>7, OnTimeFits DEF FrameEndLatch, FrameTypeOK
  <2>2. brightness_counter' > 0
    BY <2>1, RunsDown
  <2>3. LatchInv'
    BY <1>7, <2>2 DEF FrameEndLatch, LatchInv
  <2>4. CASE brightness_bit # 0
    <3>1. /\ row_active' = row_shifting /\ row_shifting' = row_shifting
          /\ brightness_bit' = brightness_bit - 1
      BY <1>7, <2>4 DEF FrameEndLatch
    <3> QED BY <1>1, <1>2, <1>7, <2>1, <2>3, <3>1, <2>4 DEF FrameEndLatch, FrameTypeOK, RowInv
  <2>5. CASE brightness_bit = 0
    <3>1. /\ row_active' = row_active /\ row_shifting' = (row_shifting + 1) % RowCount
          /\ brightness_bit' = BrightnessBits - 1 /\ row_shifting = row_active
      BY <1>1, <1>7, <2>5 DEF FrameEndLatch, RowInv
    <3>2. row_shifting' \in 0..(RowCount - 1)
      BY <1>1, <3>1 DEF FrameTypeOK
    <3> QED BY <1>1, <1>2, <1>7, <2>1, <2>3, <3>1, <3>2 DEF FrameEndLatch, FrameTypeOK, RowInv
  <2> QED BY <2>4, <2>5
<1> QED BY <1>3, <1>4, <1>5, <1>6, <1>7 DEF ControlTick, FrameTick

(* The reader is done before its operands change or it is started again.   *)
LEMMA FetchStep ==
  ASSUME ControlInv, ControlTick
  PROVE  FetchTypeOK' /\ FetchInv'
<1> USE FrameAssumption, PixelsAssumption DEF TopBit
<1>1. FetchTypeOK /\ FetchInv /\ FrameTypeOK /\ LatchInv
  BY DEF ControlInv, ControlTypeOK
<1>2. FetchTick(MemStart) /\ FrameTick(ShiftingDone) /\ RowTick
  BY DEF ControlTick
<1>3. FetchTypeOK'
  <2> USE DEF FetchTick, FetchStart, FetchPixel, FetchFinish, fetch_vars
  <2>1. fetch_done \in BOOLEAN /\ fetched \in 0..Pixels
    BY <1>1 DEF FetchTypeOK
  <2>2. fetch_done' \in BOOLEAN
    BY <1>2, <2>1, Zenon
  <2>3. fetched' \in 0..Pixels
    BY <1>2, <2>1
  <2>4. last_fetched' \in -1..(Pixels - 1)
    <3>1. last_fetched \in -1..(Pixels - 1)
      BY <1>1 DEF FetchTypeOK
    <3> QED BY <1>2, <3>1
  <2> QED BY <2>2, <2>3, <2>4 DEF FetchTypeOK
<1>10. fetched' <= last_fetched' + 1
  <2>1. fetched <= last_fetched + 1 /\ fetched \in Int /\ last_fetched \in Int
    BY <1>1 DEF FetchInv, FetchTypeOK
  <2> QED BY <1>2, <2>1 DEF FetchTick, FetchStart, FetchPixel, FetchFinish, fetch_vars
<1>4. fetch_done' => fetched' >= Pixels - TailLoss
  BY <1>1, <1>2
     DEF FetchTick, FetchStart, FetchPixel, FetchFinish, fetch_vars, FetchInv
<1>5. ~MemStart /\ fetch_done => fetch_done'
  BY <1>2 DEF FetchTick, FetchPixel, FetchFinish, fetch_vars
<1>6. brightness_bit' = brightness_bit \/ LatchEnds
  BY <1>2 DEF FrameTick, FrameReset, FrameWait, FrameStartLatch, FrameLatch, FrameEndLatch
<1>7. LatchEnds => RowIdle /\ brightness_bit' = IF brightness_bit = 0 THEN BrightnessBits - 1 ELSE brightness_bit - 1
  BY <1>1, <1>2 DEF FrameTick, FrameReset, FrameWait, FrameStartLatch, FrameLatch,
                    FrameEndLatch, LatchEnds, LatchInv
<1>8. brightness_bit' = BrightnessBits - 1 => fetch_done'
  <2> SUFFICES ASSUME brightness_bit' = BrightnessBits - 1 PROVE fetch_done'
    OBVIOUS
  <2>1. CASE LatchEnds
    <3>1. brightness_bit = 0
      BY <1>1, <1>7, <2>1 DEF FrameTypeOK
    <3>2. fetch_done /\ ~MemStart
      BY <1>1, <1>7, <2>1, <3>1 DEF FetchInv, LatchEnds, MemStart
    <3> QED BY <1>5, <3>2
  <2>2. CASE ~LatchEnds
    <3>1. brightness_bit = BrightnessBits - 1
      BY <1>6, <2>2
    <3>2. fetch_done /\ ~MemStart
      BY <1>1, <2>2, <3>1 DEF FetchInv, MemStart, RowStart, StartShifting, LatchInv
    <3> QED BY <1>5, <3>2
  <2> QED BY <2>1, <2>2
<1>9. brightness_bit' = 0 /\ RowIdle' /\ frame_fsm' # "RST" => fetch_done'
  <2> SUFFICES ASSUME brightness_bit' = 0, RowIdle' PROVE fetch_done'
    OBVIOUS
  <2>1. ~RowStart
    BY <1>2 DEF RowTick, RowWait, RowWaitTillStart, RowShiftOut, RowEnd, RowIdle, RowStart
  <2>2. ~LatchEnds /\ ~MemStart
    BY <1>7, <2>1 DEF RowStart, StartShifting, MemStart
  <2>3. brightness_bit = 0
    BY <1>6, <2>2
  <2>4. CASE RowIdle
    BY <1>1, <1>5, <2>1, <2>2, <2>3, <2>4 DEF FetchInv, RowStart, StartShifting
  <2>5. CASE ~RowIdle
    <3>1. RowEnd
      BY <1>2, <2>5 DEF RowTick, RowWait, RowWaitTillStart, RowShiftOut, RowIdle
    <3> QED BY <1>5, <2>2, <2>3, <3>1 DEF RowEnd, FetchDone
  <2> QED BY <2>4, <2>5
<1> QED BY <1>3, <1>4, <1>8, <1>9, <1>10 DEF FetchInv

(* The plane that is latched is the one below the plane shown before it.   *)
LEMMA NextShown ==
  ASSUME FrameTypeOK, FrameEndLatch
  PROVE  /\ brightness_bit \in 0..TopBit
         /\ ShownBit = IF brightness_bit = TopBit THEN 0 ELSE brightness_bit + 1
         /\ ShownBit' = brightness_bit
<1> USE FrameAssumption DEF TopBit
<1>1. brightness_bit \in 0..(BrightnessBits - 1)
  BY DEF FrameTypeOK
<1>2. ShownBit = IF brightness_bit = BrightnessBits - 1 THEN 0 ELSE brightness_bit + 1
  BY <1>1, Wrap DEF ShownBit
<1>3. CASE brightness_bit # 0
  <2>1. brightness_bit' = brightness_bit - 1
    BY <1>3 DEF FrameEndLatch
  <2>2. brightness_bit % BrightnessBits = brightness_bit
    BY <1>1, Wrap
  <2>3. ShownBit' = brightness_bit
    BY <1>1, <2>1, <2>2 DEF ShownBit
  <2> QED BY <1>1, <1>2, <2>3
<1>4. CASE brightness_bit = 0
  <2>1. brightness_bit' = BrightnessBits - 1
    BY <1>4 DEF FrameEndLatch
  <2>2. BrightnessBits % BrightnessBits = 0
    BY Wrap
  <2>3. ShownBit' = brightness_bit
    BY <1>4, <2>1, <2>2 DEF ShownBit
  <2> QED BY <1>1, <1>2, <2>3
<1> QED BY <1>3, <1>4

(* Every clock the LEDs are on is counted down and up.                     *)
LEMMA LitStep ==
  ASSUME ControlInv, ControlTick
  PROVE  lit_clocks' \in Nat /\ LitInv'
<1> USE FrameAssumption DEF Oe
<1>1. /\ FrameTick(ShiftingDone) /\ CountLit /\ FrameTypeOK /\ LatchInv /\ LitInv
      /\ lit_clocks \in Nat
  BY DEF ControlTick, ControlInv, ControlTypeOK
<1>2. brightness_counter \in Nat /\ counter \in Nat
  BY <1>1, RunsDown DEF FrameTypeOK
<1> DEFINE total == OnTime(ShownBit)
<1>3. lit_clocks + brightness_counter = total
  BY <1>1 DEF LitInv
<1>4. ASSUME brightness_bit' = brightness_bit PROVE OnTime(ShownBit)' = total
  BY <1>4 DEF ShownBit, OnTime
<1> HIDE DEF total
<1>5. CASE FrameReset \/ FrameLatch
  <2>1. /\ ~LatchEnds /\ brightness_counter = 0 /\ brightness_bit' = brightness_bit
        /\ brightness_counter' = 0 /\ (frame_fsm' = "WAIT" => counter' = 0)
    BY <1>1, <1>5 DEF FrameReset, FrameLatch, CountDown, LatchInv, LatchEnds
  <2>2. lit_clocks' = lit_clocks
    BY <1>1, <2>1 DEF CountLit
  <2> QED BY <1>1, <1>3, <1>4, <2>1, <2>2 DEF LitInv
<1>6. CASE FrameWait(ShiftingDone)
  <2>1. ~LatchEnds /\ brightness_bit' = brightness_bit
    BY <1>6 DEF FrameWait, LatchEnds
  <2>2. CASE Oe
    <3>1. lit_clocks' = lit_clocks /\ brightness_counter' = brightness_counter
      BY <1>1, <1>6, <2>1, <2>2 DEF CountLit, FrameWait, CountDown
    <3>2. counter' # 0 => counter # 0
      BY <1>6 DEF FrameWait, CountDown
    <3> QED BY <1>1, <1>3, <1>4, <1>6, <2>1, <3>1, <3>2 DEF LitInv, FrameWait
  <2>3. CASE ~Oe
    <3>1. /\ lit_clocks' = lit_clocks + 1 /\ brightness_counter' = brightness_counter - 1
          /\ counter' = 0
      BY <1>1, <1>6, <2>1, <2>3 DEF CountLit, FrameWait, CountDown
    <3> QED BY <1>1, <1>2, <1>3, <1>4, <2>1, <3>1 DEF LitInv
  <2> QED BY <2>2, <2>3
<1>7. CASE FrameStartLatch(ShiftingDone)
  <2>1. /\ ~LatchEnds /\ Oe /\ brightness_bit' = brightness_bit
        /\ brightness_counter' = brightness_counter /\ frame_fsm' = "LATCH"
    BY <1>7 DEF FrameStartLatch, MayLatch, LatchEnds
  <2>2. lit_clocks' = lit_clocks
    BY <1>1, <2>1 DEF CountLit
  <2> QED BY <1>1, <1>3, <1>4, <2>1, <2>2 DEF LitInv
<1>8. CASE FrameEndLatch
  <2>1. lit_clocks' = 0 /\ brightness_counter' = OnTime(brightness_bit)
    BY <1>1, <1>8 DEF CountLit, FrameEndLatch
  <2>2. OnTime(brightness_bit) \in Nat
    BY <1>1, <1>8, NextShown, OnTimeFits, RunsDown
  <2>3. OnTime(ShownBit)' = OnTime(brightness_bit)
    <3>1. ShownBit' = brightness_bit
      BY <1>1, <1>8, NextShown
    <3> QED BY <3>1 DEF OnTime
  <2> QED BY <2>1, <2>2, <2>3 DEF LitInv
<1> QED BY <1>1, <1>5, <1>6, <1>7, <1>8 DEF FrameTick

(* Every clock keeps the invariant.                                        *)
LEMMA StepInv == ControlInv /\ [ControlTick]_control_vars => ControlInv'
<1> SUFFICES ASSUME ControlInv, [ControlTick]_control_vars PROVE ControlInv'
  OBVIOUS
<1>1. CASE ControlTick
  <2>1. shifting_buffer' \in {0, 1}
    BY <1>1 DEF ControlTick, RowTick, RowWait, RowWaitTillStart, RowShiftOut, RowEnd,
                ControlInv, ControlTypeOK
  <2>2. ControlTypeOK'
    BY <1>1, <2>1, ShiftStep, FrameStep, FetchStep, LitStep DEF ControlTypeOK
  <2> QED BY <1>1, <2>2, ShiftStep, FrameStep, FetchStep, LitStep DEF ControlInv
<1>2. CASE UNCHANGED control_vars
  <2> USE <1>2 DEF control_vars, frame_vars, row_module_vars, fetch_vars
  <2>1. ControlTypeOK'
    BY DEF ControlInv, ControlTypeOK, FrameTypeOK, RowModuleTypeOK, FetchTypeOK
  <2>2. ShiftInv'
    BY DEF ControlInv, ShiftInv, RowIdle, ClkAt, EdgesAt
  <2>3. LatchInv' /\ FetchInv' /\ RowInv'
    BY DEF ControlInv, LatchInv, FetchInv, RowInv, RowIdle
  <2>4. LitInv'
    BY DEF ControlInv, LitInv, OnTime, ShownBit
  <2> QED BY <2>1, <2>2, <2>3, <2>4 DEF ControlInv
<1> QED BY <1>1, <1>2

(* The invariant holds throughout every behaviour of the panel driver.     *)
THEOREM InvariantHolds == ControlSpec => []ControlInv
<1>1. ControlInit => ControlInv
  BY InitInv
<1>2. ControlInv /\ [ControlTick]_control_vars => ControlInv'
  BY StepInv
<1> QED BY <1>1, <1>2, PTL DEF ControlSpec

(* All registers keep to their width.                                      *)
THEOREM TypeCorrect == ControlSpec => []ControlTypeOK
<1>1. ControlInv => ControlTypeOK
  BY DEF ControlInv
<1> QED BY <1>1, InvariantHolds, PTL

(***************************************************************************)
(* The properties.                                                         *)
(***************************************************************************)

(* The panel is latched only when the shift of the plane is complete and   *)
(* its clock is quiet.                                                     *)
THEOREM LatchesQuietly == ControlSpec => []LatchQuiet
<1>1. ControlInv => LatchQuiet
  BY DEF ControlInv, LatchInv, ShiftInv, LatchQuiet, Lat
<1> QED BY <1>1, InvariantHolds, PTL

(* No start of the row module or of the reader is lost, and the frame      *)
(* controller never starts a shift the row controller does not see.        *)
THEOREM NoStartIsLost == ControlSpec => []NoLostStart
<1>1. ControlInv => NoLostStart
  <2> SUFFICES ASSUME ControlInv PROVE NoLostStart
    OBVIOUS
  <2>1. RowStart => column_counter = 0 /\ ~shifting
    BY DEF ControlInv, ShiftInv, RowStart
  <2>2. MemStart => fetch_done /\ fetched >= Pixels - TailLoss
    BY DEF ControlInv, FetchInv, MemStart
  <2>3. StartShifting => RowIdle
    BY StartSeen DEF RowStart
  <2> QED BY <2>1, <2>2, <2>3 DEF NoLostStart
<1> QED BY <1>1, InvariantHolds, PTL

(* The panel changes, by its latch or by its row pins, in the dark only.   *)
THEOREM ChangesInTheDark == ControlSpec => DarkWhenPanelChanges
<1> DEFINE P == Lat \/ Lat' \/ row_active' # row_active => Oe /\ Oe'
<1>1. ControlInv /\ ControlInv' /\ [ControlTick]_control_vars => [P]_control_vars
  <2> SUFFICES ASSUME ControlInv, ControlInv', ControlTick, Lat \/ Lat' \/ row_active' # row_active
               PROVE  Oe /\ Oe'
    OBVIOUS
  <2> USE FrameAssumption DEF Oe, Lat
  <2>1. FrameTick(ShiftingDone) /\ LatchInv /\ LatchInv' /\ FrameTypeOK
    BY DEF ControlTick, ControlInv, ControlTypeOK
  <2>2. CASE Lat' /\ ~Lat
    <3>1. FrameStartLatch(ShiftingDone)
      BY <2>1, <2>2 DEF FrameTick, FrameReset, FrameWait, FrameLatch, FrameEndLatch, LatchEnds
    <3> QED BY <2>1, <2>2, <3>1 DEF FrameStartLatch, MayLatch, LatchInv
  <2>3. CASE Lat
    <3>1. brightness_counter = 0
      BY <2>1, <2>3 DEF LatchInv
    <3>2. FrameLatch \/ FrameEndLatch
      BY <2>1, <2>3 DEF FrameTick, FrameReset, FrameWait, FrameStartLatch
    <3> QED BY <3>1, <3>2 DEF FrameLatch, FrameEndLatch, CountDown
  <2>4. CASE ~Lat /\ ~Lat'
    <3>1. row_active' = row_active
      BY <2>1, <2>4 DEF FrameTick, FrameReset, FrameWait, FrameStartLatch, FrameLatch, FrameEndLatch, LatchEnds
    <3> QED BY <2>4, <3>1
  <2> QED BY <2>2, <2>3, <2>4
<1>2. ControlSpec => [][P]_control_vars
  BY <1>1, InvariantHolds, PTL DEF ControlSpec
<1> QED BY <1>2 DEF DarkWhenPanelChanges

(* While a row is being read neither its number nor its buffer changes.    *)
THEOREM OperandsHold == ControlSpec => OperandsStable
<1> DEFINE P == ~fetch_done => UNCHANGED <<row_shifting, shifting_buffer>>
<1>1. ControlInv /\ [ControlTick]_control_vars => [P]_control_vars
  <2> SUFFICES ASSUME ControlInv, ControlTick, ~fetch_done
               PROVE  UNCHANGED <<row_shifting, shifting_buffer>>
    OBVIOUS
  <2>1. FrameTick(ShiftingDone) /\ RowTick
    BY DEF ControlTick
  <2>2. ~(LatchEnds /\ brightness_bit = 0)
    BY DEF ControlInv, LatchInv, FetchInv, LatchEnds
  <2>3. UNCHANGED row_shifting
    BY <2>1, <2>2 DEF FrameTick, FrameReset, FrameWait, FrameStartLatch, FrameLatch, FrameEndLatch
  <2>4. UNCHANGED shifting_buffer
    BY <2>1 DEF RowTick, RowWait, RowWaitTillStart, RowShiftOut, RowEnd, FetchDone
  <2> QED BY <2>3, <2>4
<1>2. ControlSpec => [][P]_control_vars
  BY <1>1, InvariantHolds, PTL DEF ControlSpec
<1> QED BY <1>2 DEF OperandsStable

(***************************************************************************)
(* Refinement: a clock of the driver is a step of the schedule or none.    *)
(***************************************************************************)

LEMMA InitMaps == ControlInit => Schedule!Init
<1> SUFFICES ASSUME ControlInit PROVE Schedule!Init
  OBVIOUS
<1>1. row_active = 0 /\ brightness_counter = 0 /\ ShownBit = 1 % BrightnessBits
  BY FrameAssumption DEF ControlInit, FrameInit, ShownBit
<1>2. lit_clocks = 2 ^ ShownBit * BrightnessPsc
  BY DEF ControlInit, OnTime
<1> QED BY <1>1, <1>2 DEF Schedule!Init, Schedule!Weight, Oe

LEMMA StepMaps ==
  ASSUME ControlInv, ControlTick
  PROVE  [Schedule!Next]_Schedule!sched_vars
<1> USE FrameAssumption DEF TopBit, Oe
<1>1. /\ FrameTick(ShiftingDone) /\ CountLit /\ FrameTypeOK /\ LatchInv /\ RowInv
      /\ LitInv /\ LitInv' /\ lit_clocks \in Nat /\ lit_clocks' \in Nat
  BY LitStep DEF ControlTick, ControlInv, ControlTypeOK
<1>2. brightness_counter \in Nat /\ counter \in Nat
  BY <1>1, RunsDown DEF FrameTypeOK
<1> DEFINE Still == UNCHANGED <<row_active, brightness_bit>>
           total == OnTime(ShownBit)
<1>3. Still => ShownBit' = ShownBit
  BY DEF ShownBit
<1>8. lit_clocks + brightness_counter = total
  BY <1>1 DEF LitInv
<1>9. Schedule!Weight(ShownBit) = total
  BY DEF Schedule!Weight, OnTime
<1> HIDE DEF total
<1>10. ASSUME ~LatchEnds, Still, Oe, Oe'
       PROVE  UNCHANGED Schedule!sched_vars
  <2>1. lit_clocks' = lit_clocks
    BY <1>1, <1>10 DEF CountLit
  <2> QED BY <1>3, <1>10, <2>1 DEF Schedule!sched_vars
<1>4. CASE FrameReset
  <2>1. Still /\ ~LatchEnds /\ brightness_counter = 0 /\ brightness_counter' = 0
    BY <1>1, <1>4 DEF FrameReset, CountDown, LatchInv, LatchEnds
  <2> QED BY <1>10, <2>1
<1>5. CASE FrameWait(ShiftingDone)
  <2>1. Still /\ ~LatchEnds
    BY <1>5 DEF FrameWait, LatchEnds
  <2>2. CASE counter # 0
    <3>1. /\ counter' = counter - 1 /\ brightness_counter' = brightness_counter
          /\ brightness_counter > 0 /\ lit_clocks = 0
      BY <1>1, <1>5, <2>2 DEF FrameWait, CountDown, LatchInv, LitInv
    <3>2. CASE counter = 1
      <4>1. Oe /\ ~Oe'
        BY <1>2, <3>1, <3>2
      <4>2. lit_clocks' = lit_clocks
        BY <1>1, <2>1, <4>1 DEF CountLit
      <4> QED BY <1>3, <2>1, <3>1, <4>1, <4>2 DEF Schedule!Next, Schedule!LightUp
    <3>3. CASE counter # 1
      <4>1. Oe /\ Oe'
        BY <1>2, <2>2, <3>1, <3>3
      <4> QED BY <1>10, <2>1, <4>1
    <3> QED BY <3>2, <3>3
  <2>3. CASE counter = 0 /\ brightness_counter # 0
    <3>1. counter' = 0 /\ brightness_counter' = brightness_counter - 1
      BY <1>5, <2>3 DEF FrameWait, CountDown
    <3>2. ~Oe /\ (~Oe' <=> brightness_counter # 1)
      BY <1>2, <2>3, <3>1
    <3>3. lit_clocks' = lit_clocks + 1
      BY <1>1, <2>1, <3>2 DEF CountLit
    <3>4. ~Oe' <=> lit_clocks' # total
      BY <1>1, <1>2, <1>8, <3>2, <3>3
    <3>5. Schedule!Burn
      BY <1>3, <1>9, <2>1, <3>2, <3>3, <3>4 DEF Schedule!Burn
    <3> QED BY <3>5 DEF Schedule!Next
  <2>4. CASE counter = 0 /\ brightness_counter = 0
    <3>1. counter' = 0 /\ brightness_counter' = 0
      BY <1>5, <2>4 DEF FrameWait, CountDown
    <3> QED BY <1>10, <2>1, <2>4, <3>1
  <2> QED BY <2>2, <2>3, <2>4
<1>6. CASE FrameStartLatch(ShiftingDone) \/ FrameLatch
  <2>1. Still /\ ~LatchEnds /\ brightness_counter = 0 /\ brightness_counter' = 0
    BY <1>1, <1>6 DEF FrameStartLatch, MayLatch, FrameLatch, CountDown, LatchInv, LatchEnds
  <2> QED BY <1>10, <2>1
<1>7. CASE FrameEndLatch
  <2>1. /\ brightness_counter = 0 /\ LatchEnds
        /\ counter' = CounterMax - 1
    BY <1>1, <1>7 DEF FrameEndLatch, LatchEnds, LatchInv
  <2>2. Oe /\ Oe'
    BY <2>1
  <2>3. /\ brightness_bit \in 0..(BrightnessBits - 1) /\ ShownBit' = brightness_bit
        /\ ShownBit = IF brightness_bit = BrightnessBits - 1 THEN 0 ELSE brightness_bit + 1
    BY <1>1, <1>7, NextShown
  <2>4. lit_clocks = total /\ lit_clocks' = 0
    BY <1>1, <1>8, <2>1 DEF CountLit
  <2>5. row_active' = IF ShownBit = 0 THEN (row_active + 1) % RowCount ELSE row_active
    BY <1>1, <1>7, <2>3 DEF FrameEndLatch, RowInv
  <2>6. Schedule!NextPlane
    BY <1>9, <2>2, <2>3, <2>4, <2>5 DEF Schedule!NextPlane
  <2> QED BY <2>6 DEF Schedule!Next
<1> QED BY <1>1, <1>4, <1>5, <1>6, <1>7 DEF FrameTick

(* The panel driver shows the planes as binary code modulation asks for.   *)
THEOREM RefinesSchedule == ControlSpec => ImplementsSchedule
<1>1. ControlInit => Schedule!Init
  BY InitMaps
<1>2. ControlInv /\ [ControlTick]_control_vars => [Schedule!Next]_Schedule!sched_vars
  <2>1. CASE UNCHANGED control_vars
    BY <2>1 DEF control_vars, frame_vars, Schedule!sched_vars, ShownBit, Oe
  <2> QED BY <2>1, StepMaps
<1>3. ControlSpec => Schedule!Spec
  BY <1>1, <1>2, InvariantHolds, PTL DEF ControlSpec, Schedule!Spec
<1> QED BY <1>3 DEF ImplementsSchedule

(***************************************************************************)
(* Pixels and places.                                                      *)
(***************************************************************************)

LEMMA HubSizes ==
  /\ Columns \in Nat /\ Columns > 0 /\ Chain \in Nat /\ Chain > 0
  /\ Outputs \in Nat /\ Outputs > 0
  /\ Pairs \in Nat /\ Pairs > 0 /\ Pairs = Chain * Columns
  /\ OutputPixels = 2 * Pairs /\ Pixels = Outputs * OutputPixels
  /\ Pixels \in Nat /\ TailLoss \in Nat
<1>1. /\ Columns \in Nat /\ Columns > 0 /\ Chain \in Nat /\ Chain > 0
      /\ Outputs \in Nat /\ Outputs > 0
  BY GeometryAssumption
<1>2. Pairs \in Nat /\ Pairs > 0 /\ Pairs = Chain * Columns
  BY PairsAssumption, InstanceAssumption
<1>3. 2 * Chain * Columns = 2 * (Chain * Columns)
  BY <1>1
<1> QED BY <1>1, <1>2, <1>3, InstanceAssumption, PixelsAssumption DEF OutputPixels, RowPixels

(* Quotient and remainder are determined by their sum and their ranges. *)
LEMMA Divides ==
  ASSUME NEW d \in Nat, d > 0, NEW q \in Int, NEW r \in 0..(d - 1)
  PROVE  (q * d + r) \div d = q /\ (q * d + r) % d = r
<1> DEFINE n == q * d + r
           a == n \div d
           b == n % d
<1>1. n \in Int /\ q * d \in Int
  OBVIOUS
<1>2. a \in Int /\ b \in 0..(d - 1) /\ n = d * a + b
  BY <1>1
<1>3. n = d * q + r
  OBVIOUS
<1> HIDE DEF n, a, b
<1>4. d * a \in Int /\ d * q \in Int /\ d * (a - q) = d * a - d * q
  BY <1>2
<1>5. d * (a - q) = r - b
  BY <1>1, <1>2, <1>3, <1>4
<1>6. a - q < 1
  <2>1. SUFFICES ASSUME a - q >= 1 PROVE FALSE
    BY <1>2
  <2>2. d * (a - q) >= d
    BY <2>1, <1>2
  <2> QED BY <2>2, <1>5, <1>2
<1>7. a - q > -1
  <2>1. SUFFICES ASSUME a - q <= -1 PROVE FALSE
    BY <1>2
  <2>2. d * (a - q) <= -d
    BY <2>1, <1>2
  <2> QED BY <2>2, <1>5, <1>2
<1>8. a = q
  BY <1>2, <1>6, <1>7
<1>9. b = r
  BY <1>8, <1>2, <1>3, <1>1, <1>5
<1> QED BY <1>8, <1>9 DEF n, a, b

(* Every number is that sum, and the quotient is as small as the number. *)
LEMMA Quotient ==
  ASSUME NEW d \in Nat, d > 0, NEW n \in Nat
  PROVE  /\ n \div d \in Nat /\ n % d \in 0..(d - 1)
         /\ n = (n \div d) * d + (n % d)
OBVIOUS

LEMMA QuotientBound ==
  ASSUME NEW d \in Nat, d > 0, NEW m \in Nat, NEW q \in Nat, NEW r \in Nat, q * d + r < m * d
  PROVE  q < m /\ q * d + d <= m * d
<1>1. q < m
  <2>1. SUFFICES ASSUME q >= m PROVE FALSE
    OBVIOUS
  <2>2. q * d >= m * d
    BY <2>1
  <2>3. q * d \in Nat /\ m * d \in Nat
    OBVIOUS
  <2> QED BY <2>2, <2>3
<1>2. q * d + d = (q + 1) * d
  OBVIOUS
<1>3. (q + 1) * d <= m * d
  BY <1>1
<1> QED BY <1>1, <1>2, <1>3

(* The two pixels of a pair are next to each other in the row buffer. *)
LEMMA PairPlaces ==
  ASSUME NEW k \in 1..Pairs, NEW h \in Half
  PROVE  /\ NumberOf(k, h) \in Address /\ AddressOf(k, h) \in Address
         /\ Place(NumberOf(k, h)) = WantedPlace(k, h)
         /\ BufferAddress(NumberOf(k, h)) = AddressOf(k, h)
<1> DEFINE p == (k - 1) \div Columns
           c == (k - 1) % Columns
           n == p * (2 * Columns) + (h * Columns + c)
<1>1. /\ Columns \in Nat /\ Columns > 0 /\ Chain \in Nat /\ k \in Nat /\ k > 0 /\ h \in {0, 1}
      /\ k <= Pairs /\ Pairs \in Nat /\ Pairs = Chain * Columns /\ OutputPixels = 2 * Pairs
  BY HubSizes DEF Half
<1>2. p \in Nat /\ c \in 0..(Columns - 1) /\ k - 1 = p * Columns + c
  BY <1>1, Quotient
<1>3. NumberOf(k, h) = n /\ WantedPlace(k, h) = [panel |-> p, half |-> h, column |-> c]
  BY DEF NumberOf, WantedPlace
<1>4. n = p * (2 * Columns) + (h * Columns + c)
  OBVIOUS
<1> HIDE DEF p, c, n
<1>5. p * Columns + Columns <= Pairs
  <2>1. p * Columns + c < Chain * Columns
    BY <1>1, <1>2
  <2> QED BY <1>1, <1>2, <2>1, QuotientBound
<1>6. p * (2 * Columns) = 2 * (p * Columns) /\ p * Columns \in Nat
  BY <1>1, <1>2
<1>7. h * Columns + c \in 0..(2 * Columns - 1)
  BY <1>1, <1>2
<1>8. n \in Address
  BY <1>1, <1>4, <1>5, <1>6, <1>7 DEF Address
<1>9. AddressOf(k, h) \in Address
  BY <1>1 DEF AddressOf, Address
<1>10. n \div (2 * Columns) = p
  BY <1>1, <1>2, <1>4, <1>7, Divides
<1>11. n = (p * 2 + h) * Columns + c
  <2>1. (p * 2 + h) * Columns = p * (2 * Columns) + h * Columns
    BY <1>1, <1>2
  <2>2. h * Columns \in Nat
    BY <1>1
  <2> QED BY <1>2, <1>4, <1>6, <2>1, <2>2
<1>12. n \div Columns = p * 2 + h /\ n % Columns = c
  <2>1. p * 2 + h \in Int
    BY <1>1, <1>2
  <2> QED BY <1>1, <1>2, <1>11, <2>1, Divides
<1>13. (n \div Columns) % 2 = h
  <2>1. (p * 2 + h) % 2 = h
    BY <1>1, <1>2
  <2> QED BY <1>12, <2>1
<1>14. Place(n) = [panel |-> p, half |-> h, column |-> c]
  BY <1>10, <1>12, <1>13 DEF Place
<1>15. Place(n).panel = p /\ Place(n).half = h /\ Place(n).column = c
  BY <1>14
<1>16. BufferAddress(n) = p * 2 * Columns + c * 2 + h
  BY <1>15 DEF BufferAddress
<1>17. p * 2 * Columns = 2 * (p * Columns)
  BY <1>1, <1>2
<1>18. BufferAddress(n) = AddressOf(k, h)
  BY <1>1, <1>2, <1>6, <1>16, <1>17 DEF AddressOf
<1> QED BY <1>3, <1>8, <1>9, <1>14, <1>18

(* Every pixel of an output is in a pair, *)
LEMMA NumberInPair ==
  ASSUME NEW n \in Address
  PROVE  \E k \in 1..Pairs, h \in Half : n = NumberOf(k, h)
<1> DEFINE b == 2 * Columns
           p == n \div b
           r == n % b
           h == r \div Columns
           c == r % Columns
<1>1. /\ Columns \in Nat /\ Columns > 0 /\ Chain \in Nat /\ Pairs \in Nat
      /\ Pairs = Chain * Columns /\ n \in Nat /\ n < 2 * Pairs
      /\ b \in Nat /\ b > 0 /\ b = 2 * Columns
  BY HubSizes DEF Address
<1> HIDE DEF b
<1>2. p \in Nat /\ r \in 0..(b - 1) /\ n = p * b + r
  BY <1>1, Quotient
<1> HIDE DEF p, r
<1>3. h \in Nat /\ c \in 0..(Columns - 1) /\ r = h * Columns + c
  BY <1>1, <1>2, Quotient
<1> HIDE DEF h, c
<1>4. h \in Half
  <2>1. h * Columns + c < 2 * Columns
    BY <1>1, <1>2, <1>3
  <2>2. h < 2
    BY <1>1, <1>3, <2>1, QuotientBound
  <2> QED BY <1>3, <2>2 DEF Half
<1>5. p * Columns + Columns <= Pairs
  <2>1. Chain * b = 2 * Pairs
    BY <1>1
  <2>2. p * b + r < Chain * b
    BY <1>1, <1>2, <2>1
  <2>3. p < Chain
    BY <1>1, <1>2, <2>2, QuotientBound
  <2>4. p * Columns + Columns = (p + 1) * Columns
    BY <1>1, <1>2
  <2>5. (p + 1) * Columns <= Chain * Columns
    BY <1>1, <1>2, <2>3
  <2> QED BY <1>1, <2>4, <2>5
<1> DEFINE k == p * Columns + c + 1
<1>6. k \in 1..Pairs /\ k - 1 = p * Columns + c
  <2>1. p * Columns \in Nat
    BY <1>1, <1>2
  <2> QED BY <1>1, <1>3, <1>5, <2>1
<1>7. (k - 1) \div Columns = p /\ (k - 1) % Columns = c
  BY <1>1, <1>2, <1>3, <1>6, Divides
<1> HIDE DEF k
<1>8. n = NumberOf(k, h)
  BY <1>1, <1>2, <1>3, <1>7 DEF NumberOf
<1> QED BY <1>4, <1>6, <1>8

(* and so is every address of a row buffer. *)
LEMMA AddressInPair ==
  ASSUME NEW a \in Address
  PROVE  \E k \in 1..Pairs, h \in Half : a = AddressOf(k, h)
<1> DEFINE k == a \div 2 + 1
           h == a % 2
<1>1. k \in 1..Pairs /\ h \in {0, 1} /\ a = 2 * (k - 1) + h
  BY HubSizes DEF Address
<1> HIDE DEF k, h
<1> QED BY <1>1 DEF AddressOf, Half

LEMMA PairsApart ==
  ASSUME NEW k \in 1..Pairs, NEW h \in Half, NEW j \in 1..Pairs, NEW g \in Half,
         AddressOf(k, h) = AddressOf(j, g)
  PROVE  k = j /\ h = g
BY HubSizes DEF AddressOf, Half

(* What PlaceAt chooses is determined. *)
LEMMA PlaceAtPair ==
  ASSUME NEW k \in 1..Pairs, NEW h \in Half
  PROVE  PlaceAt(AddressOf(k, h)) = WantedPlace(k, h)
<1> DEFINE m == CHOOSE n \in Address : BufferAddress(n) = AddressOf(k, h)
<1>1. m \in Address /\ BufferAddress(m) = AddressOf(k, h)
  BY PairPlaces
<1>2. PlaceAt(AddressOf(k, h)) = Place(m)
  BY DEF PlaceAt
<1> HIDE DEF m
<1>3. PICK j \in 1..Pairs, g \in Half : m = NumberOf(j, g)
  BY <1>1, NumberInPair
<1>4. AddressOf(j, g) = AddressOf(k, h) /\ Place(m) = WantedPlace(j, g)
  BY <1>1, <1>3, PairPlaces
<1>5. j = k /\ g = h
  BY <1>4, PairsApart
<1> QED BY <1>2, <1>4, <1>5

(* The number of a pixel gives its output and its number there. *)
LEMMA OutputOfPixel ==
  ASSUME NEW m \in 0..(Pixels - 1)
  PROVE  /\ OutputOf(m) \in Output /\ NumberIn(m) \in Address
         /\ OutputOf(m) * OutputPixels + NumberIn(m) = m
         /\ \A o \in Output, n \in Address :
              o * OutputPixels + n = m => o = OutputOf(m) /\ n = NumberIn(m)
<1> DEFINE q == m \div OutputPixels
           r == m % OutputPixels
<1>1. OutputPixels \in Nat /\ OutputPixels > 0 /\ Outputs \in Nat /\ m \in Nat /\ m < Outputs * OutputPixels
  BY HubSizes
<1>2. q \in Nat /\ r \in 0..(OutputPixels - 1) /\ m = q * OutputPixels + r
  BY <1>1, Quotient
<1>3. ASSUME NEW o \in Output, NEW n \in Address, o * OutputPixels + n = m
      PROVE  o = OutputOf(m) /\ n = NumberIn(m)
  <2>1. o \in Int /\ n \in 0..(OutputPixels - 1)
    BY <1>1 DEF Output, Address
  <2>2. (o * OutputPixels + n) \div OutputPixels = o /\ (o * OutputPixels + n) % OutputPixels = n
    BY <1>1, <2>1, Divides
  <2> QED BY <1>3, <2>2 DEF OutputOf, NumberIn
<1> HIDE DEF q, r
<1>4. q < Outputs
  BY <1>1, <1>2, QuotientBound
<1>5. q = OutputOf(m) /\ r = NumberIn(m)
  BY DEF q, r, OutputOf, NumberIn
<1>6. OutputOf(m) \in Output /\ NumberIn(m) \in Address
  BY <1>1, <1>2, <1>4, <1>5 DEF Output, Address
<1>7. OutputOf(m) * OutputPixels + NumberIn(m) = m
  BY <1>2, <1>5
<1> QED BY <1>3, <1>6, <1>7

(* A shift register takes one at its end. *)
LEMMA ShiftedIn ==
  ASSUME NEW n \in Nat, n > 0, NEW S, NEW s \in [1..n -> S], NEW x \in S
  PROVE  /\ Append(Tail(s), x) \in [1..n -> S]
         /\ \A i \in 1..n : Append(Tail(s), x)[i] = IF i = n THEN x ELSE s[i + 1]
<1>1. s \in Seq(S) /\ Len(s) = n
  OBVIOUS
<1>2. Tail(s) \in Seq(S) /\ Len(Tail(s)) = n - 1 /\ \A i \in 1..(n - 1) : Tail(s)[i] = s[i + 1]
  BY <1>1
<1>3. Append(Tail(s), x) \in Seq(S) /\ Len(Append(Tail(s), x)) = n
  BY <1>2
<1>4. \A i \in 1..n : Append(Tail(s), x)[i] = IF i = n THEN x ELSE s[i + 1]
  BY <1>2
<1>5. Append(Tail(s), x) \in [1..n -> S]
  BY <1>3, LenProperties
<1> QED BY <1>4, <1>5

(***************************************************************************)
(* The control of the driver is the one of RowController.                  *)
(***************************************************************************)

(* The pixels do not act upon the control: what is proved of ControlSpec   *)
(* holds of the whole driver.                                              *)
THEOREM HubKeepsControl == HubSpec => ControlSpec
<1>1. HubInit => ControlInit
  BY DEF HubInit
<1>2. [HubTick]_hub_vars => [ControlTick]_control_vars
  BY DEF HubTick, hub_vars
<1> QED BY <1>1, <1>2, PTL DEF HubSpec, ControlSpec

(* A frame controller that does not end a latch keeps plane and row.       *)
LEMMA PlaneSteady ==
  ASSUME ControlInv, ControlTick, ~LatchEnds
  PROVE  /\ brightness_bit' = brightness_bit /\ row_shifting' = row_shifting
         /\ row_active' = row_active /\ FetchRow' = FetchRow /\ ShownBit' = ShownBit
<1>1. UNCHANGED <<brightness_bit, row_shifting, row_active>>
  BY DEF ControlTick, FrameTick, FrameReset, FrameWait, FrameStartLatch, FrameLatch, FrameEndLatch
<1> QED BY <1>1 DEF FetchRow, ShownBit

(* What the end of a latch does to them.                                   *)
LEMMA PlaneTurns ==
  ASSUME ControlInv, ControlTick, LatchEnds
  PROVE  /\ frame_fsm = "LATCH" /\ RowIdle /\ RowStart /\ edges = Pairs
         /\ row_fsm' = "WAIT_TILL_START" /\ shifting_buffer' = shifting_buffer
         /\ frame_fsm' = "WAIT" /\ edges' = 0
         /\ brightness_bit \in 0..TopBit /\ TopBit \in Nat /\ TopBit > 0
         /\ brightness_bit # 0 => /\ brightness_bit' = brightness_bit - 1
                                  /\ row_shifting' = row_shifting
                                  /\ row_active' = row_shifting
         /\ brightness_bit = 0 => /\ brightness_bit' = TopBit
                                  /\ row_shifting' = FetchRow
                                  /\ row_active' = row_active
                                  /\ row_active = row_shifting
         /\ ShownBit' = brightness_bit
<1> USE FrameAssumption
<1>1. FrameTick(ShiftingDone) /\ FrameTypeOK /\ LatchInv /\ RowInv /\ ShiftInv /\ RowTick /\ CountEdges
  BY DEF ControlTick, ControlInv, ControlTypeOK
<1>2. FrameEndLatch /\ frame_fsm = "LATCH"
  BY <1>1 DEF FrameTick, FrameReset, FrameWait, FrameStartLatch, FrameLatch, LatchEnds
<1>3. RowIdle /\ RowStart /\ edges = Pairs
  BY <1>1, <1>2 DEF LatchInv, ShiftInv, RowStart, StartShifting
<1>4. row_fsm' = "WAIT_TILL_START" /\ shifting_buffer' = shifting_buffer
  BY <1>1, <1>3 DEF RowTick, RowWait, RowWaitTillStart, RowShiftOut, RowEnd, RowIdle
<1>5. edges' = 0 /\ frame_fsm' = "WAIT"
  BY <1>1, <1>2, <1>3 DEF CountEdges, FrameEndLatch
<1>6. brightness_bit \in 0..TopBit /\ TopBit \in Nat /\ TopBit > 0 /\ BrightnessBits = TopBit + 1
  BY <1>1 DEF FrameTypeOK, TopBit
<1>9. ShownBit' = brightness_bit
  BY <1>1, <1>2, NextShown
<1>7. CASE brightness_bit # 0
  <2>1. /\ brightness_bit' = brightness_bit - 1 /\ row_shifting' = row_shifting
        /\ row_active' = row_shifting
    BY <1>2, <1>7 DEF FrameEndLatch
  <2> QED BY <1>2, <1>3, <1>4, <1>5, <1>6, <1>7, <1>9, <2>1
<1>8. CASE brightness_bit = 0
  <2>1. /\ brightness_bit' = TopBit /\ row_shifting' = FetchRow /\ row_active' = row_active
    BY <1>2, <1>8 DEF FrameEndLatch, FetchRow
  <2>2. row_active = row_shifting
    BY <1>1, <1>6, <1>8 DEF RowInv
  <2> QED BY <1>2, <1>3, <1>4, <1>5, <1>6, <1>8, <1>9, <2>1, <2>2
<1> QED BY <1>7, <1>8

(* A swap finds the next row read.                                         *)
LEMMA SwapFinds ==
  ASSUME ControlInv, ControlTick, shifting_buffer' # shifting_buffer
  PROVE  /\ shifting_buffer' = 1 - shifting_buffer
         /\ column_counter = 0 /\ fetched' = fetched /\ fetched >= Pixels - TailLoss
         /\ brightness_bit = 0 /\ brightness_bit # TopBit
         /\ ~LatchEnds /\ ~Swapped /\ Swapped'
<1>1. /\ FrameTick(ShiftingDone) /\ FetchTick(MemStart) /\ RowTick
      /\ FrameTypeOK /\ LatchInv /\ FetchInv /\ ShiftInv
  BY DEF ControlTick, ControlInv, ControlTypeOK
<1>2. RowEnd /\ brightness_bit = 0 /\ shifting_buffer' = 1 - shifting_buffer
  BY <1>1 DEF RowTick, RowWait, RowWaitTillStart, RowShiftOut, RowEnd
<1>3. fetch_done /\ ~MemStart /\ row_fsm = "SHIFT_OUT" /\ ~shifting /\ row_fsm' = "IDLE"
  BY <1>2 DEF RowEnd, FetchDone
<1>4. fetched' = fetched /\ fetched >= Pixels - TailLoss
  BY <1>1, <1>3 DEF FetchTick, FetchPixel, FetchFinish, fetch_vars, FetchInv
<1>5. column_counter = 0
  BY <1>1, <1>3 DEF ShiftInv
<1>6. ~RowIdle /\ ~LatchEnds
  BY <1>1, <1>3 DEF RowIdle, LatchInv, LatchEnds
<1>7. brightness_bit # TopBit
  BY <1>2, FrameAssumption DEF TopBit
<1>8. frame_fsm' # "RST"
  BY <1>1 DEF FrameTick, FrameReset, FrameWait, FrameStartLatch, FrameLatch, FrameEndLatch, LatchEnds
<1>9. Swapped'
  BY <1>2, <1>3, <1>6, <1>8, PlaneSteady DEF Swapped, RowIdle
<1> QED BY <1>2, <1>4, <1>5, <1>6, <1>7, <1>9 DEF Swapped

(* Without one the buffer that is shifted out keeps its row, and the other *)
(* one is filled further or from its beginning.                            *)
LEMMA NoSwapKeeps ==
  ASSUME ControlInv, ControlTick, shifting_buffer' = shifting_buffer
  PROVE  /\ ShiftedRow' = ShiftedRow
         /\ brightness_bit' # TopBit /\ ~Swapped' =>
              /\ FetchRow' = FetchRow
              /\ fetched' = 0 \/ (brightness_bit # TopBit /\ ~Swapped)
<1>1. /\ FrameTick(ShiftingDone) /\ FetchTick(MemStart) /\ RowTick
      /\ FrameTypeOK /\ LatchInv /\ FetchInv /\ ShiftInv
  BY DEF ControlTick, ControlInv, ControlTypeOK
<1>2. frame_fsm' # "RST"
  BY <1>1 DEF FrameTick, FrameReset, FrameWait, FrameStartLatch, FrameLatch, FrameEndLatch, LatchEnds
<1>3. CASE LatchEnds
  <2>1. ~RowIdle'
    BY <1>3, PlaneTurns DEF RowIdle
  <2>2. ~Swapped'
    BY <2>1 DEF Swapped
  <2>3. ShiftedRow' = row_shifting'
    BY <2>2 DEF ShiftedRow
  <2>4. CASE brightness_bit # 0
    <3>1. row_shifting' = row_shifting /\ ~Swapped
      BY <1>3, <2>4, PlaneTurns DEF Swapped
    <3>2. ShiftedRow' = ShiftedRow /\ FetchRow' = FetchRow
      BY <2>3, <3>1 DEF ShiftedRow, FetchRow
    <3>3. brightness_bit = TopBit => fetched' = 0
      <4>1. brightness_bit = TopBit => MemStart
        BY <1>3, PlaneTurns DEF MemStart
      <4> QED BY <1>1, <4>1 DEF FetchTick, FetchStart
    <3> QED BY <3>1, <3>2, <3>3
  <2>5. CASE brightness_bit = 0
    <3>1. row_shifting' = FetchRow /\ brightness_bit' = TopBit /\ Swapped
      BY <1>3, <2>5, PlaneTurns DEF Swapped
    <3> QED BY <2>3, <3>1 DEF ShiftedRow
  <2> QED BY <2>4, <2>5
<1>4. CASE ~LatchEnds
  <2>1. brightness_bit' = brightness_bit /\ row_shifting' = row_shifting /\ FetchRow' = FetchRow
    BY <1>4, PlaneSteady
  <2>2. Swapped' <=> Swapped
    <3>1. CASE Swapped
      <4>1. RowIdle /\ ~StartShifting
        BY <1>4, <3>1 DEF Swapped, StartShifting
      <4>2. RowIdle'
        BY <4>1, StaysIdle
      <4> QED BY <1>2, <2>1, <3>1, <4>2 DEF Swapped
    <3>2. CASE ~Swapped
      <4>1. SUFFICES ASSUME brightness_bit = 0 PROVE ~RowIdle'
        BY <2>1, <3>2 DEF Swapped
      <4>2. CASE RowIdle
        <5>1. RowStart
          BY <3>2, <4>1, <4>2 DEF Swapped, RowStart, StartShifting
        <5> QED BY <1>1, <5>1 DEF RowTick, RowWait, RowWaitTillStart, RowShiftOut, RowEnd, RowIdle, RowStart
      <4>3. CASE ~RowIdle
        <5>1. shifting_buffer \in {0, 1}
          BY DEF ControlInv, ControlTypeOK
        <5>2. ~RowEnd
          BY <4>1, <5>1 DEF RowEnd
        <5> QED BY <1>1, <4>3, <5>2 DEF RowTick, RowWait, RowWaitTillStart, RowShiftOut, RowIdle
      <4> QED BY <4>2, <4>3
    <3> QED BY <3>1, <3>2
  <2>3. ShiftedRow' = ShiftedRow
    BY <2>1, <2>2 DEF ShiftedRow
  <2> QED BY <2>1, <2>2, <2>3
<1> QED BY <1>3, <1>4

(***************************************************************************)
(* The invariant with the pixels: the initial states.                      *)
(***************************************************************************)

LEMMA FirstTags ==
  /\ NoRow = -1 /\ Pixel(NoRow, Place(0)) \in Tag /\ 0 \in 0..TopBit /\ TopBit \in Nat
  /\ Dark.pixel = Pixel(NoRow, Place(0)) /\ Dark.bit = 0
  /\ [h \in Half |-> Dark] \in Pair
  /\ \A a \in Address : Pixel(NoRow, PlaceAt(a)) \in Tag
<1>1. 0 \in Address
  BY HubSizes DEF Address
<1>2. Pixel(NoRow, Place(0)) \in Tag
  BY <1>1 DEF Pixel, Tag
<1>3. TopBit \in Nat /\ 0 \in 0..TopBit
  BY FrameAssumption DEF TopBit
<1>4. Dark = [pixel |-> Pixel(NoRow, Place(0)), bit |-> 0]
  BY DEF Dark, Plane
<1>5. [h \in Half |-> Dark] \in Pair
  BY <1>2, <1>3, <1>4 DEF Pair
<1>6. ASSUME NEW a \in Address PROVE Pixel(NoRow, PlaceAt(a)) \in Tag
  <2>1. PICK k \in 1..Pairs, h \in Half : a = AddressOf(k, h)
    BY AddressInPair
  <2>2. PlaceAt(a) = Place(NumberOf(k, h)) /\ NumberOf(k, h) \in Address
    BY <2>1, PlaceAtPair, PairPlaces
  <2> QED BY <2>2 DEF Pixel, Tag
<1> QED BY <1>2, <1>3, <1>4, <1>5, <1>6 DEF NoRow

LEMMA HubInitInv == HubInit => HubInv
<1> SUFFICES ASSUME HubInit PROVE HubInv
  OBVIOUS
<1>1. ControlInv
  BY InitInv DEF HubInit
<1>2. /\ frame_fsm = "RST" /\ row_shifting = 0 /\ shifting_buffer = 0 /\ row_fsm = "IDLE"
      /\ buffer_counter = 0 /\ edges = 0
  BY DEF HubInit, ControlInit, FrameInit, RowModuleInit
<1>3. HubTypeOK
  <2>1. row_buffers \in [{0, 1} -> [Output -> [Address -> Tag]]]
    BY FirstTags DEF HubInit, EmptyBuffer
  <2>2. dat_r \in [Output -> Tag]
    BY FirstTags DEF HubInit
  <2>3. outputs_buffer \in [Output -> Pair] /\ pins \in [Output -> Pair]
    BY FirstTags DEF HubInit
  <2>4. panel_shift \in [Output -> [1..Pairs -> Pair]]
    BY <2>3 DEF HubInit
  <2>5. panel_latch \in [Output -> [1..Pairs -> Pair]]
    BY <2>4 DEF HubInit
  <2> QED BY <2>1, <2>2, <2>3, <2>4, <2>5 DEF HubTypeOK
<1>4. ASSUME NEW b \in {0, 1}, NEW o \in Output, NEW k \in 1..Pairs, NEW h \in Half
      PROVE  row_buffers[b][o][AddressOf(k, h)] = [row |-> NoRow, place |-> WantedPlace(k, h)]
  <2>1. row_buffers[b][o][AddressOf(k, h)] = Pixel(NoRow, PlaceAt(AddressOf(k, h)))
    BY PairPlaces DEF HubInit, EmptyBuffer
  <2> QED BY <2>1, PlaceAtPair DEF Pixel
<1>5. BuffersInv
  <2> SUFFICES ASSUME NEW o \in Output, NEW k \in 1..Pairs, NEW h \in Half
               PROVE  LET a == AddressOf(k, h)
                          shown == row_buffers[shifting_buffer][o][a]
                          next == row_buffers[1 - shifting_buffer][o][a]
                      IN  /\ shown.place = WantedPlace(k, h) /\ next.place = WantedPlace(k, h)
                          /\ ReadOrEmpty(shown, ShiftedRow) /\ ReadOrEmpty(next, FetchRow)
    BY Zenon DEF BuffersInv, PlaceRight
  <2>1. ShiftedRow = 0
    BY <1>2 DEF ShiftedRow, Swapped
  <2>2. FetchRow = 1
    <3>1. 1 % RowCount = 1
      BY FrameAssumption
    <3> QED BY <1>2, <3>1 DEF FetchRow
  <2>3. /\ row_buffers[0][o][AddressOf(k, h)] = [row |-> NoRow, place |-> WantedPlace(k, h)]
        /\ row_buffers[1][o][AddressOf(k, h)] = [row |-> NoRow, place |-> WantedPlace(k, h)]
    BY <1>4
  <2>4. 1 - shifting_buffer = 1
    BY <1>2
  <2> QED BY <1>2, <2>1, <2>2, <2>3, <2>4 DEF ReadOrEmpty
<1>6. OutputsInv
  <2>1. 1 \in 1..Pairs /\ 0 \in Half /\ AddressOf(1, 0) = 0 /\ 0 % OutputPixels = 0
    BY HubSizes DEF AddressOf, Half
  <2>2. WantedPlace(1, 0) = Place(0)
    <3>1. NumberOf(1, 0) = 0
      <4>1. 0 \div Columns = 0 /\ 0 % Columns = 0
        BY HubSizes
      <4> QED BY <4>1, HubSizes DEF NumberOf
    <3> QED BY <2>1, <3>1, PairPlaces
  <2>3. ASSUME NEW o \in Output
        PROVE  dat_r[o] = row_buffers[shifting_buffer][o][buffer_counter % OutputPixels]
    <3>1. row_buffers[0][o][AddressOf(1, 0)] = [row |-> NoRow, place |-> WantedPlace(1, 0)]
      BY <1>4, <2>1
    <3>2. dat_r[o] = Pixel(NoRow, Place(0))
      BY DEF HubInit
    <3> QED BY <1>2, <2>1, <2>2, <3>1, <3>2 DEF Pixel
  <2> QED BY <1>2, <2>3 DEF OutputsInv
<1>7. PanelsInv
  BY <1>2 DEF PanelsInv
<1> QED BY <1>1, <1>3, <1>5, <1>6, <1>7 DEF HubInv

(***************************************************************************)
(* The step, one part of the invariant at a time.                          *)
(***************************************************************************)

(* The ranges of the counters in an arithmetic form. *)
LEMMA HubRanges ==
  ASSUME ControlInv
  PROVE  /\ shifting_buffer \in {0, 1} /\ 1 - shifting_buffer \in {0, 1}
         /\ 1 - shifting_buffer # shifting_buffer
         /\ column_counter \in 0..(2 * Pairs + 2) /\ buffer_counter \in 0..(2 * Pairs + 2)
         /\ BufferSelect \in Half /\ brightness_bit \in 0..TopBit
         /\ fetched \in 0..Pixels /\ FetchRow \in 0..(RowCount - 1) /\ edges \in 0..Pairs
<1>1. ControlTypeOK
  BY DEF ControlInv
<1>2. shifting_buffer \in {0, 1} /\ edges \in 0..Pairs /\ fetched \in 0..Pixels
  BY <1>1 DEF ControlTypeOK, FetchTypeOK
<1>3. column_counter \in 0..(2 * Pairs + 2) /\ buffer_counter \in 0..(2 * Pairs + 2)
  BY <1>1, HubSizes DEF ControlTypeOK, RowModuleTypeOK, ColumnMax, OutputDelay
<1>4. BufferSelect \in Half
  BY <1>3, HubSizes DEF BufferSelect, Half
<1>5. brightness_bit \in 0..TopBit /\ row_shifting \in 0..(RowCount - 1)
  BY <1>1 DEF ControlTypeOK, FrameTypeOK
<1>6. FetchRow \in 0..(RowCount - 1)
  BY <1>5, FrameAssumption DEF FetchRow
<1> QED BY <1>2, <1>3, <1>4, <1>5, <1>6

(* The pixel that is written is the one whose turn it is, or at the end of *)
(* a read one from behind it.                                              *)
LEMMA PixelTaken ==
  ASSUME ControlInv, ControlTick, fetched' = fetched + 1
  PROVE  /\ fetched \in 0..(Pixels - 1) /\ last_fetched' \in fetched..(Pixels - 1)
         /\ fetched < Pixels - TailLoss => last_fetched' = fetched
<1>1. /\ fetched \in 0..Pixels /\ last_fetched \in -1..(Pixels - 1) /\ fetched <= last_fetched + 1
      /\ Pixels \in Nat
  BY HubSizes DEF ControlInv, ControlTypeOK, FetchTypeOK, FetchInv
<1>2. FetchPixel
  BY <1>1 DEF ControlTick, FetchTick, FetchStart, FetchFinish, fetch_vars
<1> QED BY <1>1, <1>2 DEF FetchPixel

(* A place of a row buffer keeps what it has, or gets a pixel that may be  *)
(* there from the row that is read; the buffer that is shifted out is not  *)
(* written.                                                                *)
LEMMA WriteHits ==
  ASSUME ControlInv, HubTypeOK, ControlTick, BufferWrite,
         NEW b \in {0, 1}, NEW o \in Output, NEW k \in 1..Pairs, NEW h \in Half
  PROVE  LET a == AddressOf(k, h)
             new == row_buffers'[b][o][a]
             own == new.row = FetchRow /\ PlaceRight(new, o, k, h)
             now == b = 1 - shifting_buffer /\ fetched' = fetched + 1
         IN  /\ new = row_buffers[b][o][a] \/ (now /\ own)
             /\ now /\ Slot(o, k, h) = fetched => own
<1> DEFINE a == AddressOf(k, h)
           taken == Pixel(FetchRow, Place(NumberIn(last_fetched')))
           n == NumberIn(fetched)
           p == OutputOf(fetched)
<1>1. a \in Address /\ NumberOf(k, h) \in Address
  BY PairPlaces
<1>2. row_buffers \in [{0, 1} -> [Output -> [Address -> Tag]]]
  BY DEF HubTypeOK
<1>3. CASE fetched' # fetched + 1
  BY <1>3 DEF BufferWrite
<1>4. CASE fetched' = fetched + 1
  <2>1. /\ fetched \in 0..(Pixels - 1) /\ last_fetched' \in fetched..(Pixels - 1)
        /\ fetched < Pixels - TailLoss => last_fetched' = fetched
    BY <1>4, PixelTaken
  <2>2. p \in Output /\ n \in Address /\ p * OutputPixels + n = fetched
        /\ (o * OutputPixels + NumberOf(k, h) = fetched => o = p /\ NumberOf(k, h) = n)
    BY <1>1, <2>1, OutputOfPixel
  <2>3. row_buffers' = [row_buffers EXCEPT ![1 - shifting_buffer][p][BufferAddress(n)] = taken]
    BY <1>4 DEF BufferWrite
  <2>9. taken.row = FetchRow /\ taken.place = Place(NumberIn(last_fetched'))
    BY DEF Pixel
  <2>10. n = NumberIn(fetched)
    OBVIOUS
  <2> HIDE DEF n, p, taken
  <2>4. 1 - shifting_buffer \in {0, 1}
    BY HubRanges
  <2>5. PICK j \in 1..Pairs, g \in Half : n = NumberOf(j, g)
    BY <2>2, NumberInPair
  <2>6. BufferAddress(n) = AddressOf(j, g) /\ Place(n) = WantedPlace(j, g) /\ AddressOf(j, g) \in Address
    BY <2>5, PairPlaces
  <2>7. CASE b = 1 - shifting_buffer /\ o = p /\ AddressOf(j, g) = a
    <3>1. row_buffers'[b][o][a] = taken
      BY <1>1, <1>2, <2>2, <2>3, <2>4, <2>6, <2>7
    <3>2. j = k /\ g = h
      BY <2>7, PairsApart
    <3>3. Slot(o, k, h) = fetched /\ Place(n) = WantedPlace(k, h)
      BY <2>2, <2>5, <2>6, <2>7, <3>2 DEF Slot
    <3>4. PlaceRight(taken, o, k, h)
      <4>1. CASE last_fetched' = fetched
        BY <2>9, <2>10, <3>3, <4>1 DEF PlaceRight
      <4>2. CASE last_fetched' # fetched
        <5>1. MayBeLost(o, k, h)
          BY <2>1, <3>3, <4>2, HubSizes DEF MayBeLost
        <5> QED BY <2>1, <2>9, <3>3, <5>1 DEF PlaceRight
      <4> QED BY <4>1, <4>2
    <3> QED BY <1>4, <2>7, <2>9, <3>1, <3>4
  <2>8. CASE ~(b = 1 - shifting_buffer /\ o = p /\ AddressOf(j, g) = a)
    <3>1. row_buffers'[b][o][a] = row_buffers[b][o][a]
      BY <1>1, <1>2, <2>2, <2>3, <2>4, <2>6, <2>8
    <3>2. ~(b = 1 - shifting_buffer /\ Slot(o, k, h) = fetched)
      BY <2>2, <2>6, <2>8, PairPlaces DEF Slot
    <3> QED BY <3>1, <3>2
  <2> QED BY <2>7, <2>8
<1> QED BY <1>3, <1>4

(* The types.                                                              *)
LEMMA HubTypeStep ==
  ASSUME HubInv, HubTick
  PROVE  HubTypeOK'
<1>1. ControlInv /\ HubTypeOK /\ ControlTick
  BY DEF HubInv, HubTick
<1>2. /\ shifting_buffer \in {0, 1} /\ 1 - shifting_buffer \in {0, 1}
      /\ BufferSelect \in Half /\ brightness_bit \in 0..TopBit
  BY <1>1, HubRanges
<1>3. row_buffers' \in [{0, 1} -> [Output -> [Address -> Tag]]]
  <2>1. CASE fetched' = fetched + 1
    <3>1. fetched \in 0..(Pixels - 1) /\ last_fetched' \in 0..(Pixels - 1)
      BY <1>1, <2>1, PixelTaken, HubSizes
    <3> DEFINE n == NumberIn(last_fetched')
               pixel == Pixel(FetchRow, Place(n))
    <3>2. OutputOf(fetched) \in Output /\ n \in Address
      BY <3>1, OutputOfPixel
    <3> HIDE DEF n
    <3>3. pixel \in Tag
      BY <1>1, <3>2, HubRanges DEF Tag, Pixel
    <3>4. row_buffers' = [row_buffers EXCEPT
            ![1 - shifting_buffer][OutputOf(fetched)][BufferAddress(NumberIn(fetched))] = pixel]
      BY <2>1 DEF HubTick, BufferWrite, n
    <3> HIDE DEF pixel
    <3> QED BY <1>1, <1>2, <3>2, <3>3, <3>4 DEF HubTypeOK
  <2>2. CASE fetched' # fetched + 1
    BY <1>1, <2>2 DEF HubTick, BufferWrite, HubTypeOK
  <2> QED BY <2>1, <2>2
<1>4. dat_r' \in [Output -> Tag]
  <2>1. shifting_buffer' \in {0, 1}
    BY <1>1, <1>2, SwapFinds
  <2> DEFINE a == IF shifting_buffer' = shifting_buffer THEN column_counter % OutputPixels ELSE 0
  <2>2. a \in Address
    BY <1>1, HubRanges, HubSizes DEF Address
  <2>3. dat_r' = [o \in Output |-> row_buffers[shifting_buffer'][o][a]]
    BY DEF HubTick, BufferRead
  <2> HIDE DEF a
  <2> QED BY <1>1, <2>1, <2>2, <2>3 DEF HubTypeOK
<1>5. outputs_buffer' \in [Output -> Pair]
  <2>1. ASSUME NEW o \in Output
        PROVE  [outputs_buffer[o] EXCEPT ![BufferSelect] = Plane(dat_r[o], brightness_bit)] \in Pair
    <3>1. outputs_buffer[o] \in Pair /\ Plane(dat_r[o], brightness_bit) \in [pixel : Tag, bit : 0..TopBit]
      BY <1>1, <1>2 DEF HubTypeOK, Plane
    <3> QED BY <1>2, <3>1 DEF Pair
  <2> QED BY <2>1 DEF HubTick, OutputTick
<1>6. pins' \in [Output -> Pair]
  BY <1>1 DEF HubTick, OutputTick, HubTypeOK
<1>7. panel_shift' \in [Output -> [1..Pairs -> Pair]]
  <2>1. ASSUME NEW o \in Output
        PROVE  Append(Tail(panel_shift[o]), pins[o]) \in [1..Pairs -> Pair]
    <3>1. panel_shift[o] \in [1..Pairs -> Pair] /\ pins[o] \in Pair /\ Pairs \in Nat /\ Pairs > 0
      BY <1>1, HubSizes DEF HubTypeOK
    <3> QED BY <3>1, ShiftedIn
  <2> QED BY <1>1, <2>1 DEF HubTick, PanelTick, HubTypeOK
<1>8. panel_latch' \in [Output -> [1..Pairs -> Pair]]
  BY <1>1 DEF HubTick, PanelTick, HubTypeOK
<1> QED BY <1>3, <1>4, <1>5, <1>6, <1>7, <1>8 DEF HubTypeOK

(* The row buffers.                                                        *)
LEMMA BuffersStep ==
  ASSUME HubInv, HubTick
  PROVE  BuffersInv'
<1>1. ControlInv /\ HubTypeOK /\ BuffersInv /\ ControlTick /\ BufferWrite
  BY DEF HubInv, HubTick
<1>2. /\ shifting_buffer \in {0, 1} /\ 1 - shifting_buffer \in {0, 1}
      /\ 1 - shifting_buffer # shifting_buffer /\ fetched \in 0..Pixels
  BY <1>1, HubRanges
<1> SUFFICES ASSUME NEW o \in Output, NEW k \in 1..Pairs, NEW h \in Half
             PROVE  LET a == AddressOf(k, h)
                        shown == row_buffers'[shifting_buffer'][o][a]
                        next == row_buffers'[1 - shifting_buffer'][o][a]
                    IN  /\ PlaceRight(shown, o, k, h) /\ PlaceRight(next, o, k, h)
                        /\ ReadOrEmpty(shown, ShiftedRow') \/ MayBeLost(o, k, h)
                        /\ brightness_bit' # TopBit /\ ~Swapped' /\ Slot(o, k, h) < fetched' =>
                               ReadOrEmpty(next, FetchRow')
  BY Zenon DEF BuffersInv
<1> DEFINE a == AddressOf(k, h)
           number == Slot(o, k, h)
           old(b) == row_buffers[b][o][a]
           new(b) == row_buffers'[b][o][a]
           other == 1 - shifting_buffer
           own == new(other).row = FetchRow /\ PlaceRight(new(other), o, k, h)
<1>3. /\ PlaceRight(old(shifting_buffer), o, k, h) /\ PlaceRight(old(other), o, k, h)
      /\ ReadOrEmpty(old(shifting_buffer), ShiftedRow) \/ MayBeLost(o, k, h)
      /\ brightness_bit # TopBit /\ ~Swapped /\ number < fetched => ReadOrEmpty(old(other), FetchRow)
  BY <1>1 DEF BuffersInv
<1>4. new(shifting_buffer) = old(shifting_buffer)
  BY <1>1, <1>2, WriteHits
<1>5. /\ new(other) = old(other) \/ (fetched' = fetched + 1 /\ own)
      /\ fetched' = fetched + 1 /\ number = fetched => own
  BY <1>1, <1>2, WriteHits
<1>6. own => ReadOrEmpty(new(other), FetchRow)
  BY DEF ReadOrEmpty
<1>7. own => PlaceRight(new(other), o, k, h)
  OBVIOUS
<1> HIDE DEF own
<1>8. PlaceRight(new(other), o, k, h)
  BY <1>3, <1>5, <1>7
<1>9. number \in Int
  <2>1. NumberOf(k, h) \in Int /\ o \in Int /\ OutputPixels \in Int
    BY PairPlaces, HubSizes DEF Address, Output
  <2> QED BY <2>1 DEF Slot
<1>10. MayBeLost(o, k, h) <=> number >= Pixels - TailLoss
  BY DEF MayBeLost
<1> HIDE DEF old, new, number, a, other
<1>11. CASE shifting_buffer' = shifting_buffer
  <2>1. ReadOrEmpty(new(shifting_buffer), ShiftedRow') \/ MayBeLost(o, k, h)
    BY <1>1, <1>3, <1>4, <1>11, NoSwapKeeps
  <2>2. ASSUME brightness_bit' # TopBit, ~Swapped', number < fetched'
        PROVE  ReadOrEmpty(new(other), FetchRow')
    <3>1. FetchRow' = FetchRow /\ (fetched' = 0 \/ (brightness_bit # TopBit /\ ~Swapped))
      BY <1>1, <1>11, <2>2, NoSwapKeeps
    <3>2. number >= 0
      <4>1. NumberOf(k, h) \in Nat /\ o \in Nat /\ OutputPixels \in Nat
        BY PairPlaces, HubSizes DEF Address, Output
      <4> QED BY <4>1 DEF number, Slot
    <3>3. brightness_bit # TopBit /\ ~Swapped
      BY <1>9, <2>2, <3>1, <3>2
    <3>4. fetched' \in {0, fetched, fetched + 1}
      BY <1>1 DEF ControlTick, FetchTick, FetchStart, FetchPixel, FetchFinish, fetch_vars
    <3>5. CASE number < fetched
      BY <1>3, <1>5, <1>6, <3>1, <3>3, <3>5
    <3>6. CASE number >= fetched
      <4>1. fetched' = fetched + 1 /\ number = fetched
        BY <1>2, <1>9, <2>2, <3>2, <3>4, <3>6, HubSizes
      <4> QED BY <1>5, <1>6, <3>1, <4>1
    <3> QED BY <1>2, <1>9, <3>5, <3>6, HubSizes
  <2> QED BY <1>3, <1>4, <1>8, <1>11, <2>1, <2>2 DEF new, number, other, a
<1>12. CASE shifting_buffer' # shifting_buffer
  <2>1. /\ shifting_buffer' = other /\ 1 - shifting_buffer' = shifting_buffer
        /\ fetched' = fetched /\ fetched >= Pixels - TailLoss
        /\ brightness_bit # TopBit /\ ~LatchEnds /\ ~Swapped /\ Swapped'
    BY <1>1, <1>2, <1>12, SwapFinds DEF other
  <2>2. ShiftedRow' = FetchRow
    BY <1>1, <2>1, PlaneSteady DEF ShiftedRow
  <2>3. new(other) = old(other)
    BY <1>2, <1>5, <2>1, HubSizes
  <2>4. ReadOrEmpty(new(other), FetchRow) \/ MayBeLost(o, k, h)
    <3>1. number < fetched \/ MayBeLost(o, k, h)
      BY <1>2, <1>9, <1>10, <2>1, HubSizes
    <3> QED BY <1>3, <2>1, <2>3, <3>1
  <2> QED BY <1>3, <1>4, <1>8, <2>1, <2>2, <2>4 DEF new, number, a
<1> QED BY <1>11, <1>12

(* What a clock of a shift finds and does.                                 *)
LEMMA ShiftClocks ==
  ASSUME ControlInv, ControlTick
  PROVE  /\ row_fsm' = "SHIFT_OUT" /\ shifting' =>
              /\ ~LatchEnds /\ ~RowIdle /\ shifting_buffer' = shifting_buffer
              /\ buffer_counter \in 0..(2 * Pairs) /\ buffer_counter' = buffer_counter + 1
              /\ buffer_counter > 0 => row_fsm = "SHIFT_OUT" /\ shifting
         /\ ~RowStart /\ RisingEdge =>
              /\ row_fsm = "SHIFT_OUT" /\ shifting /\ ~LatchEnds
              /\ edges \in 0..(Pairs - 1) /\ buffer_counter = 2 * edges + 3
              /\ edges' = edges + 1
<1> USE PairsAssumption
<1>1. ShiftInv /\ ShiftInv' /\ LatchInv /\ RowTick /\ RowModuleTick(RowStart) /\ CountEdges
  BY ShiftStep DEF ControlInv, ControlTick
<1>2. row_fsm \in {"IDLE", "WAIT_TILL_START", "SHIFT_OUT"} /\ buffer_counter' = column_counter
  BY <1>1 DEF ControlInv, ControlTypeOK, RowModuleTick, ShiftClock
<1>3. column_counter \in 0..(2 * Pairs + 2) /\ buffer_counter \in 0..(2 * Pairs + 2) /\ Pairs \in Nat
  BY HubRanges
<1>4. ASSUME row_fsm' = "SHIFT_OUT", shifting'
      PROVE  /\ ~LatchEnds /\ ~RowIdle /\ shifting_buffer' = shifting_buffer
             /\ buffer_counter \in 0..(2 * Pairs) /\ buffer_counter' = buffer_counter + 1
             /\ buffer_counter > 0 => row_fsm = "SHIFT_OUT" /\ shifting
  <2>1. row_fsm = "WAIT_TILL_START" \/ row_fsm = "SHIFT_OUT"
    BY <1>1, <1>4 DEF RowTick, RowWait, RowWaitTillStart, RowShiftOut, RowEnd, RowIdle
  <2>2. ~RowIdle /\ ~LatchEnds /\ shifting_buffer' = shifting_buffer
    BY <1>1, <1>4, <2>1 DEF RowTick, RowWait, RowWaitTillStart, RowShiftOut, RowEnd,
                            RowIdle, LatchEnds, LatchInv
  <2>3. column_counter' \in 2..(2 * Pairs + 2) /\ buffer_counter' = column_counter' - 1
    BY <1>1, <1>4 DEF ShiftInv, ColumnMax, OutputDelay
  <2> DEFINE c == column_counter'
  <2>4. c \in 2..(2 * Pairs + 2) /\ column_counter = c - 1
    BY <1>2, <2>3
  <2> HIDE DEF c
  <2>5. c = column_counter + 1 /\ column_counter <= 2 * Pairs + 1
    BY <1>3, <2>4
  <2> USE DEF c
  <2>6. CASE row_fsm = "WAIT_TILL_START"
    <3>1. buffer_counter = 0 /\ column_counter = 1
      BY <1>1, <2>6 DEF ShiftInv
    <3> QED BY <1>2, <2>2, <3>1
  <2>7. CASE row_fsm = "SHIFT_OUT"
    <3>1. shifting
      <4>1. SUFFICES ASSUME ~shifting PROVE FALSE
        OBVIOUS
      <4>2. column_counter = 0
        BY <1>1, <2>7, <4>1 DEF ShiftInv
      <4> QED BY <2>3, <2>5, <4>2
    <3>2. buffer_counter = column_counter - 1 /\ column_counter \in 2..(2 * Pairs + 2)
      BY <1>1, <2>7, <3>1 DEF ShiftInv, ColumnMax, OutputDelay
    <3>3. buffer_counter' = buffer_counter + 1 /\ buffer_counter \in 0..(2 * Pairs)
      <4>1. buffer_counter' = buffer_counter + 1
        BY <1>2, <1>3, <3>2
      <4> QED BY <1>3, <2>5, <3>2, <4>1
    <3> QED BY <2>2, <2>7, <3>1, <3>3
  <2> QED BY <2>1, <2>6, <2>7
<1>5. ASSUME ~RowStart, RisingEdge
      PROVE  /\ row_fsm = "SHIFT_OUT" /\ shifting /\ ~LatchEnds
             /\ edges \in 0..(Pairs - 1) /\ buffer_counter = 2 * edges + 3
             /\ edges' = edges + 1
  <2>1. buffer_counter >= 2 /\ buffer_counter % 2 = 1 /\ clk = 0
    BY <1>1, <1>5, HubRanges DEF RowModuleTick, ShiftClock, RisingEdge, OutputDelay
  <2>2. row_fsm = "SHIFT_OUT"
    BY <1>1, <1>2, <2>1 DEF ShiftInv, RowIdle
  <2>3. shifting
    <3>1. SUFFICES ASSUME ~shifting PROVE FALSE
      OBVIOUS
    <3>2. buffer_counter = 2 * Pairs + 2 \/ buffer_counter = 0
      BY <1>1, <2>2, <3>1 DEF ShiftInv, ColumnMax, OutputDelay
    <3> QED BY <2>1, <3>2
  <2>4. /\ column_counter \in 2..(2 * Pairs + 2) /\ buffer_counter = column_counter - 1
        /\ edges = EdgesAt(buffer_counter)
    BY <1>1, <2>2, <2>3 DEF ShiftInv, ColumnMax, OutputDelay
  <2>5. edges = buffer_counter \div 2 - 1
    BY <2>1, <2>4 DEF EdgesAt, OutputDelay
  <2>6. ~LatchEnds
    BY <1>1, <2>2 DEF LatchInv, LatchEnds, RowIdle
  <2>7. edges' = edges + 1
    BY <1>1, <1>5 DEF CountEdges
  <2>8. buffer_counter = 2 * (buffer_counter \div 2) + 1
    BY <1>3, <2>1
  <2>9. buffer_counter = 2 * edges + 3 /\ buffer_counter <= 2 * Pairs + 1
    BY <1>3, <2>4, <2>5, <2>8
  <2>10. edges \in 0..(Pairs - 1)
    BY <1>3, <2>1, <2>5, <2>9
  <2> QED BY <2>2, <2>3, <2>6, <2>7, <2>9, <2>10
<1> QED BY <1>4, <1>5

(* The read ports, the output registers and the pins.                      *)
LEMMA OutputsStep ==
  ASSUME HubInv, HubTick
  PROVE  OutputsInv'
<1>1. /\ ControlInv /\ HubTypeOK /\ BuffersInv /\ OutputsInv
      /\ ControlTick /\ BufferWrite /\ BufferRead /\ OutputTick
  BY DEF HubInv, HubTick
<1>2. /\ shifting_buffer \in {0, 1} /\ 1 - shifting_buffer # shifting_buffer
      /\ BufferSelect \in Half /\ buffer_counter \in 0..(2 * Pairs + 2)
      /\ column_counter \in 0..(2 * Pairs + 2)
  BY <1>1, HubRanges
<1>3. buffer_counter' = column_counter
  BY <1>1 DEF ControlTick, RowModuleTick, ShiftClock
<1>4. ASSUME NEW o \in Output
      PROVE  dat_r'[o] = row_buffers'[shifting_buffer'][o][buffer_counter' % OutputPixels]
  <2>1. CASE shifting_buffer' = shifting_buffer
    <3>1. PICK k \in 1..Pairs, h \in Half : column_counter % OutputPixels = AddressOf(k, h)
      <4>1. column_counter % OutputPixels \in Address
        BY <1>2, HubSizes DEF Address
      <4> QED BY <4>1, AddressInPair
    <3>2. row_buffers'[shifting_buffer][o][AddressOf(k, h)] = row_buffers[shifting_buffer][o][AddressOf(k, h)]
      BY <1>1, <1>2, WriteHits
    <3>3. dat_r'[o] = row_buffers[shifting_buffer][o][column_counter % OutputPixels]
      BY <1>1, <2>1 DEF BufferRead
    <3> QED BY <1>3, <2>1, <3>1, <3>2, <3>3
  <2>2. CASE shifting_buffer' # shifting_buffer
    <3>1. column_counter = 0 /\ fetched' = fetched
      BY <1>1, <2>2, SwapFinds
    <3>2. row_buffers' = row_buffers
      <4>1. fetched' # fetched + 1
        BY <1>1, <3>1, HubRanges
      <4> QED BY <1>1, <4>1 DEF BufferWrite
    <3>3. dat_r'[o] = row_buffers[shifting_buffer'][o][0]
      BY <1>1, <2>2 DEF BufferRead
    <3>4. 0 % OutputPixels = 0
      BY HubSizes
    <3> QED BY <1>3, <3>1, <3>2, <3>3, <3>4
  <2> QED BY <2>1, <2>2
<1>5. ASSUME row_fsm' = "SHIFT_OUT", shifting', NEW o \in Output, NEW k \in 1..Pairs, NEW h \in Half
      PROVE  /\ AddressOf(k, h) \in {buffer_counter' - 2, buffer_counter' - 1} =>
                  PlaneRight(outputs_buffer'[o][h], row_shifting', brightness_bit', o, k, h)
             /\ buffer_counter' = 2 * k + 1 =>
                  PlaneRight(pins'[o][h], row_shifting', brightness_bit', o, k, h)
  <2>1. /\ ~LatchEnds /\ ~RowIdle /\ buffer_counter \in 0..(2 * Pairs)
        /\ buffer_counter' = buffer_counter + 1
        /\ buffer_counter > 0 => row_fsm = "SHIFT_OUT" /\ shifting
    BY <1>1, <1>5, ShiftClocks
  <2>2. row_shifting' = row_shifting /\ brightness_bit' = brightness_bit /\ ShiftedRow = row_shifting
    BY <1>1, <2>1, PlaneSteady DEF ShiftedRow, Swapped
  <2>3. AddressOf(k, h) \in 0..(2 * Pairs - 1) /\ AddressOf(k, h) = 2 * (k - 1) + h
        /\ h \in {0, 1} /\ k \in Nat /\ AddressOf(k, h) % 2 = h
    BY PairPlaces, HubSizes DEF Address, AddressOf, Half
  <2>4. buffer_counter > 0 /\ AddressOf(k, h) \in {buffer_counter - 2, buffer_counter - 1} =>
          PlaneRight(outputs_buffer[o][h], row_shifting, brightness_bit, o, k, h)
    BY <1>1, <2>1 DEF OutputsInv
  <2>5. outputs_buffer'[o] = [outputs_buffer[o] EXCEPT ![BufferSelect] = Plane(dat_r[o], brightness_bit)]
    BY <1>1 DEF OutputTick
  <2>6. DOMAIN outputs_buffer[o] = Half
    BY <1>1 DEF HubTypeOK, Pair
  <2>7. ASSUME AddressOf(k, h) = buffer_counter
        PROVE  PlaneRight(outputs_buffer'[o][h], row_shifting, brightness_bit, o, k, h)
    <3>1. BufferSelect = h /\ buffer_counter % OutputPixels = AddressOf(k, h)
      BY <2>3, <2>7, HubSizes DEF BufferSelect
    <3>2. outputs_buffer'[o][h] = Plane(dat_r[o], brightness_bit)
      BY <2>5, <2>6, <3>1
    <3>3. dat_r[o] = row_buffers[shifting_buffer][o][AddressOf(k, h)]
      BY <1>1, <3>1 DEF OutputsInv
    <3>4. PlaceRight(dat_r[o], o, k, h)
          /\ (ReadOrEmpty(dat_r[o], row_shifting) \/ MayBeLost(o, k, h))
      BY <1>1, <2>2, <3>3 DEF BuffersInv
    <3> QED BY <3>2, <3>4 DEF PlaneRight, Plane
  <2>8. ASSUME AddressOf(k, h) = buffer_counter - 1
        PROVE  PlaneRight(outputs_buffer'[o][h], row_shifting, brightness_bit, o, k, h)
    <3>1. BufferSelect # h /\ buffer_counter > 0
      BY <2>1, <2>3, <2>8, HubSizes DEF BufferSelect
    <3>2. outputs_buffer'[o][h] = outputs_buffer[o][h]
      BY <2>5, <2>6, <3>1
    <3> QED BY <2>4, <2>8, <3>1, <3>2
  <2>9. ASSUME buffer_counter' = 2 * k + 1
        PROVE  PlaneRight(pins'[o][h], row_shifting, brightness_bit, o, k, h)
    <3>1. buffer_counter = 2 * k
      BY <2>1, <2>3, <2>9, HubSizes
    <3>2. BufferSelect = 0 /\ buffer_counter > 0 /\ AddressOf(k, h) \in {buffer_counter - 2, buffer_counter - 1}
      BY <2>3, <3>1 DEF BufferSelect
    <3>3. pins' = outputs_buffer
      BY <1>1, <3>2 DEF OutputTick
    <3> QED BY <2>4, <3>2, <3>3
  <2>10. AddressOf(k, h) \in {buffer_counter' - 2, buffer_counter' - 1} =>
           AddressOf(k, h) \in {buffer_counter - 1, buffer_counter}
    BY <2>1, <2>3, HubSizes
  <2> QED BY <2>2, <2>7, <2>8, <2>9, <2>10
<1> QED BY <1>4, <1>5 DEF OutputsInv

(* The shift registers and the latches of the panels.                      *)
LEMMA PanelsStep ==
  ASSUME HubInv, HubTick
  PROVE  PanelsInv'
<1>1. /\ ControlInv /\ HubTypeOK /\ OutputsInv /\ PanelsInv /\ ControlTick /\ PanelTick
  BY DEF HubInv, HubTick
<1>2. edges \in 0..Pairs /\ Pairs \in Nat /\ Pairs > 0
  BY <1>1, HubRanges, HubSizes
<1>3. FrameTick(ShiftingDone) /\ CountEdges /\ LatchInv /\ FrameTypeOK
  BY <1>1 DEF ControlTick, ControlInv, ControlTypeOK
<1>4. ASSUME NEW o \in Output, NEW k \in 1..Pairs, NEW h \in Half, k <= edges'
      PROVE  PlaneRight(panel_shift'[o][k + (Pairs - edges')][h], row_shifting', brightness_bit', o, k, h)
  <2>1. ~RowStart
    BY <1>3, <1>4 DEF CountEdges
  <2>2. ~LatchEnds
    BY <1>1, <2>1, PlaneTurns
  <2>3. row_shifting' = row_shifting /\ brightness_bit' = brightness_bit
    BY <1>1, <2>2, PlaneSteady
  <2>4. CASE RisingEdge
    <3>1. /\ row_fsm = "SHIFT_OUT" /\ shifting /\ edges \in 0..(Pairs - 1)
          /\ buffer_counter = 2 * edges + 3 /\ edges' = edges + 1
      BY <1>1, <2>1, <2>4, ShiftClocks
    <3> DEFINE i == k + (Pairs - edges')
    <3>2. i \in 1..Pairs /\ (k = edges' <=> i = Pairs)
          /\ (k # edges' => k <= edges /\ i + 1 = k + (Pairs - edges))
          /\ (k = edges' => buffer_counter = 2 * k + 1)
      BY <1>2, <1>4, <3>1
    <3> HIDE DEF i
    <3>3. panel_shift'[o] = Append(Tail(panel_shift[o]), pins[o])
      BY <1>1, <2>4 DEF PanelTick
    <3>4. panel_shift[o] \in [1..Pairs -> Pair] /\ pins[o] \in Pair
      BY <1>1 DEF HubTypeOK
    <3>5. panel_shift'[o][i] = IF i = Pairs THEN pins[o] ELSE panel_shift[o][i + 1]
      BY <1>2, <3>2, <3>3, <3>4, ShiftedIn
    <3>6. CASE k = edges'
      <4>1. PlaneRight(pins[o][h], row_shifting, brightness_bit, o, k, h)
        BY <1>1, <3>1, <3>2, <3>6 DEF OutputsInv
      <4> QED BY <2>3, <3>2, <3>5, <3>6, <4>1 DEF i
    <3>7. CASE k # edges'
      <4>1. PlaneRight(panel_shift[o][i + 1][h], row_shifting, brightness_bit, o, k, h)
        BY <1>1, <3>2, <3>7 DEF PanelsInv
      <4> QED BY <2>3, <3>2, <3>5, <3>7, <4>1 DEF i
    <3> QED BY <3>6, <3>7
  <2>5. CASE ~RisingEdge
    <3>1. edges' = edges /\ panel_shift' = panel_shift
      BY <1>1, <1>3, <2>1, <2>5 DEF CountEdges, PanelTick
    <3> QED BY <1>1, <1>4, <2>3, <3>1 DEF PanelsInv
  <2> QED BY <2>4, <2>5
<1>5. ASSUME NEW o \in Output, NEW k \in 1..Pairs, NEW h \in Half,
             frame_fsm' = "WAIT", brightness_counter' > 0
      PROVE  PlaneRight(panel_latch'[o][k][h], row_active', ShownBit', o, k, h)
  <2>1. CASE LatchEnds
    <3>1. panel_latch' = panel_shift
      BY <1>1, <2>1 DEF PanelTick, Lat, LatchEnds
    <3>2. edges = Pairs /\ row_active' = row_shifting /\ ShownBit' = brightness_bit
      BY <1>1, <2>1, PlaneTurns
    <3>3. k <= edges /\ k + (Pairs - edges) = k
      BY <1>2, <3>2
    <3>4. PlaneRight(panel_shift[o][k][h], row_shifting, brightness_bit, o, k, h)
      BY <1>1, <3>3 DEF PanelsInv
    <3> QED BY <3>1, <3>2, <3>4
  <2>2. CASE ~LatchEnds
    <3>1. row_active' = row_active /\ ShownBit' = ShownBit
      BY <1>1, <2>2, PlaneSteady
    <3>2. CASE FrameReset
      BY <1>3, <1>5, <3>2 DEF FrameReset, CountDown, LatchInv
    <3>3. CASE FrameWait(ShiftingDone)
      <4>1. frame_fsm = "WAIT" /\ brightness_counter > 0
        <5>1. brightness_counter \in Nat
          BY <1>3, RunsDown DEF FrameTypeOK
        <5> QED BY <1>5, <3>3, <5>1 DEF FrameWait, CountDown
      <4>2. panel_latch' = panel_latch
        BY <1>1, <4>1 DEF PanelTick, Lat
      <4> QED BY <1>1, <3>1, <4>1, <4>2 DEF PanelsInv
    <3>4. ~FrameStartLatch(ShiftingDone) /\ ~FrameLatch /\ ~FrameEndLatch
      BY <1>5, <2>2 DEF FrameStartLatch, FrameLatch, FrameEndLatch
    <3> QED BY <1>3, <3>2, <3>3, <3>4 DEF FrameTick
  <2> QED BY <2>1, <2>2
<1> QED BY <1>4, <1>5 DEF PanelsInv

LEMMA HubStepInv == HubInv /\ [HubTick]_hub_vars => HubInv'
<1> SUFFICES ASSUME HubInv, [HubTick]_hub_vars PROVE HubInv'
  OBVIOUS
<1>1. CASE HubTick
  <2>1. ControlInv'
    BY <1>1, StepInv DEF HubInv, HubTick
  <2> QED BY <1>1, <2>1, HubTypeStep, BuffersStep, OutputsStep, PanelsStep DEF HubInv
<1>2. CASE UNCHANGED hub_vars
  <2>1. UNCHANGED control_vars /\ UNCHANGED pixel_vars
    BY <1>2 DEF hub_vars
  <2>2. ControlInv'
    BY <2>1, StepInv DEF HubInv
  <2>3. UNCHANGED <<row_fsm, frame_fsm, brightness_bit, brightness_counter, row_shifting, row_active,
                    shifting_buffer, fetched, buffer_counter, shifting, edges>>
    BY <2>1 DEF control_vars, frame_vars, row_module_vars, fetch_vars
  <2>4. ShiftedRow' = ShiftedRow /\ FetchRow' = FetchRow /\ ShownBit' = ShownBit /\ (Swapped' <=> Swapped)
    BY <2>3 DEF ShiftedRow, FetchRow, ShownBit, Swapped, RowIdle
  <2>5. HubTypeOK'
    BY <2>1 DEF HubInv, HubTypeOK, pixel_vars
  <2>6. BuffersInv'
    BY <2>1, <2>3, <2>4, Zenon DEF HubInv, BuffersInv, pixel_vars
  <2>7. OutputsInv'
    BY <2>1, <2>3, Zenon DEF HubInv, OutputsInv, pixel_vars
  <2>8. PanelsInv'
    BY <2>1, <2>3, <2>4, Zenon DEF HubInv, PanelsInv, pixel_vars
  <2> QED BY <2>2, <2>5, <2>6, <2>7, <2>8 DEF HubInv
<1> QED BY <1>1, <1>2

(***************************************************************************)
(* The properties.                                                         *)
(***************************************************************************)

(* The pixels' invariant holds throughout every behaviour of the driver.   *)
THEOREM HubInvariant == HubSpec => []HubInv
<1>1. HubInit => HubInv
  BY HubInitInv
<1>2. HubInv /\ [HubTick]_hub_vars => HubInv'
  BY HubStepInv
<1> QED BY <1>1, <1>2, PTL DEF HubSpec

(* A lit panel shows the row on its row pins, each LED its own pixel and   *)
(* the bit whose time is running.                                          *)
THEOREM LitPixels == HubSpec => []LitPixelsRight
<1>1. HubInv => LitPixelsRight
  <2> SUFFICES ASSUME HubInv, ~Oe PROVE LitPixelsRight
    BY DEF LitPixelsRight
  <2>1. LatchInv /\ FrameTypeOK /\ PanelsInv
    BY DEF HubInv, ControlInv, ControlTypeOK
  <2>2. brightness_counter > 0
    BY <2>1, RunsDown DEF Oe, FrameTypeOK
  <2>3. frame_fsm = "WAIT"
    BY <2>1, <2>2 DEF LatchInv, FrameTypeOK
  <2> QED BY <2>1, <2>2, <2>3, Zenon DEF PanelsInv, LitPixelsRight
<1> QED BY <1>1, HubInvariant, PTL

(* The pins are quiet around every rising edge of the shift clock.         *)
THEOREM PinsAreStable == HubSpec => PinsStable
<1> DEFINE P == pins' # pins => clk' = 0
<1>1. [HubTick]_hub_vars => [P]_hub_vars
  <2> SUFFICES ASSUME HubTick, pins' # pins PROVE clk' = 0
    OBVIOUS
  <2>1. BufferSelect = 0
    BY DEF HubTick, OutputTick
  <2> QED BY <2>1 DEF HubTick, ControlTick, RowModuleTick, ShiftClock, BufferSelect
<1>2. HubSpec => [][P]_hub_vars
  BY <1>1, PTL DEF HubSpec
<1> QED BY <1>2 DEF PinsStable
=============================================================================
