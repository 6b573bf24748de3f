--------------------------------- MODULE Hub75 ---------------------------------
(***************************************************************************)
(* The panel driver with its pixels (class Hub75 of hub75.py): the two row *)
(* buffers, the output registers (Output, RowColorOutput), and the panels  *)
(* they drive.  A pixel is a tag that says which row and which place of it *)
(* was read from memory; on the pins the tag also says which bit of the    *)
(* colour it is.  Colours, palette and gamma table do not matter here.     *)
(*                                                                         *)
(* The panels are not part of the repository: a chain is a shift register  *)
(* that takes the pins on a rising edge of clk and a latch that is open    *)
(* while lat is high.                                                      *)
(***************************************************************************)
EXTENDS RowController, RowBuffers, Sequences

ASSUME InstanceAssumption ==
  Pairs = Chain * Columns /\ Pixels = RowPixels

VARIABLES
  row_buffers,    (* The tags in the two row buffers.                      *)
  dat_r,          (* What the read port of each output's memory returns.   *)
  outputs_buffer, (* Per output: one bit for each half of the panel.       *)
  pins,           (* The colour pins of each output.                       *)
  panel_shift,    (* External: the shift register of each chain.           *)
  panel_latch     (* External: the latched plane of each chain.            *)

pixel_vars == <<row_buffers, dat_r, outputs_buffer, pins, panel_shift, panel_latch>>
hub_vars == <<control_vars, pixel_vars>>

Plane(pixel, bit) == [pixel |-> pixel, bit |-> bit]
Dark == Plane(Pixel(NoRow, Place(0)), 0)

HubInit ==
  /\ ControlInit
  /\ row_buffers = [b \in {0, 1} |-> EmptyBuffer]
  /\ dat_r = [o \in Output |-> Pixel(NoRow, Place(0))]
  /\ outputs_buffer = [o \in Output |-> [h \in Half |-> Dark]]
  /\ pins = outputs_buffer
  /\ panel_shift = [o \in Output |-> [k \in 1..Pairs |-> pins[o]]]
  /\ panel_latch = panel_shift

(* The reader writes into the buffer that is not shifted out, in the order *)
(* of arrival: the place is the number of pixels written so far.           *)
BufferWrite ==
  row_buffers' =
    IF fetched' = fetched + 1
      THEN [row_buffers EXCEPT
             ![1 - shifting_buffer][OutputOf(fetched)][BufferAddress(NumberIn(fetched))] =
               Pixel(FetchRow, Place(NumberIn(last_fetched')))]
      ELSE row_buffers

(* All outputs read at the column counter.  The read ports of the buffer   *)
(* that is not shifted out are left at address 0, which is what a swap     *)
(* finds on them.                                                          *)
BufferRead ==
  LET a == IF shifting_buffer' = shifting_buffer
             THEN column_counter % OutputPixels ELSE 0
  IN  dat_r' = [o \in Output |-> row_buffers[shifting_buffer'][o][a]]

\* Mutant: the pins follow between the two pixels of a pair.
OutputTickUnpaired ==
  /\ outputs_buffer' = [o \in Output |->
       [outputs_buffer[o] EXCEPT ![BufferSelect] = Plane(dat_r[o], brightness_bit)]]
  /\ pins' = IF BufferSelect = 1 THEN outputs_buffer ELSE pins

(* One pixel of a pair is taken per clock, the pins follow a pair at once. *)
OutputTick ==
  /\ outputs_buffer' = [o \in Output |->
       [outputs_buffer[o] EXCEPT ![BufferSelect] = Plane(dat_r[o], brightness_bit)]]
  /\ pins' = IF BufferSelect = 0 THEN outputs_buffer ELSE pins

PanelTick ==
  /\ panel_shift' = IF RisingEdge
       THEN [o \in Output |-> Append(Tail(panel_shift[o]), pins[o])]
       ELSE panel_shift
  /\ panel_latch' = IF Lat THEN panel_shift ELSE panel_latch

HubTick ==
  /\ ControlTick
  /\ BufferWrite
  /\ BufferRead
  /\ OutputTick
  /\ PanelTick

HubSpec == HubInit /\ [][HubTick]_hub_vars

(***************************************************************************)
(* Properties.                                                             *)
(***************************************************************************)

(* Position k of a chain, counted from the far end, half h, and the number *)
(* of its pixel in a row of the output.                                    *)
WantedPlace(k, h) == [panel |-> (k - 1) \div Columns, half |-> h, column |-> (k - 1) % Columns]
NumberOf(k, h) == ((k - 1) \div Columns) * (2 * Columns) + (h * Columns + ((k - 1) % Columns))

(* Where that pixel is in a row of all outputs. *)
Slot(o, k, h) == o * OutputPixels + NumberOf(k, h)

(* The last pixels of a row may be lost.  Their places keep what they had, *)
(* or get a pixel from further behind.                                     *)
MayBeLost(o, k, h) == Slot(o, k, h) >= Pixels - TailLoss
PlaceRight(pixel, o, k, h) ==
  \/ pixel.place = WantedPlace(k, h)
  \/ /\ MayBeLost(o, k, h)
     /\ \E n \in Slot(o, k, h)..(Pixels - 1) : pixel.place = Place(NumberIn(n))

(* The rows before the first one that is read are empty.                   *)
ReadOrEmpty(pixel, row) == pixel.row = row \/ (pixel.row = NoRow /\ row \in {0, 1})

PlaneRight(plane, row, bit, o, k, h) ==
  /\ plane.bit = bit
  /\ PlaceRight(plane.pixel, o, k, h)
  /\ ReadOrEmpty(plane.pixel, row) \/ MayBeLost(o, k, h)

(* While the LEDs are on, every LED shows its own pixel: the one of the    *)
(* row on the row pins, at its place, with the bit whose time is running.  *)
(* The exceptions are the rows shown before the first read row is swapped  *)
(* in, which are empty, and the pixels at the end of a read: if one is     *)
(* lost, its LED may show a row read earlier, or the pixel behind it.      *)
LitPixelsRight ==
  ~Oe => \A o \in Output, k \in 1..Pairs, h \in Half :
    PlaneRight(panel_latch[o][k][h], row_active, ShownBit, o, k, h)

(* The colour pins change only as clk falls or is low: they are stable for *)
(* a clock before and a clock after each rising edge.                      *)
PinsStable == [][pins' # pins => clk' = 0]_hub_vars

(***************************************************************************)
(* The invariant they follow from.                                         *)
(***************************************************************************)

Tag == [row : {NoRow} \cup (0..(RowCount - 1)), place : {Place(n) : n \in Address}]
Pair == [Half -> [pixel : Tag, bit : 0..TopBit]]
HubTypeOK ==
  /\ row_buffers \in [{0, 1} -> [Output -> [Address -> Tag]]]
  /\ dat_r \in [Output -> Tag]
  /\ outputs_buffer \in [Output -> Pair] /\ pins \in [Output -> Pair]
  /\ panel_shift \in [Output -> [1..Pairs -> Pair]]
  /\ panel_latch \in [Output -> [1..Pairs -> Pair]]

(* Where the two pixels of pair k are in a row buffer.                     *)
AddressOf(k, h) == 2 * (k - 1) + h

(* From the swap until the latch of the last plane the buffer that was     *)
(* shifted out is the reader's again.                                      *)
Swapped == brightness_bit = 0 /\ RowIdle /\ frame_fsm # "RST"
ShiftedRow == IF Swapped THEN FetchRow ELSE row_shifting

(* Each buffer has each place where it belongs, the one that is shifted    *)
(* out has the row of the planes to come, and the other one so much of the *)
(* next row as the reader says.                                            *)
BuffersInv ==
  \A o \in Output, k \in 1..Pairs, h \in Half :
    LET a == AddressOf(k, h)
        shown == row_buffers[shifting_buffer][o][a]
        next == row_buffers[1 - shifting_buffer][o][a]
    IN  /\ PlaceRight(shown, o, k, h) /\ PlaceRight(next, o, k, h)
        /\ ReadOrEmpty(shown, ShiftedRow) \/ MayBeLost(o, k, h)
        /\ brightness_bit # TopBit /\ ~Swapped /\ Slot(o, k, h) < fetched =>
             ReadOrEmpty(next, FetchRow)

(* A pair on its way: from the read port, through the output registers to  *)
(* the pins, at the clocks the column counter gives.                       *)
OutputsInv ==
  /\ \A o \in Output : dat_r[o] = row_buffers[shifting_buffer][o][buffer_counter % OutputPixels]
  /\ row_fsm = "SHIFT_OUT" /\ shifting =>
       \A o \in Output, k \in 1..Pairs, h \in Half :
         /\ AddressOf(k, h) \in {buffer_counter - 2, buffer_counter - 1} =>
              PlaneRight(outputs_buffer[o][h], row_shifting, brightness_bit, o, k, h)
         /\ buffer_counter = 2 * k + 1 =>
              PlaneRight(pins[o][h], row_shifting, brightness_bit, o, k, h)

(* Of the plane that is shifted the chains have as many pairs as there     *)
(* were edges, of the plane before all.                                    *)
PanelsInv ==
  \A o \in Output, k \in 1..Pairs, h \in Half :
    /\ k <= edges =>
         PlaneRight(panel_shift[o][k + (Pairs - edges)][h], row_shifting, brightness_bit, o, k, h)
    /\ frame_fsm = "WAIT" /\ brightness_counter > 0 =>
         PlaneRight(panel_latch[o][k][h], row_active, ShownBit, o, k, h)

HubInv == ControlInv /\ HubTypeOK /\ BuffersInv /\ OutputsInv /\ PanelsInv
=============================================================================
