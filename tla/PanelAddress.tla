------------------------------ MODULE PanelAddress ------------------------------
(***************************************************************************)
(* Where in the image a pixel of a panel is (class RamAddressGenerator of  *)
(* hub75.py): the pipeline of module RamAddressGenerator with the panel    *)
(* registers it looks up and the addresses it computes.  A register gives  *)
(* the position of a panel on the image, in units of its height, and how   *)
(* often it is turned clockwise by 90 degrees.                             *)
(*                                                                         *)
(* The registers of address and offsets are wide enough for 64 columns and *)
(* 32 lines (6 bits) and for every position and width (32 bits).           *)
(***************************************************************************)
EXTENDS RamAddressGenerator

CONSTANTS
  PanelConfig,  (* What the CPU writes to a panel's register: positions    *)
                (* of 8 bits, rotation of 2.                               *)
  Widths,       (* Widths of the image it writes: 16 bits.                 *)
  sdram_offset, (* The word of the memory where the image starts: 524288.  *)
  MemoryWords   (* Words of the memory behind the port: 1048576.           *)

ASSUME AddressAssumption ==
  /\ RowCount \in Nat \ {0}
  /\ PanelConfig \subseteq [x : Nat, y : Nat, rot : 0..3]
  /\ Widths \subseteq Nat
  /\ sdram_offset \in Nat
  /\ MemoryWords \in Nat \ {0}

VARIABLES
  panel_config,     (* The registers of the panels.                        *)
  image_width,      (* The field "width" of the CSR ctrl.                  *)
  cur_panel_config, (* The register looked up for counter_previous.        *)
  address,          (* The value of adr, which tags it.                    *)
  rewritten         (* History: the CPU has written a register since the   *)
                    (* last start.                                         *)

config_vars == <<panel_config, image_width>>
address_vars == <<generator_vars, config_vars, cur_panel_config, address, row, rewritten>>

Panel == 0..(Outputs * Chain - 1)
Lines == 2 * RowCount   \* of a panel; also the unit of its position
NoConfig == [x |-> 0, y |-> 0, rot |-> 0]
Led == [column : 0..(Columns - 1), line : 0..(Lines - 1)]

PanelOf(number) == number \div (2 * Columns)
LedOf(number, r) == [column |-> number % Columns,
                     line   |-> ((number \div Columns) % 2) * RowCount + r]

\* Mutant: the third turn mirrors the panel.
OffsetMirrored(rot, led) ==
  CASE rot = 0 -> [x |-> led.column, y |-> led.line]
    [] rot = 1 -> [x |-> Lines - 1 - led.line, y |-> led.column]
    [] rot = 2 -> [x |-> Columns - 1 - led.column, y |-> Lines - 1 - led.line]
    [] rot = 3 -> [x |-> led.line, y |-> led.column]

\* Mutant: the axes of a panel that is turned once start at one.
OffsetOne(rot, led) ==
  CASE rot = 0 -> [x |-> led.column, y |-> led.line]
    [] rot = 1 -> [x |-> Lines - led.line, y |-> led.column]
    [] rot = 2 -> [x |-> Columns - 1 - led.column, y |-> Lines - 1 - led.line]
    [] rot = 3 -> [x |-> led.line, y |-> Columns - 1 - led.column]

(* The pixel of an LED, from the corner of its panel on the image. *)
Offset(rot, led) ==
  CASE rot = 0 -> [x |-> led.column, y |-> led.line]
    [] rot = 1 -> [x |-> Lines - 1 - led.line, y |-> led.column]
    [] rot = 2 -> [x |-> Columns - 1 - led.column, y |-> Lines - 1 - led.line]
    [] rot = 3 -> [x |-> led.line, y |-> Columns - 1 - led.column]

AddressOf(config, width, led) ==
  LET offset == Offset(config.rot, led)
  IN  sdram_offset + (offset.y + config.y * Lines) * width + offset.x + config.x * Lines

(* The port of the memory takes no more bits than its words need.          *)
PortAddress(adr_value) == adr_value % MemoryWords

AddressInit ==
  /\ GeneratorInit
  /\ panel_config \in [Panel -> PanelConfig]
  /\ image_width \in Widths
  /\ cur_panel_config = NoConfig
  /\ address = 0
  /\ row \in 0..(RowCount - 1)
  /\ rewritten = FALSE

LookUpConfig(move) ==
  cur_panel_config' = IF move THEN panel_config[PanelOf(address_counter)]
                              ELSE cur_panel_config

Compute(move) ==
  address' = IF move THEN AddressOf(cur_panel_config, image_width, LedOf(counter_previous, row))
                     ELSE address

(* The CPU writes one register, or none. *)
WriteConfig ==
  \/ UNCHANGED config_vars
  \/ image_width' \in Widths /\ UNCHANGED panel_config
  \/ /\ \E p \in Panel, c \in PanelConfig : panel_config' = [panel_config EXCEPT ![p] = c]
     /\ UNCHANGED image_width

(* The row controller changes the row between two reads. *)
ChangeRow(start) ==
  \/ UNCHANGED row
  \/ ~started /\ ~start /\ row' \in 0..(RowCount - 1)

AddressTick ==
  \E start \in {FALSE, ~started}, enable \in BOOLEAN :
    /\ GeneratorTick(start, enable)
    /\ LookUpConfig(Move(enable))
    /\ Compute(Move(enable))
    /\ WriteConfig
    /\ ChangeRow(start)
    /\ rewritten' = (config_vars' # config_vars \/ (rewritten /\ ~start))

AddressSpec == AddressInit /\ [][AddressTick]_address_vars

AddressTypeOK ==
  /\ panel_config \in [Panel -> PanelConfig]
  /\ image_width \in Widths
  /\ cur_panel_config \in PanelConfig \cup {NoConfig}
  /\ address \in Nat
  /\ row \in 0..(RowCount - 1)
  /\ rewritten \in BOOLEAN
  /\ address_counter \in 0..(RowPixels - 1)
  /\ counter_previous \in 0..(RowPixels - 1)
  /\ adr \in {NoPixel} \cup [number : 0..(RowPixels - 1), row : 0..(RowCount - 1)]
  /\ started \in BOOLEAN /\ config_lookup_valid \in BOOLEAN /\ adr_valid \in BOOLEAN

(***************************************************************************)
(* Properties.                                                             *)
(***************************************************************************)

(* A point of a rectangle, and what becomes of it when the rectangle is    *)
(* turned clockwise by 90 degrees.                                         *)
TurnOnce(p) == [x |-> p.height - 1 - p.y, y |-> p.x, width |-> p.height, height |-> p.width]

Turned(rot, p) ==
  CASE rot = 0 -> p
    [] rot = 1 -> TurnOnce(p)
    [] rot = 2 -> TurnOnce(TurnOnce(p))
    [] rot = 3 -> TurnOnce(TurnOnce(TurnOnce(p)))

OnPanel(led) == [x |-> led.column, y |-> led.line, width |-> Columns, height |-> Lines]

ImageAddress(config, led) ==
  LET p == Turned(config.rot, OnPanel(led))
  IN  sdram_offset + (config.y * Lines + p.y) * image_width + config.x * Lines + p.x

(* The address that leaves the pipeline is the one of its own pixel: on    *)
(* the panel that pixel is on, turned as that panel is.  Registers that    *)
(* are written in the middle of a row take effect in the middle of it.     *)
AddressRight ==
  adr_valid /\ ~rewritten =>
    address = ImageAddress(panel_config[PanelOf(adr.number)], LedOf(adr.number, adr.row))

(* What AddressRight rests on: the pipeline is empty between two reads, so *)
(* that a read sees only registers that were there at its start or written *)
(* since, and the register looked up belongs to the pixel behind it.       *)
PipelineInv ==
  /\ ~started => ~config_lookup_valid /\ ~adr_valid
  /\ address_counter # 0 => started /\ config_lookup_valid
  /\ config_lookup_valid /\ ~rewritten =>
       cur_panel_config = panel_config[PanelOf(counter_previous)]

(* The inductive invariant. *)
AddressInv == AddressTypeOK /\ PipelineInv /\ AddressRight

(* The rectangle of a panel on the image. *)
WidthOf(config) == IF config.rot \in {0, 2} THEN Columns ELSE Lines
HeightOf(config) == IF config.rot \in {0, 2} THEN Lines ELSE Columns

Inside(config) == config.x * Lines + WidthOf(config) <= image_width
InMemory(config) ==
  sdram_offset + (config.y * Lines + HeightOf(config)) * image_width <= MemoryWords

Apart(c, d) ==
  \/ c.x * Lines + WidthOf(c) <= d.x * Lines
  \/ d.x * Lines + WidthOf(d) <= c.x * Lines
  \/ c.y * Lines + HeightOf(c) <= d.y * Lines
  \/ d.y * Lines + HeightOf(d) <= c.y * Lines

(* No two LEDs of panels that are laid out side by side on the image, in   *)
(* lines that end within the memory, show the same word of the memory, and *)
(* no two of one panel.  Beyond its end the addresses start over.          *)
LedsApart ==
  \A p, q \in Panel :
    /\ \A c \in {panel_config[p], panel_config[q]} : Inside(c) /\ InMemory(c)
    /\ p = q \/ Apart(panel_config[p], panel_config[q])
    => \A a, b \in Led :
         PortAddress(AddressOf(panel_config[p], image_width, a)) =
           PortAddress(AddressOf(panel_config[q], image_width, b))
         => p = q /\ a = b
=============================================================================
