# A verified model of the HUB75 display controller

This directory holds TLA+ models of the repository's FPGA design and firmware
for a Colorlight 5A-75 LED receiver card, TLC runs that check them on small
instances, and TLAPS proofs of the results that do not depend on the size of
the instance: those of the panel driver up to what the LEDs show, of its buffer reader, of
the Ethernet and Art-Net hardware, and of the firmware's Ethernet driver, image file and
terminals.

## The system

The board receives pixels over Ethernet and shows them on up to 32 panels.

| Part | Source | State | Operations | Talks to |
|---|---|---|---|---|
| Frame controller | `hub75.py` 65-116 | FSM RST/WAIT/LATCH, `counter`, `brightness_bit`, `brightness_counter`, `row_active`, `row_shifting` | one step per clock | starts the row controller (`start_shifting`), waits for `shifting_done`; drives `lat`, `oe` and the row pins |
| Row controller | `hub75.py` 119-188 | FSM IDLE/WAIT_TILL_START/SHIFT_OUT, `shifting_buffer` | one step per clock | starts the row module for every plane and the reader for every row; swaps the row buffers |
| Row module | `hub75.py` 401-434 | `column_counter`, `buffer_counter`, `shifting`, `clk` | shift out 256 pixel pairs | shift clock of the panels, addresses of the read ports |
| Outputs | `hub75.py` 437-483 | `outputs_buffer`, the pins | pick a bit of the colour, pair the two halves | read ports of the row buffers, panels |
| Buffer reader | `hub75.py` 191-314 | reservations, palette and gamma stages, write ports, `buffer_counter`, `done` | read a row from SDRAM into a row buffer | DMA reader, row buffers; held off by `prevent_read` of the Art-Net receiver |
| RAM address generator | `hub75.py` 317-398 | `counter`, `started`, two pipeline stages | one address per pixel | panel registers, DMA reader |
| Art-Net receiver | `artnet2ram.py` | FSM, 4-to-3 byte converter, FIFO of pixels to SDRAM | copy the pixels of a universe to its place in the image | UDP stream, SDRAM writer, `prevent_read` |
| Ethernet hardware path | `smoleth.py` | splitter, invalidator, MAC, IP and UDP FSMs | send each packet to the CPU or to the Art-Net receiver | LiteEth core |
| Art-Net queue | `artnet2ram.py` 129-156 | level of the FIFO to the SDRAM writer | take a pixel or drop it, hand one to the memory | receiver; holds the buffer reader off |
| Ethernet driver | `ethernet.rs`, start of `main.rs` | `SLOT`, `TX_BUFFER`, where it is | receive, transmit, set the MAC address | smoltcp, LiteEth MAC |
| Image flash | `img_flash.rs`, `img.rs` | bytes taken, index of the last one, the page | save, load | SPI flash, image memory |
| Display registers and commands | `hub75.rs`, `menu.rs`, `artnet.rs`, `img.rs`, `pac.rs` | CSRs, length of the image, palette, image memory | the commands of the menu, palette packets, start | gateware, flash |
| Main loop and terminals | `main.rs`, `menu.rs` `Output`, `panic.rs` | TCP socket, `out_data`, `telnet_active`, UART | poll, listen, feed the menu, send; panic | smoltcp, UART, menu |

What is hard to get right, and why a test hardly finds it:

* Four state machines (frame controller, row controller, row module, reader)
  start each other and wait for each other. Start is a pulse of a single clock,
  done is a level, and nobody registers its operands. The time a plane is lit,
  the time a shift takes, the answers of the memory and the enable bit written by
  the CPU meet in every order.
* The row pins, the latched plane and the plane being shifted are three
  different things at any time. They match only because of an order that no
  line of code states.
* Data, address, clock and pins are delayed by a different number of registers.
* The reader's pipeline cannot be stopped and finds the end of a row by
  running empty; the memory may stall it at any clock.
* Packets are consumed twice (CPU and hardware), invalidated late, and may have
  any length; the converter and the FIFO keep state between packets.
* A save to flash can be interrupted at any page, and the network draws meanwhile.
  Pages and sectors are derived from the index of the last byte of a page.
* The MAC and the firmware never tell each other which slot they use: both count.
  The driver is entered again by the stack's answer before the slot it answers to
  is free.
* Any command may be typed at any time and with any argument, what it leaves in the
  registers is used by others, and a panic restarts into the saved image.
* Two terminals share one output buffer; a client may stop, half close or reset
  between any two turns of the loop.

The property that makes each part correct: the panel driver shows binary code
modulation, with every pixel on its own LED; the reader writes the requested row
and nothing else; an address stays inside its panel; the Art-Net path writes each
pixel of an accepted universe to its place and nothing of a rejected one; a
splitter hands each word on exactly once; an image that was loaded is one that was
saved; a frame is received and sent once and whole; a command changes what its name
says and nothing else; a client reads the text of its own session, in order.
`PROJECT.json` lists every part, the unmodelled ones too, and the hazards at their
lines.

## Modules

| Module | Models | Correspondence |
|---|---|---|
| `FrameController` | class `FrameController` | variables are its registers; `StartShifting`, `Lat`, `Oe` are its combinational outputs; `FrameReset` ... `FrameEndLatch` are the branches of its FSM |
| `RowModule` | class `RowModule` | `ShiftClock` is the part of every clock, the other actions the branches on `column_counter` |
| `RowFetch` | abstract | what the row controller needs from the reader: when it is done, and which pixel went to which place |
| `RowController` | class `RowController`, and the reader by `RowFetch` | composes the three: `ControlTick` is a clock of all of them |
| `DisplaySchedule` | abstract | what somebody who looks at the panel is promised, clock by clock while LEDs are lit |
| `RowBuffers` | the places of pixels in row buffers | constants and pure operators |
| `Hub75` | `RowController` with row buffers, `Output`, `RowColorOutput` and external panels | `HubTick` adds the data to `ControlTick` |
| `Hub75Proofs` | | the theorems about `RowController` and `Hub75` |
| `RamAddressGenerator` | class `RamAddressGenerator` | the pipeline, with addresses as tags |
| `BufferReader` | class `RamToBufferReader` | `ReaderClock` is a clock with the inputs it finds, `ReaderTick` one with any; `Dma` and `Client` are its surroundings |
| `PanelAddress` | the generator with registers and addresses | extends `RamAddressGenerator`; `LookUpConfig` and `Compute` are the two pipeline stages, `WriteConfig` a write of the CPU |
| `RowReadProofs` | | the theorems about `BufferReader` and `PanelAddress` |
| `ArtnetReceiver` | classes `ArtnetReceiver` and `RawDataStreamToColorStream` | `Idle`, `WaitTillDone`, `CopyToRam` are the states of the FSM; the converter's four states are `conv_fsm` |
| `ArtnetQueue` | class `Artnet2RAM` | adds the level of the queue and `fifo_backlog` to the receiver, clock by clock; the memory takes a pixel or not |
| `ArtnetProofs` | | the theorems about `ArtnetReceiver` and `ArtnetQueue` |
| `EthernetPath` | classes `SmolEthStreamSplitter`, `SmolEthInvalidator`, `SmolEthMACFilter`, `SmolEthIP`, `SmolEthUDP`, and their wiring | `PathStep` is a clock of all; `filter_fsm` has the states of the three filters, `artnet_fsm` that of the receiver without its pixels |
| `EthernetPathProofs` | | the theorems about `EthernetPath` |
| `ImageStore` | abstract | what saving and loading promise, with power loss and drawing |
| `ImageFlash` | `write_image`, `load_image`, `Flash` | `FillPage`, `Erase` and `ProgramPage` are the parts of a turn of the loop of `Flash::write_image` between which power may fail; a page is the save, its number and the picture it was taken from |
| `ImageFlashProofs` | | the theorems about `ImageFlash` |
| `Registers` | how a field is read and written (`pac.rs`) | pure operators |
| `DisplaySettings` | abstract | the settings by their names: what each command does to them |
| `Display` | `hub75.rs`, the commands of `menu.rs`, `img.rs`, `artnet.rs`, start of `main.rs` | one action per command or packet, with the names of the code; settings are fields of register words and words of the image file |
| `DisplayProofs` | | the theorems about `Registers` and `Display` |
| `EthernetLink` | abstract | two queues of frames, and a restart that loses them |
| `EthernetDriver` | `ethernet.rs` | an action of the CPU is what lies between two accesses to the MAC; the MAC fills and sends slots byte by byte |
| `EthernetDriverProofs` | | the theorems about `EthernetDriver` |
| `Console` | `main.rs`, `Output` of `menu.rs`, `panic.rs` | an action per part of the loop, `Network` actions inside of `poll` only, the UART at any time |
| `ConsoleProofs` | | the theorems about `Console` |
| `MC...` | | instances for TLC, with `RowController`, `Hub75`, `PanelAddress`, `BufferReader`, `ArtnetQueue`, `EthernetPath`, `ImageFlash`, `Display`, `EthernetDriver` and `Console` |

A step is a rising edge of the system clock: all registers change at once, each
module's tick is a conjunct, and combinational signals are operators on the
state before the step. A later assignment to a register overrides an earlier
one, and the statements of an FSM come after the synchronous block, as
migen emits them. The enable bit is written by the CPU at any clock.

A pixel is a tag, the row and place it was read for, since nothing in the driver
depends on a colour. On the pins the tag also carries the plane number, so that
"the right bit of the right pixel" can be said. The place a pixel is written to is
the number of pixels that arrived before it (hub75.py 304-308), whichever they were:
when the end of a read loses the last but one address and not the last, the last
pixel is written to the place before its own. `last_fetched`, in `RowFetch` and as a
history variable in `BufferReader`, is the number of the pixel that arrived last.

The schedule has no clock of its own: `lit_clocks`, a history variable of
`RowController`, counts the clocks in which the output enable of the panels is on,
whatever `brightness_counter` does, and `DisplaySchedule` asks that each plane is
replaced when it is its weight. A clock with light is a step of the schedule
and never a stutter.

Addresses are numbers without a width up to the port of the memory, which takes
as many bits as its words need (`PortAddress`); the registers on the way are wider.

Panels (a shift
register and a latch per chain) and the DMA reader (a queue that takes an address
and returns data when it likes, in order) are external and marked so.

On the Ethernet side a word is the packet it belongs to and its number, a byte
is the packet and its index. The depacketizers of LiteEth are external: they
take the words of a header, and because the MAC and the Art-Net header end in the
middle of a word, the rest of a packet's last word may come out as a word behind
it. A packet that names the Art-Net port but ends within the Art-Net header is not
among the inputs: what becomes of it is decided inside LiteEth.

In the firmware nothing interrupts the CPU, so a command is a single step of
`Display`, and a step of `EthernetDriver` goes from one access of the MAC to the next.
What runs beside it, the MAC, the UART, the Art-Net hardware that draws into the
image memory, takes its steps between them. The chip of the flash is external: an
erase clears a sector, programming a page that is not erased leaves garbage, and
power lost in either leaves garbage or nothing done. `Display` reads and writes
the file in one step; it keeps to images that fit, or are longer than
the memory and panic, and `ImageFlash` has those that fill the area of the flash. A
number that is typed is a value or one word for all that does not parse.

## Runs

| Run | What it shows | Bounds, and why they are enough |
|---|---|---|
| `control` | The handshakes of the panel driver (`LatchQuiet`, `NoLostStart`, `OperandsStable`), no light while the panel changes (`DarkWhenPanelChanges`), that the driver implements `DisplaySchedule`, each plane lit for its weight and no clock more, and `EveryRowShown`: the four state machines never all wait | 3 planes (first, middle and top differ), 4 rows, 4 pairs, prescaler 2: the shortest plane is shorter than a shift and the longest is longer, so light and shift end in either order |
| `hub75` | With the pixels: `LitPixelsRight`, `PinsStable` | 2 outputs with 2 panels of 2 columns, both halves: every part of a place differs between pixels; 4 rows and 2 buffers, so a stale buffer holds another row; `TailLoss` is 2, so the last pixel arrives in its place, in the place before it, or never |
| `address` | `AddressRight` and `LedsApart` while the CPU writes registers at any clock and the memory stalls | panels of 2 by 4 LEDs, which are not square, in all four rotations, next to and above each other and overlapping; two image widths. The memory has 56 words and ends behind the lower panel at the smaller width and within it at the larger one, where its addresses come back to those of the upper one |
| `reader` | The pipeline against a memory that takes addresses and returns words as it likes: `SourceNeverHeld`, `ReservationsExact`, `RowWritten`, `ShownBufferUntouched`, that it implements `RowFetch`, `EveryReadEnds` | 2 outputs of 4 pixels: more pixels than the pipeline has stages; the queue of the DMA reader holds 2, so it is full and empty within a row |
| `reader_tail` | A finding: `WholeRowWritten` is violated | as `reader`, with 2 rows |
| `artnet` | `PixelsInPlace`, `WholePacketCopied`, `HeaderAtStart`, `OnlyAcceptedCopied`, `LossOnlyWhenSlow`, `ReceiverReturns` | universes of 4 pixels; sizes from 1 to 15 bytes go once through all remainders of 12, the period of the converter; 27 bytes wrap the pixel counter. A queue of 8 pixels: the reader is held off from the fifth on, and the memory has 2 clocks before it has to serve the writer |
| `ethernet` | `CpuInOrder`, `CancelledOnlyAccepted`, `AcceptedIsCancelled`, `PacketsPass` | headers of 2, 1, 1 and 2 words and `MinWords` one less than the first word of pixels, as in the design; packets end before, at and behind that word and are refused by every stage |
| `flash` | `ImplementsStore`, `OnlyLargeLeavesArea`, and the invariant they are proved from | 16 pages of 8 bytes, an area of 4 pages or 2 sectors; images end inside a page, with a page, one word before the end of the area, and with its last byte; 2 saves, so the second finds what the first left wherever that was interrupted; the picture changes once |
| `display` | `ImplementsSettings`, `CommandsDone` | 2 outputs with 2 panels; numbers that name a panel, that name none, and that are none; images longer than the memory; palette packets of less and of more than a universe, with and without a part of a colour, in both universes; 3 commands, packets or restarts: one leaves a state, one saves or panics, one shows it |
| `display_rotation` | A finding: `InvalidNumberRefused` is violated | as `display` |
| `driver` | `SlotsApart`, `FilterWhole`, `ImplementsLink`, `QueuesEnd` | slots of 2 bytes, frames that fill one and that do not; 3 frames in either direction, so a slot is used again; 1 restart at any access |
| `console` | `SessionText`, `PanicTold`, `SessionServed` | `out_data` of 5 characters holds the greeting and an answer but not two, the socket's buffers 2, so a greeting is sent in more than one turn; 3 prints, 2 sessions, 1 restart |

No run uses symmetry: rows, planes, words and outputs are ordered. `packet.id`
alternates between 0 and 1 because two packets are at most in the system at a time.
`driver` and `console` stop where their bounds are used up, so they do not look for
deadlock; `QueuesEnd` and `SessionServed` say what would be one.

## Findings

* `reader_tail`: the last two pixels of a row can be lost. `RamAddressGenerator`
  moves its pipeline by force whenever `counter < delay` (hub75.py 338), to fill it
  after a start. At the end of a row the counter has wrapped to 0 while the last
  two addresses are still in the pipeline; if the port of the memory is not ready or
  `prevent_read` is high in those clocks, they are overwritten without having been
  taken. The buffer keeps what it held two rows before in these places, the last
  two pixels of the last output; if only the first of the two addresses is lost, the
  pixel of the second is written to the place of the first. The other properties of the driver are stated with
  this loss (`TailLoss`, `MayBeLost`, `PlaceRight`), and hold.
* `display_rotation`: `set_panel_param` answers "Invalid number given" to each
  argument that is no number but the rotation, which it unwraps (menu.rs 359). The
  firmware panics, the chip is reset, and every setting that was not saved is lost.
* An Art-Net packet of a size of 4, 7 or 8 modulo 12 takes the first word of pixels
  of the next packet with it (`TakesForeignWord`). The README of the repository asks
  for sizes that are multiples of three, where only packets no one sends have that
  size, so this is stated in `HeaderAtStart` as the exception and not as a finding.
* A packet whose first word of pixels is its last word reaches the CPU as a valid
  one although the hardware has shown it: the end of the packet overrides the invalid
  mark (smoleth.py 295-302). The header comment of smoleth.py allows for leftovers;
  `AcceptedIsCancelled` states the exception.
* An image that fills the area of the flash to its last byte is followed by a page of
  zeros that is written behind the end of the chip, which is its beginning
  (`OnlyLargeLeavesArea`). The memory holds as many pixels; the width and length that are
  typed decide.
* Saving keeps neither the indexed mode nor the palette, and loading leaves both as they
  are: `DisplaySettings` states it so.
* A session that a client half closes is closed by the firmware in the next turn that
  finds nothing to read and room in the socket (main.rs 167), whatever is left in
  `out_data`: `SessionText` speaks of sessions that are open.
* The help of the command `on` says "Turn display off" (menu.rs 94). The model has what
  the command does.

## Fairness

* The clock of the panel driver: weak fairness on everything but the enable bit, which
  the CPU may never write. `EveryRowShown` supposes that the display is enabled for
  good and that a row being read makes progress. That second assumption is what
  the reader promises (`EveryReadEnds`).
* The reader: the memory takes an address and returns a word again and again. LiteDRAM
  serves its ports in turn, and `prevent_read` falls as the Art-Net queue, which is
  written through another port, drains.
* The Art-Net receiver: words keep coming. Its output is always ready, the queue drops
  what it has no room for.
* The Ethernet driver: the MAC sends and receives at the speed of the wire (weak), the
  CPU goes on (weak), and `receive` is called again and again although the stack may
  also send frames of its own (strong): smoltcp polls for both in turn.
* The console: the loop turns and the UART sends (weak). A client that is connected
  acknowledges and takes what it is sent whenever it is allowed to again and again
  (strong), because the network runs inside of `poll` only. A client that stops for
  good is not among them; the socket has no timeout (main.rs 78).
* The Ethernet path: again and again there is a clock in which the core has a word, the
  CPU's interface takes it and the converter does too. The interface is always ready
  (the comment at smoleth.py 311), the core keeps a word until it is taken, and the
  converter refuses a word in one clock of four at most.

## Proofs

TLAPS checks every proof to its leaves. The assumptions are the named `ASSUME`s of the
modules, which TLC evaluates in the runs; those about `2 ^ b` in `FrameAssumption`
are arithmetic that the provers do not know of exponentiation. No other facts are
assumed, and no theorem is about liveness.

* `Hub75Proofs`, the control: for all widths, plane, row and pixel counts. The invariant
  `ControlInv` says what the row module does in each state of the row controller
  (`ShiftInv`: the shift clock and the edges so far are a function of the position),
  that the frame controller latches only while the row controller is idle and a plane
  is due only when its time is running (`LatchInv`), that the reader is done where
  its operands change (`FetchInv`), how far the row pins lag behind (`RowInv`), and
  that the clocks a plane was lit and the ones in `brightness_counter` are together its
  weight (`LitInv`).
  None of the properties is inductive alone: that the latch is quiet depends on how
  far the shift is, and that on which start was seen in which state. From `ControlInv`
  follow the safety properties, and `RefinesSchedule`: every clock with
  light is a step of `DisplaySchedule` that counts it (`LitStep`), and the clock in
  which a plane takes its turn comes when the count is the weight of the one before.
* `Hub75Proofs`, the pixels: for all geometries. `HubKeepsControl` says that the data path
  acts upon nothing, so `ControlInv` holds of the whole driver. `BuffersInv` says which row
  each of the two buffers has at each stage of a row, the one that the reader is at only as
  far as it has come, and that each place has its own pixel, or at the end of a row one
  from further behind (`PixelTaken`); `OutputsInv` at which value of the column counter the two halves of a
  pair are at the read port, in the output registers and on the pins; `PanelsInv` that
  the chains hold as many pairs of the plane being shifted as there were edges, and the
  latches the plane being shown. `LitPixels` follows from the last, which is inductive only
  with the others: each stage holds what the one before it held a clock ago, and the swap
  of the buffers falls between the last pair of one row and the first of the next.
* `RowReadProofs`, the addresses: for all sizes, panel registers and image widths.
  `AddressInv` says that the pipeline is empty between two reads, so the row of what
  is in it is the row of the read, and that each stage holds the register of its own
  pixel. `AddressesRight` compares the four cases of the code with the iterated
  quarter turn of a rectangle; `LedsStayApart` says that panels that do not overlap
  read no common word of the memory. It supposes that the panels are inside of the
  lines of the image and that the image ends within the memory: then the port cuts
  nothing off (`PortKeeps`), and what remains is that an image line is as long
  as `image_width`. The registers allow for images that do not fit, and those do alias:
  that is left to whoever sets them.
* `ArtnetProofs`: for packets of all sizes in any order. `ReceiverInv` says that
  the words taken since the header are the bytes of the pixels and the one to three
  bytes left over, in the two cases that the packet is still at the input or its last
  word is taken, and that the counter of places is the number of pixels up to its wrap
  (`CounterFollows`), which is as far as a packet can reach that is longer than its
  length field. The sizes 4, 7 and 8 modulo 12 come out of that equation. For queues of
  all depths `QueueInv` bounds the level by half of the queue, the pixel that passes it,
  and one for every clock the reader has been held off; after `Patience` clocks the
  memory takes one for each that comes. `QueueKeepsReceiver` carries the theorems about
  the receiver over to the receiver with its queue.
* `EthernetPathProofs`: for all headers and packet sizes. `ChainInv` says what the chain
  has of a packet that the splitter has already left; with it, a late verdict is either
  about the packet at the splitter or finds it at its first word, where
  `MinWords` makes the invalidator ignore it. `CancelInv` follows a verdict until
  the packet leaves.
* `ImageFlashProofs`: for pages, sectors and chips of all sizes and images of all
  lengths. `CountInv` says that the index from which page and sector are derived is
  the last byte of the page at hand, also for the page with the rest and for the page
  of zeros; `PagesInv` that the pages before it hold the image, and that those
  behind it in its sector are erased, which is why none is programmed twice.
  `StoreIsImplemented` maps each step, a loss of power too, to a step of
  `ImageStore`; `AreaIsKept` says that bitstream and firmware are out of reach of
  every image that leaves a byte of the area free.

* `RowReadProofs`, the reader: for all geometries, numbers of rows and depths of the DMA
  reader's queue, for rows of more pixels than may be lost (`RowPixels > Delay`, which
  is 4096 against 2). The parts of `ReaderInv` are: `StagesInv` and `DoneInv`, how the
  flags of the pipeline follow each other and that `done` tells that nothing is under
  way; `CountInv`, that the pixels before, in and behind the pipeline are a row,
  but for those dropped by force at its end; `OrderInv`, that they are in
  order and that the last ones are those that were dropped; `WrittenInv`, that the one
  at the write port is the only one not written yet; `PortsInv`, that a port that
  stays enabled writes what is there. The row of the buffer is right only by all of
  them: a write goes to the next place whatever pixel comes, so that pixel has to be
  the next one. That no write undoes an earlier one (`PixelsApart`) is the arithmetic of
  `RowBuffers`: two pixels of an output have two addresses. With
  `ReaderImplementsRowFetch` the theorems about the panel driver, which are
  about `RowFetch`, are theorems about this reader, and about the pixels it puts in their
  places: `NextIsBehind` says that the pixel that arrives is the one whose turn it is, and
  among the last `Delay` places one from there on.

* `EthernetDriverProofs`: for bytes, frames and slots of all sizes, any number of frames
  and a restart at any access. `DriverInv` says that the slots in each queue alternate
  and where the next one is (`SlotsInv`), which is all that the driver's `SLOT` and the
  counters of the MAC have in common; that a frame on its way in, out or to its slot is,
  as far as it has come, the one in the slot (`FramesInv`); and that the frame the driver
  is at is the first of its queue until the event is cleared (`AnswerInv`). None of them
  keeps without the others: a byte written to a slot changes no frame of the queue
  only because the slots are apart. `Step` maps each access to a step of `EthernetLink` or to
  a stutter, from which `LinkIsImplemented` follows.

* `ConsoleProofs`: for buffers, sessions, prints and restarts without bound, and any
  client. `PanicInv` gives each byte in the UART and each one yet to be written its place in
  the panic's message; the places before the first are bytes from before the panic.
  When nothing is left to write, the place of the next byte to leave is behind the message
  because the UART holds no more than the text written after it, which is `PanicIsTold`.
  `SessionTextHolds` needs that a session main has not seen yet has been sent nothing, so
  the greeting is its first text, although the buffer still held that of the session before;
  that a session that is reset and begun again within one `poll`, behind main's back, has
  been sent nothing either (`SessionInv`); and that a print is newer than all that
  was printed (`PrintsInv`). What the network takes and what `out_data` hands on
  moves a border within the text and does not change it (`BorderStep`, `BorderMoves`).

* `DisplayProofs`: for all numbers of outputs and panels, all widths of fields, sizes of
  memory, palette and images, and any number of commands, packets and restarts. The first
  lemmas are about `Registers`: a field that is written is read back, the others of
  its register are what they were, and a register is no more than its fields. They need
  that the value fits its field, and that the register has no bits beside them,
  which is what `DisplayInv` says of every register, and of every word of the file as
  long as there is one: a file that is loaded writes registers as they are, so without it
  a load could set bits that no command sets. `StepMaps` maps each command, and each
  panic in the middle of one, to a step of `DisplaySettings`, from which
  `SettingsAreImplemented` follows; `EachDone` that it is the step of its name,
  which is `CommandsAreDone`. It also says of the palette that only a part of a colour
  within the palette makes it panic (`WholeColours`): the number of chunks is that of
  whole colours, or one more behind the last that is looked at.

`AddressInv`, `ReceiverInv`, `ReaderInv`, `DriverInv`, `HubInv`, `ConsoleInv` and
`DisplayInv` are stated by theorems only: the properties that follow from them are what
the runs check.

Model-checked only: the liveness properties of all modules, which are out of the
prover's reach. `InvalidNumberRefused` and `WholeRowWritten` are the two findings, which are
refuted.

## Not modelled, and the plan

Left to do, in this order:

* The reader composed with the Art-Net queue: `prevent_read` is any signal that falls
  again in `BufferReader`, and the memory any that keeps to `Patience` in
  `ArtnetQueue`; together they need a model of the memory that serves both.

Left out: palette and gamma tables of the gateware (they map colours, which are tags
here); the transfers of the SPI bus and the timer (`hal.rs`), which are single steps of
`ImageFlash`; the MAC address hash, which has no state, and `ip_mac` and the help, which
only print; the `Runner` of the menu crate, which is external to `Console`; the SoC's
wiring where nothing but LiteX cores is connected and the simulation top; the generated
accessors of registers that the firmware does not use; and the host's scripts.
