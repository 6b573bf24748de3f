------------------------------ MODULE BufferReader ------------------------------
(***************************************************************************)
(* The buffer reader (class RamToBufferReader of hub75.py): it sends the   *)
(* addresses of a row to a DMA reader and takes what comes back through    *)
(* the palette and the gamma table into the row buffer of the next row.    *)
(* Nothing in that pipeline can be held up, and the end of a row is found  *)
(* by its running empty.                                                   *)
(*                                                                         *)
(* The DMA reader (LiteDRAMDMAReader) is external: it takes an address     *)
(* when it likes and has room, and returns the data in order, a clock or   *)
(* more later; data stays until it is taken.  The row controller is taken  *)
(* by what it does with the reader: it swaps the buffers once done is      *)
(* high, goes to the next row and starts the reader after that.            *)
(***************************************************************************)
EXTENDS RamAddressGenerator, Sequences

CONSTANT FifoDepth   \* words the DMA reader keeps in flight: 16

ASSUME ReaderAssumption ==
  RowCount \in Nat \ {0} /\ FifoDepth \in Nat \ {0} /\ RowPixels > Delay

VARIABLES
  in_flight,          (* External: pixels asked for and not yet taken.     *)
  returned,           (* External: how many of them are at the output.     *)
  rsv_level,          (* The reader's own count of the pixels in flight.   *)
  source_ready,       (* The register that takes data from the DMA reader. *)
  palette_data, palette_data_valid, palette_data_done,
  gamma_data, gamma_data_valid, gamma_data_done,
  buffer_done,        (* gamma_data_done one clock ago.                    *)
  buffer_counter,     (* The place in the row buffer of the next pixel.    *)
  done,               (* The row has been written.                         *)
  ports,              (* The write ports: [we, adr, dat_w] of each memory. *)
  memory,             (* The two row buffers.                              *)
  shifting_buffer,    (* The row controller's buffer, not the reader's.    *)
  swapped,            (* It has swapped since the reader was done.         *)
  fetched,            (* History: pixels written since the last start.     *)
  last_fetched        (* History: the number of the last one of them, -1   *)
                      (* if there is none, or if it is not of the row or   *)
                      (* not at the place that its arrival counts.         *)

data_vars == <<palette_data, palette_data_valid, palette_data_done,
               gamma_data, gamma_data_valid, gamma_data_done>>
writer_vars == <<buffer_done, buffer_counter, done, ports, memory>>
dma_vars == <<in_flight, returned, rsv_level, source_ready>>
client_vars == <<row, shifting_buffer, swapped, fetched, last_fetched>>
reader_vars == <<generator_vars, dma_vars, data_vars, writer_vars, client_vars>>

\* Mutant: the reader writes the buffer that is shifted out.
BufferShown == shifting_buffer

Buffer == 1 - shifting_buffer   \* the buffer the write ports are selected from
SourceValid == returned > 0
SourceTaken == SourceValid /\ source_ready
\* Mutant: pixels in flight are forgotten.
EmptyUnreserved == ~started

Empty == ~started /\ rsv_level = 0
RamDone == Empty /\ ~SourceValid

ReaderInit ==
  /\ GeneratorInit
  /\ in_flight = <<>> /\ returned = 0 /\ rsv_level = 0 /\ source_ready = FALSE
  /\ palette_data = NoPixel /\ gamma_data = NoPixel
  /\ palette_data_valid = FALSE /\ palette_data_done = FALSE
  /\ gamma_data_valid = FALSE /\ gamma_data_done = FALSE
  /\ buffer_done = FALSE /\ buffer_counter = 0 /\ done = FALSE
  /\ ports = [b \in {0, 1} |-> [o \in Output |->
               [we |-> FALSE, adr |-> 0, dat_w |-> NoPixel]]]
  /\ memory = [b \in {0, 1} |-> EmptyBuffer]
  /\ row = 1 % RowCount /\ shifting_buffer = 0 /\ swapped = FALSE
  /\ fetched = RowPixels /\ last_fetched = RowPixels - 1

(* An address is sent, and data leaves, in the same clock or not; both     *)
(* queues and the count move together.                                     *)
Dma(sent) ==
  LET left == IF SourceTaken THEN Tail(in_flight) ELSE in_flight
      at_output == IF SourceTaken THEN returned - 1 ELSE returned
  IN  /\ in_flight' = IF sent THEN Append(left, adr) ELSE left
      /\ returned' \in {at_output} \cup
           (IF at_output < Len(left) THEN {at_output + 1} ELSE {})

\* Mutant: a pixel taken in the clock in which another is asked for is not counted.
CountReservationsApart(sent) ==
  rsv_level' = CASE sent -> rsv_level + 1
                 [] ~sent /\ SourceTaken -> rsv_level - 1
                 [] OTHER -> rsv_level

CountReservations(sent) ==
  rsv_level' = CASE sent /\ ~SourceTaken -> rsv_level + 1
                 [] ~sent /\ SourceTaken -> rsv_level - 1
                 [] OTHER -> rsv_level

\* Mutant: data is waited for only once it is there.
TakeSourceLate == source_ready' = SourceValid

TakeSource == source_ready' = (SourceValid \/ ~Empty)

(* A pixel that is valid is passed on whether or not it is taken. *)
Lookup ==
  /\ palette_data' = IF SourceValid THEN Head(in_flight) ELSE NoPixel
  /\ palette_data_valid' = SourceValid
  /\ palette_data_done' = RamDone
  /\ gamma_data' = palette_data
  /\ gamma_data_valid' = palette_data_valid
  /\ gamma_data_done' = palette_data_done

BufferSelect == OutputOf(buffer_counter)

(* All ports get the pixel, the port of its output also the write enable,  *)
(* which the port before it loses.                                         *)
WritePixel ==
  /\ gamma_data_valid
  /\ ports' = [ports EXCEPT ![Buffer] = [o \in Output |->
       [we |-> CASE o = BufferSelect -> TRUE
                 [] o # BufferSelect /\ o = (BufferSelect - 1) % Outputs -> FALSE
                 [] OTHER -> ports[Buffer][o].we,
        adr |-> BufferAddress(NumberIn(buffer_counter)),
        dat_w |-> gamma_data]]]
  /\ buffer_counter' = (buffer_counter + 1) % RowPixels

RowDone == ~gamma_data_valid /\ gamma_data_done /\ ~buffer_done

FinishRow ==
  /\ RowDone
  /\ ports' = [ports EXCEPT ![Buffer][(BufferSelect - 1) % Outputs].we = FALSE]
  /\ buffer_counter' = 0

WriteNothing ==
  /\ ~gamma_data_valid /\ ~RowDone
  /\ UNCHANGED <<ports, buffer_counter>>

(* A write port that is enabled writes, whichever buffer it belongs to. *)
CommitPorts ==
  memory' = [b \in {0, 1} |-> [o \in Output |->
    IF ports[b][o].we
      THEN [memory[b][o] EXCEPT ![ports[b][o].adr] =
             Pixel(ports[b][o].dat_w.row, Place(NumberIn(ports[b][o].dat_w.number)))]
      ELSE memory[b][o]]]

Writer(start) ==
  /\ WritePixel \/ FinishRow \/ WriteNothing
  /\ CommitPorts
  /\ buffer_done' = gamma_data_done
  /\ done' = (RowDone \/ (done /\ ~start))

(* The row controller: swap, go on to the next row, start.  The reader's   *)
(* row is one ahead of the row that is shifted.                            *)
Client(start) ==
  \/ /\ ~start /\ done /\ ~swapped
     /\ swapped' = TRUE
     /\ shifting_buffer' = 1 - shifting_buffer
     /\ row' = (row + 1) % RowCount
  \/ /\ swapped' = (swapped /\ ~start)
     /\ UNCHANGED <<row, shifting_buffer>>

MayStart == done /\ swapped

CountFetched(start) ==
  /\ fetched' = IF start THEN 0
                ELSE IF gamma_data_valid THEN fetched + 1 ELSE fetched
  /\ last_fetched' =
       CASE start -> -1
         [] ~start /\ gamma_data_valid ->
              IF gamma_data.row = row /\ buffer_counter = fetched
                THEN gamma_data.number ELSE -1
         [] OTHER -> last_fetched

ReaderClock(start, sink_ready, prevent_read) ==
  /\ GeneratorTick(start, sink_ready /\ ~prevent_read)
  /\ Dma(adr_valid /\ ~prevent_read /\ sink_ready)
  /\ CountReservations(adr_valid /\ ~prevent_read /\ sink_ready)
  /\ TakeSource
  /\ Lookup
  /\ Writer(start)
  /\ Client(start)
  /\ CountFetched(start)

ReaderTick ==
  \E start \in {FALSE, MayStart}, sink_ready \in {FALSE, Len(in_flight) < FifoDepth},
     prevent_read \in BOOLEAN : ReaderClock(start, sink_ready, prevent_read)

ReaderSpec == ReaderInit /\ [][ReaderTick]_reader_vars

(* The memory takes an address and returns a word again and again, and     *)
(* prevent_read does not stay high.                                        *)
AddressTaken == Len(in_flight') = Len(in_flight) + IF SourceTaken THEN 0 ELSE 1
WordReturned == returned' = IF SourceTaken THEN returned ELSE returned + 1
ReaderFairness ==
  /\ WF_reader_vars(ReaderTick)
  /\ WF_reader_vars(ReaderTick /\ adr_valid /\ AddressTaken)
  /\ WF_reader_vars(ReaderTick /\ WordReturned)

ReaderLiveSpec == ReaderSpec /\ ReaderFairness

(***************************************************************************)
(* Properties.                                                             *)
(***************************************************************************)

(* The pipeline counts a pixel when it is valid, the DMA reader drops it   *)
(* when it is taken: the two are the same clock, whatever the memory does, *)
(* or a pixel would be written twice.                                      *)
SourceNeverHeld == SourceValid => source_ready

(* The reader's own count is the number of pixels in flight: it finds the  *)
(* end of the row neither early nor never.                                 *)
ReservationsExact == rsv_level = Len(in_flight)

Written(n) ==
  memory[Buffer][OutputOf(n)][BufferAddress(NumberIn(n))] = Pixel(row, Place(NumberIn(n)))
RowIsRead == done /\ ~swapped /\ memory[Buffer] # EmptyBuffer

(* When done rises, the pixels of the row are in the memory, each at its   *)
(* place, the last two excepted.                                           *)
RowWritten == RowIsRead => \A n \in 0..(RowPixels - 1 - Delay) : Written(n)

(* A row is read completely: the shifter shows nothing left of the row     *)
(* that was in the buffer before.                                          *)
WholeRowWritten == RowIsRead => \A n \in 0..(RowPixels - 1) : Written(n)

(* A port that is still enabled when its buffer is swapped away writes     *)
(* what is there already.                                                  *)
ShownBufferUntouched ==
  [][memory'[shifting_buffer] = memory[shifting_buffer]]_reader_vars

Fetch == INSTANCE RowFetch WITH
  Pixels <- RowPixels, TailLoss <- Delay, fetch_done <- done

(* The reader is what the panel driver takes it for: it writes each pixel  *)
(* of the row it was asked for to its place, but for the last two, and     *)
(* does not say it is done before.                                         *)
ImplementsRowFetch == Fetch!FetchSpec

(* A read that was started ends. *)
EveryReadEnds == ~done ~> done

(***************************************************************************)
(* The invariant they follow from.                                         *)
(***************************************************************************)

Tag == {NoPixel} \cup [number : 0..(RowPixels - 1), row : 0..(RowCount - 1)]

ReaderTypeOK ==
  /\ address_counter \in 0..(RowPixels - 1) /\ counter_previous \in 0..(RowPixels - 1)
  /\ started \in BOOLEAN /\ config_lookup_valid \in BOOLEAN
  /\ adr \in Tag /\ adr_valid \in BOOLEAN
  /\ in_flight \in Seq(Tag) /\ returned \in 0..Len(in_flight)
  /\ rsv_level \in Nat /\ source_ready \in BOOLEAN
  /\ palette_data \in Tag /\ palette_data_valid \in BOOLEAN /\ palette_data_done \in BOOLEAN
  /\ gamma_data \in Tag /\ gamma_data_valid \in BOOLEAN /\ gamma_data_done \in BOOLEAN
  /\ buffer_done \in BOOLEAN /\ done \in BOOLEAN /\ swapped \in BOOLEAN
  /\ buffer_counter \in 0..(RowPixels - 1) /\ fetched \in Nat
  /\ last_fetched \in -1..(RowPixels - 1)
  /\ ports \in [{0, 1} -> [Output -> [we : BOOLEAN, adr : Address, dat_w : Tag]]]
  /\ row \in 0..(RowCount - 1) /\ shifting_buffer \in {0, 1}

(* started covers the two stages of the pipeline, which are full while the *)
(* counter runs, but for the clock after the start.                        *)
StagesInv ==
  /\ started <=> config_lookup_valid \/ adr_valid
  /\ address_counter # 0 => config_lookup_valid
  /\ config_lookup_valid => (adr_valid <=> address_counter # 1)

(* The three registers behind RamDone rise one after the other when it     *)
(* does, and have fallen before the last address of the next row is given. *)
(* done goes up with the last of them, so nothing is under way then.       *)
DoneInv ==
  /\ palette_data_done => ~palette_data_valid
  /\ gamma_data_done => ~gamma_data_valid
  /\ started => /\ palette_data_done => gamma_data_done /\ address_counter = 1
                /\ gamma_data_done => buffer_done /\ address_counter \in {1, 2}
                /\ buffer_done => address_counter # 0 \/ config_lookup_valid
  /\ ~started => /\ buffer_done => gamma_data_done
                 /\ gamma_data_done => palette_data_done
                 /\ palette_data_done => RamDone
  /\ done => buffer_done /\ ~started

(* Every pixel of a row is in one place, from the counter to the buffer,   *)
(* but for those that were dropped at its end.                             *)
Count(valid) == IF valid THEN 1 ELSE 0
Dropped == IF config_lookup_valid THEN 0 ELSE Delay - Count(adr_valid)
Lost ==
  LET coming == IF address_counter = 0 THEN 0 ELSE RowPixels - address_counter
      under_way == Count(config_lookup_valid) + Count(adr_valid) + Len(in_flight)
                     + Count(palette_data_valid) + Count(gamma_data_valid)
  IN RowPixels - (coming + under_way + fetched)
CountInv == Lost \in 0..Dropped

(* An enabled port of the buffer that is shown, and of both once a row is  *)
(* done, has written what it writes.                                       *)
Settled(b) ==
  \A o \in Output : ports[b][o].we =>
    memory[b][o][ports[b][o].adr] =
      Pixel(ports[b][o].dat_w.row, Place(NumberIn(ports[b][o].dat_w.number)))
PortsInv ==
  /\ memory = [b \in {0, 1} |-> [o \in Output |-> [a \in Address |-> memory[b][o][a]]]]
  /\ Settled(shifting_buffer)
  /\ done => Settled(Buffer)

(* They are in order, and those that were dropped are among the last ones: *)
(* a pixel of these that follows a dropped one is too early.               *)
InRow(pixel, n) == pixel.row = row /\ (n < RowPixels - Delay => pixel.number = n)
InTurn(pixel, n) ==
  InRow(pixel, n) /\ pixel.number >= n /\ (Lost = 0 => pixel.number = n)
LastInTurn ==
  /\ last_fetched >= fetched - 1 /\ (Lost = 0 => last_fetched = fetched - 1)
  /\ fetched <= RowPixels - Delay => last_fetched = fetched - 1
OrderInv ==
  LET in_palette == fetched + Count(gamma_data_valid)
      in_queue == in_palette + Count(palette_data_valid)
  IN /\ LastInTurn
     /\ gamma_data_valid => InTurn(gamma_data, fetched)
     /\ palette_data_valid => InTurn(palette_data, in_palette)
     /\ \A i \in 1..Len(in_flight) : InTurn(in_flight[i], in_queue + i - 1)
     /\ adr_valid => InTurn(adr, in_queue + Len(in_flight))
     /\ config_lookup_valid =>
          counter_previous = (IF address_counter = 0 THEN RowPixels ELSE address_counter) - 1
     /\ buffer_counter = IF done \/ fetched = RowPixels THEN 0 ELSE fetched

(* The last pixel is at the port that is enabled, and no other one is; the *)
(* pixels before it are written.  At the end, the last port at most stays  *)
(* enabled.                                                                *)
OnlyLast(b) == \A o \in Output : ports[b][o].we => o = Outputs - 1
AtPort(n) ==
  /\ \A o \in Output : ports[Buffer][o].we <=> o = OutputOf(n)
  /\ ports[Buffer][OutputOf(n)].adr = BufferAddress(NumberIn(n))
  /\ InRow(ports[Buffer][OutputOf(n)].dat_w, n)
NothingYet ==
  /\ memory[Buffer] = EmptyBuffer /\ \A o \in Output : ~ports[Buffer][o].we
  /\ fetched = RowPixels
WrittenInv ==
  /\ OnlyLast(shifting_buffer)
  /\ done \/ fetched = 0 => OnlyLast(Buffer)
  /\ \/ swapped /\ done
     \/ NothingYet
     \/ /\ ~done /\ fetched > 0 => AtPort(fetched - 1)
        /\ \A n \in 0..(RowPixels - 1 - Delay) :
             n < fetched - 1 \/ (done /\ n < fetched) => Written(n)

ReaderInv ==
  /\ ReaderTypeOK /\ SourceNeverHeld /\ ReservationsExact
  /\ StagesInv /\ DoneInv /\ CountInv /\ PortsInv /\ OrderInv /\ WrittenInv
=============================================================================
