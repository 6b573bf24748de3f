----------------------------- MODULE EthernetDriver -----------------------------
(***************************************************************************)
(* The firmware's Ethernet driver (ethernet.rs), as the network stack uses *)
(* it, and the start that sets the addresses (main.rs).  An action of the  *)
(* CPU is what lies between two accesses to the MAC.                       *)
(*                                                                         *)
(* External: the SRAM interface of the LiteEth MAC.  It writes a frame     *)
(* that arrives into one of two slots, byte by byte, and queues the slot;  *)
(* the slot is free again when the driver clears the event.  It drops what *)
(* arrives while the queue is full.  It sends from two more slots, queued  *)
(* by the start register, each until its last byte is out.  And the stack: *)
(* it takes a frame and may answer it before it is done with it, or sends  *)
(* a frame of its own.                                                     *)
(***************************************************************************)
EXTENDS Integers, Sequences

CONSTANTS
  Byte,                (* What a byte holds.                               *)
  SlotBytes,           (* Size of a slot and of TX_BUFFER: 2048.           *)
  Incoming, Outgoing,  (* Frames of others and of the stack.               *)
  MaxArrivals, MaxSends, MaxResets (* Bounds for TLC.                      *)

Slots == {0, 1}
Frame == UNION {[1..n -> Byte] : n \in 1..SlotBytes}

ASSUME DriverAssumption ==
  /\ 0 \in Byte /\ SlotBytes \in Nat \ {0}
  /\ Incoming \subseteq Frame /\ Outgoing \subseteq Frame
  /\ {MaxArrivals, MaxSends, MaxResets} \subseteq Nat

(* Addresses by their halves: as in the gateware, and of this board.       *)
DesignAddress == <<"design", "design">>
BoardAddress == <<"board", "board">>

VARIABLES
  (* External: the MAC.                                                    *)
  address,    (* Upper half that waits for the lower one, and the whole    *)
              (* that the MAC filter compares with.                        *)
  writer,     (* The frame that arrives, or <<>>, its bytes that are       *)
              (* written, and to which slot.                               *)
  stat_fifo,  (* Slots and lengths of frames received.                     *)
  rx_slots, tx_slots,
  reader,     (* slot and length registers, until start is written.        *)
  cmd_fifo,   (* Slots and lengths of frames to be sent.                   *)
  wire,       (* Bytes of the first that are out.                          *)
  (* The driver.                                                           *)
  pc,         (* What it does next.                                        *)
  rx,         (* Slot and length of the frame it is at.                    *)
  answers,    (* It sends within the closure of EthRxToken::consume.       *)
  TX_BUFFER, len, i, SLOT,
  (* History.                                                              *)
  delivered, given, sent, arrivals, resets

buffer_vars == <<TX_BUFFER, len, i>>
bounds_vars == <<arrivals, resets>>
driver_vars == <<address, writer, stat_fifo, rx_slots, tx_slots, reader, cmd_fifo, wire,
                 pc, rx, answers, buffer_vars, SLOT, delivered, given, sent, bounds_vars>>

Bytes(slot, length) == [n \in 1..length |-> slot[n]]
Zeros == [n \in 1..SlotBytes |-> 0]
NoFrame == [slot |-> 0, length |-> 0]
AddressReset == [upper |-> DesignAddress[1], whole |-> DesignAddress]
WriterAt(slot) == [frame |-> <<>>, written |-> 0, slot |-> slot]

DriverInit ==
  /\ address = AddressReset /\ writer = WriterAt(0) /\ reader = NoFrame
  /\ stat_fifo = <<>> /\ cmd_fifo = <<>> /\ wire = <<>>
  /\ rx_slots = [s \in Slots |-> Zeros] /\ tx_slots = [s \in Slots |-> Zeros]
  /\ pc = "address1" /\ rx = NoFrame /\ answers = FALSE
  /\ TX_BUFFER = Zeros /\ len = 0 /\ i = 0 /\ SLOT = 0
  /\ delivered = <<>> /\ given = <<>> /\ sent = <<>> /\ arrivals = 0 /\ resets = 0

(* A panic or the command reboot.  The start fills the statics anew.       *)
Reset ==
  /\ resets < MaxResets /\ resets' = resets + 1
  /\ address' = AddressReset /\ writer' = WriterAt(0) /\ reader' = NoFrame
  /\ stat_fifo' = <<>> /\ cmd_fifo' = <<>> /\ wire' = <<>>
  /\ pc' = "address1" /\ rx' = NoFrame /\ answers' = FALSE
  /\ TX_BUFFER' = Zeros /\ len' = 0 /\ i' = 0 /\ SLOT' = 0
  /\ UNCHANGED <<rx_slots, tx_slots, delivered, given, sent, arrivals>>

(***************************************************************************)
(* External: the MAC.                                                      *)
(***************************************************************************)
mac_keeps == <<address, tx_slots, reader, pc, rx, answers, buffer_vars, SLOT, delivered, given, resets>>
writer_keeps == <<mac_keeps, cmd_fifo, wire, sent>>
reader_keeps == <<mac_keeps, writer, stat_fifo, rx_slots, arrivals>>

(* A frame that finds the queue full is dropped.                           *)
Arrive ==
  /\ arrivals < MaxArrivals /\ arrivals' = arrivals + 1
  /\ writer.frame = <<>>
  /\ \E frame \in IF Len(stat_fifo) < 2 THEN Incoming ELSE {<<>>} : writer' = [writer EXCEPT !.frame = frame]
  /\ UNCHANGED <<writer_keeps, stat_fifo, rx_slots>>

WriteByte ==
  /\ writer.written < Len(writer.frame)
  /\ writer' = [writer EXCEPT !.written = @ + 1]
  /\ rx_slots' = [rx_slots EXCEPT ![writer.slot] =
                    [@ EXCEPT ![writer.written + 1] = writer.frame[writer.written + 1]]]
  /\ UNCHANGED <<writer_keeps, stat_fifo, arrivals>>

QueueReceived ==
  /\ writer.frame # <<>> /\ writer.written = Len(writer.frame)
  /\ stat_fifo' = Append(stat_fifo, [slot |-> writer.slot, length |-> Len(writer.frame)])
  /\ writer' = WriterAt(1 - writer.slot)
  /\ UNCHANGED <<writer_keeps, rx_slots, arrivals>>

SendByte ==
  /\ cmd_fifo # <<>> /\ Len(wire) < Head(cmd_fifo).length
  /\ wire' = Append(wire, tx_slots[Head(cmd_fifo).slot][Len(wire) + 1])
  /\ UNCHANGED <<reader_keeps, cmd_fifo, sent>>

SendEnd ==
  /\ cmd_fifo # <<>> /\ Len(wire) = Head(cmd_fifo).length
  /\ sent' = Append(sent, wire) /\ wire' = <<>> /\ cmd_fifo' = Tail(cmd_fifo)
  /\ UNCHANGED reader_keeps

(* sram_writer_ev_pending is written: the first slot is free again.        *)
ClearReceived == stat_fifo' = IF stat_fifo = <<>> THEN stat_fifo ELSE Tail(stat_fifo)

\* Mutant: the loop is left when the register reads 0.
ReaderReadyInverted == Len(cmd_fifo) >= 2

(* sram_reader_ready                                                       *)
ReaderReady == Len(cmd_fifo) < 2

(***************************************************************************)
(* The start: two writes to the address, whose second one takes effect,    *)
(* and Eth::new.                                                           *)
(***************************************************************************)
cpu_keeps == <<writer, rx_slots, wire, sent, bounds_vars>>
start_keeps == <<cpu_keeps, tx_slots, cmd_fifo, rx, answers, buffer_vars, SLOT, delivered, given>>

WriteUpper == address' = [address EXCEPT !.upper = BoardAddress[1]]
WriteLower == address' = [address EXCEPT !.whole = <<address.upper, BoardAddress[2]>>]

\* Mutant: the registers are written in the order of their numbers.
SetAddressLowFirst ==
  \/ pc = "address1" /\ pc' = "address0" /\ WriteLower
  \/ pc = "address0" /\ pc' = "new" /\ WriteUpper

SetAddress ==
  \/ pc = "address1" /\ pc' = "address0" /\ WriteUpper
  \/ pc = "address0" /\ pc' = "new" /\ WriteLower

Address == SetAddress /\ UNCHANGED <<start_keeps, stat_fifo, reader>>

new ==
  /\ pc = "new" /\ pc' = "idle"
  /\ ClearReceived /\ reader' = [reader EXCEPT !.slot = 0]
  /\ UNCHANGED <<start_keeps, address>>

(***************************************************************************)
(* Reception.                                                              *)
(***************************************************************************)
receive_keeps == <<cpu_keeps, address, tx_slots, reader, cmd_fifo, buffer_vars, SLOT, given>>

(* receive, and EthRxToken::consume up to the closure.                     *)
receive ==
  /\ pc = "idle" /\ stat_fifo # <<>>
  /\ rx' = Head(stat_fifo) /\ pc' = "closure"
  /\ UNCHANGED <<receive_keeps, stat_fifo, answers, delivered>>

(* The closure reads the frame, in its slot, and has an answer or not.     *)
Closure ==
  /\ pc = "closure"
  /\ delivered' = Append(delivered, Bytes(rx_slots[rx.slot], rx.length))
  /\ \/ answers' = FALSE /\ pc' = "clear"
     \/ /\ Len(given) < MaxSends
        /\ answers' = TRUE /\ pc' = "ready"
  /\ UNCHANGED <<receive_keeps, stat_fifo, rx>>

Clear ==
  /\ pc = "clear" /\ pc' = "idle" /\ answers' = FALSE
  /\ ClearReceived
  /\ UNCHANGED <<receive_keeps, rx, delivered>>

(***************************************************************************)
(* EthTxToken::consume.                                                    *)
(***************************************************************************)
transmit_keeps == <<cpu_keeps, address, stat_fifo, rx, delivered>>

transmit ==
  /\ pc = "idle" /\ pc' = "ready" /\ answers' = FALSE
  /\ Len(given) < MaxSends
  /\ UNCHANGED <<transmit_keeps, tx_slots, reader, cmd_fifo, buffer_vars, SLOT, given>>

(* The closure of the stack fills the buffer; an answer is made from the   *)
(* frame that is still in its slot.                                        *)
Fill ==
  /\ pc = "ready" /\ ReaderReady /\ pc' = "copy"
  /\ \E frame \in IF answers THEN {Bytes(rx_slots[rx.slot], rx.length)} ELSE Outgoing :
       /\ len' = Len(frame)
       /\ TX_BUFFER' = [n \in 1..SlotBytes |-> IF n <= Len(frame) THEN frame[n] ELSE TX_BUFFER[n]]
  /\ i' = 0
  /\ UNCHANGED <<transmit_keeps, tx_slots, reader, cmd_fifo, answers, SLOT, given>>

\* Mutant: a byte too few.
CopyEndsEarly == i >= len - 1

(* After one byte more than the frame has, if the slot has it too.         *)
CopyEnds == i = SlotBytes \/ i > len

Copy ==
  /\ pc = "copy" /\ ~CopyEnds
  /\ tx_slots' = [tx_slots EXCEPT ![SLOT] = [@ EXCEPT ![i + 1] = TX_BUFFER[i + 1]]]
  /\ i' = i + 1
  /\ UNCHANGED <<transmit_keeps, reader, cmd_fifo, pc, answers, TX_BUFFER, len, SLOT, given>>

SetUp ==
  /\ pc = "copy" /\ CopyEnds /\ pc' = "start"
  /\ reader' = [slot |-> SLOT, length |-> len]
  /\ UNCHANGED <<transmit_keeps, tx_slots, cmd_fifo, answers, buffer_vars, SLOT, given>>

\* Mutant: the frames all go into the first slot.
NextSlotKept(slot) == slot

NextSlot(slot) == (slot + 1) % 2

(* What is started while the queue is full is lost.                        *)
Start ==
  /\ pc = "start" /\ pc' = IF answers THEN "clear" ELSE "idle"
  /\ cmd_fifo' = IF ReaderReady THEN Append(cmd_fifo, reader) ELSE cmd_fifo
  /\ SLOT' = NextSlot(SLOT)
  /\ given' = Append(given, Bytes(TX_BUFFER, len))
  /\ UNCHANGED <<transmit_keeps, tx_slots, reader, answers, buffer_vars>>

Mac == WriteByte \/ QueueReceived \/ SendByte \/ SendEnd
Cpu == Address \/ new \/ receive \/ Closure \/ Clear \/ transmit \/ Fill \/ Copy \/ SetUp \/ Start
DriverNext == Reset \/ Arrive \/ Mac \/ Cpu
DriverSpec == DriverInit /\ [][DriverNext]_driver_vars

(***************************************************************************)
(* Properties.                                                             *)
(***************************************************************************)
Entries(fifo) == {fifo[n] : n \in DOMAIN fifo}
SlotsOf(fifo) == {entry.slot : entry \in Entries(fifo)}

(* What is in the queues is not written to: the MAC fills no slot that the *)
(* firmware has yet to read or is reading, and the driver none that the    *)
(* MAC has yet to send or is sending.  The queues never hold a slot twice. *)
(* The two processors agree on the order of the slots by counting only.    *)
SlotsApart ==
  /\ writer.frame # <<>> => writer.slot \notin SlotsOf(stat_fifo)
  /\ pc \in {"copy", "start"} => SLOT \notin SlotsOf(cmd_fifo)
  /\ Len(stat_fifo) = 2 => stat_fifo[1].slot # stat_fifo[2].slot
  /\ Len(cmd_fifo) = 2 => cmd_fifo[1].slot # cmd_fifo[2].slot

(* No packet is ever filtered with half an address.                        *)
FilterWhole == address.whole \in {DesignAddress, BoardAddress}

(* The driver is the two queues of EthernetLink, though its queues hold    *)
(* numbers of slots only.  A frame counts as handed over at the end of the *)
(* closure's reading, before its slot is free.                             *)
HandedOver == pc = "clear" \/ (answers /\ pc \in {"ready", "copy", "start"})

Up == pc \notin {"address1", "address0", "new"}
Frames(fifo, slots) == [n \in DOMAIN fifo |-> Bytes(slots[fifo[n].slot], fifo[n].length)]
Received == Frames(stat_fifo, rx_slots)
Inbox == IF HandedOver THEN Tail(Received) ELSE Received
Outbox == Frames(cmd_fifo, tx_slots)
Link == INSTANCE EthernetLink WITH up <- Up, inbox <- Inbox, outbox <- Outbox
ImplementsLink == Link!Spec

(* The driver waits in a loop for the MAC: it comes out of it, and gets to *)
(* the end of both queues.  The MAC sends at the speed of the wire, and    *)
(* the stack is called again and again, for frames that arrive as well as  *)
(* for its own.                                                            *)
DriverLiveSpec ==
  DriverSpec /\ WF_driver_vars(WriteByte \/ QueueReceived) /\ WF_driver_vars(SendByte \/ SendEnd)
             /\ WF_driver_vars(Cpu) /\ SF_driver_vars(receive)
QueuesEnd == []<>(pc = "idle" /\ stat_fifo = <<>> /\ cmd_fifo = <<>>)

(***************************************************************************)
(* The invariant they follow from.                                         *)
(***************************************************************************)
Memory == [1..SlotBytes -> Byte]
Entry == [slot : Slots, length : 1..SlotBytes]

DriverTypeOK ==
  /\ address \in [upper : {DesignAddress[1], BoardAddress[1]}, whole : {DesignAddress, BoardAddress}]
  /\ writer \in [frame : Incoming \cup {<<>>}, written : 0..SlotBytes, slot : Slots]
  /\ stat_fifo \in Seq(Entry) /\ Len(stat_fifo) <= 2
  /\ cmd_fifo \in Seq(Entry) /\ Len(cmd_fifo) <= 2
  /\ rx_slots \in [Slots -> Memory] /\ tx_slots \in [Slots -> Memory] /\ TX_BUFFER \in Memory
  /\ wire \in Seq(Byte)
  /\ len \in 0..SlotBytes /\ i \in 0..SlotBytes /\ SLOT \in Slots /\ answers \in BOOLEAN
  /\ delivered \in Seq(Frame) /\ given \in Seq(Frame) /\ sent \in Seq(Seq(Byte))

(* What each side does next is one slot on from the end of its queue, and  *)
(* a slot is taken only while the queue has a place.                       *)
Alternate(fifo, next) ==
  \A n \in DOMAIN fifo : fifo[n].slot = IF n = Len(fifo) THEN 1 - next ELSE next
SlotsInv ==
  /\ Alternate(stat_fifo, writer.slot) /\ Alternate(cmd_fifo, SLOT)
  /\ writer.frame # <<>> => Len(stat_fifo) < 2
  /\ pc \in {"copy", "start"} => ReaderReady
  /\ pc = "address0" => address.upper = BoardAddress[1]

(* As far as a frame has come, it is the one in the slot.                  *)
Same(bytes, slot, length) == \A n \in 1..length : bytes[n] = slot[n]
FramesInv ==
  /\ writer.written <= Len(writer.frame)
  /\ Same(writer.frame, rx_slots[writer.slot], writer.written)
  /\ cmd_fifo = <<>> => wire = <<>>
  /\ cmd_fifo # <<>> => /\ Len(wire) <= Head(cmd_fifo).length
                        /\ Same(wire, tx_slots[Head(cmd_fifo).slot], Len(wire))
  /\ pc = "copy" => Same(TX_BUFFER, tx_slots[SLOT], i)
  /\ pc = "start" => /\ Same(TX_BUFFER, tx_slots[SLOT], len)
                     /\ reader = [slot |-> SLOT, length |-> len]

(* The frame the driver is at is the first of the queue, and its answer is *)
(* that frame.                                                             *)
AnswerInv ==
  /\ pc = "closure" \/ HandedOver => stat_fifo # <<>> /\ rx = Head(stat_fifo)
  /\ HandedOver => /\ delivered # <<>>
                   /\ delivered[Len(delivered)] = Bytes(rx_slots[rx.slot], rx.length)
  /\ pc \in {"copy", "start"} =>
       /\ len > 0
       /\ Bytes(TX_BUFFER, len) \in
            IF answers THEN {delivered[Len(delivered)]} ELSE Outgoing

DriverInv == DriverTypeOK /\ SlotsInv /\ FramesInv /\ AnswerInv
=============================================================================
