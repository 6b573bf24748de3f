----------------------------- MODULE ArtnetReceiver -----------------------------
(***************************************************************************)
(* The Art-Net receiver (classes ArtnetReceiver and                        *)
(* RawDataStreamToColorStream of artnet2ram.py).  UDP packets come as      *)
(* words of four bytes; the receiver looks at the header, and the          *)
(* converter makes pixels of three bytes from the words of the packets     *)
(* that are accepted, each with its address in the image.                  *)
(*                                                                         *)
(* The depacketizer (LiteEth) is external: it hands over the words behind  *)
(* the header, together with the header's fields, and marks the last word  *)
(* and the last byte in it (last_be).  A byte is a tag: the packet and its *)
(* index.  A step is a clock; the output is always ready, as Artnet2RAM    *)
(* drops what its queue cannot take.                                       *)
(***************************************************************************)
EXTENDS Integers

CONSTANTS
  Packets,     (* What arrives: see PacketShape.                           *)
  PerUniverse, (* Pixels of a universe: 170.                               *)
  MaxUniverse, (* Universes of the image.                                  *)
  CounterSize  (* Values of the pixel counter, a register of 8 bits.       *)

(* artnet says that ident and op are right; size counts the bytes that     *)
(* arrive behind the header, whatever its field length says.               *)
PacketShape == [artnet : BOOLEAN, universe : Nat, length : Nat, size : Nat \ {0}]

ASSUME ReceiverAssumption ==
  /\ Packets \subseteq PacketShape
  /\ PerUniverse \in Nat \ {0}
  /\ MaxUniverse \in Nat
  /\ CounterSize \in Nat /\ CounterSize >= PerUniverse

VARIABLES
  packet,       (* External: the packet at the input, with a number.       *)
  word,         (* External: its word at the input.                        *)
  fsm,          (* State of the receiver.                                  *)
  ram_offset,   (* Where the pixels of the universe go.                    *)
  data_counter, (* Pixels of the packet.                                   *)
  conv_fsm,     (* State of the converter: bytes left over in sink_d.      *)
  sink_d,       (* The word before the one at the input.                   *)
  copied,       (* History: the packet last accepted,                      *)
  first,        (* the word at which it was,                               *)
  emitted       (* and its pixels so far.                                  *)

input_vars == <<packet, word>>
converter_vars == <<conv_fsm, sink_d>>
copy_vars == <<copied, first, emitted>>
receiver_vars == <<input_vars, fsm, ram_offset, data_counter, converter_vars, copy_vars>>

MaxLength == 3 * PerUniverse

Arrived == [id : {0, 1}, p : Packets]
Words(arrived) == (arrived.p.size + 3) \div 4
Word(arrived, w) == [from |-> arrived, number |-> w]
NoWord == [number |-> -1]

(* Byte b of a word, and whether it is the last one of its packet.         *)
Byte(w, b) == [from |-> w.from, index |-> 4 * w.number + b]
LastBe(w, b) == w # NoWord /\ 4 * w.number + b = w.from.p.size - 1

SinkWord == Word(packet, word)
SinkLast == word = Words(packet) - 1

(* Byte i of the pixel at the output: what is left over, then the input.   *)
FromDelayed(i) == i < conv_fsm
OutByte(i) == IF FromDelayed(i) THEN Byte(sink_d, 4 - conv_fsm + i)
                                ELSE Byte(SinkWord, i - conv_fsm)

\* Mutant: the last byte is looked for in the word at the input alone.
SourceLastInput == \E i \in 0..2 : ~FromDelayed(i) /\ LastBe(SinkWord, i - conv_fsm)

SourceLast == \E i \in 0..2 : IF FromDelayed(i) THEN LastBe(sink_d, 4 - conv_fsm + i)
                                                ELSE LastBe(SinkWord, i - conv_fsm)
SourceValid(valid) == valid \/ conv_fsm = 3

\* Mutant: a word is taken even while the rest of the last one leaves.
SinkReadyAlways == TRUE

SinkReady == conv_fsm # 3
PixelAddress == ram_offset + data_counter

ReceiverInit ==
  /\ packet \in [id : {0}, p : Packets]
  /\ word = 0
  /\ fsm = "IDLE"
  /\ ram_offset = 0 /\ data_counter = 0
  /\ conv_fsm = 0 /\ sink_d = NoWord
  /\ copied = packet /\ first = 0 /\ emitted = 0

(* The word at the input is taken; after the last one any packet follows.  *)
TakeWord ==
  IF SinkLast
    THEN /\ packet' \in [id : {1 - packet.id}, p : Packets]
         /\ word' = 0
    ELSE /\ word' = word + 1
         /\ UNCHANGED packet

\* Mutant: the length is not looked at.
AcceptsAnyLength(p) == p.artnet /\ p.universe < MaxUniverse

Accepts(p) == p.artnet /\ p.length <= MaxLength /\ p.universe < MaxUniverse

\* Mutant: the converter is not reset between two packets.
ConverterKept == UNCHANGED converter_vars

ConverterReset == conv_fsm' = 0 /\ sink_d' = NoWord

Idle(valid) ==
  /\ fsm = "IDLE"
  /\ ConverterReset
  /\ data_counter' = 0
  /\ emitted' = 0
  /\ \/ /\ ~valid
        /\ UNCHANGED <<fsm, ram_offset, copied, first>>
     \/ /\ valid /\ Accepts(packet.p)
        /\ fsm' = "COPY_TO_RAM"
        /\ ram_offset' = packet.p.universe * PerUniverse
        /\ copied' = packet /\ first' = word
     \/ /\ valid /\ ~Accepts(packet.p)
        /\ fsm' = "WAIT_TILL_DONE"
        /\ UNCHANGED <<ram_offset, copied, first>>
  /\ UNCHANGED input_vars

\* Mutant: the end of a packet that was not accepted is not seen.
WaitForever(valid) ==
  /\ fsm = "WAIT_TILL_DONE"
  /\ valid
  /\ TakeWord
  /\ UNCHANGED <<fsm, ram_offset, data_counter, converter_vars, copy_vars>>

WaitTillDone(valid) ==
  /\ fsm = "WAIT_TILL_DONE"
  /\ valid
  /\ TakeWord
  /\ fsm' = IF SinkLast THEN "IDLE" ELSE fsm
  /\ UNCHANGED <<ram_offset, data_counter, converter_vars, copy_vars>>

CopyToRam(valid) ==
  /\ fsm = "COPY_TO_RAM"
  /\ SourceValid(valid)
  /\ data_counter' = (data_counter + 1) % CounterSize
  /\ emitted' = emitted + 1
  /\ fsm' = IF SourceLast THEN "IDLE" ELSE fsm
  /\ conv_fsm' = (conv_fsm + 1) % 4
  /\ \/ SinkReady /\ TakeWord /\ sink_d' = SinkWord
     \/ ~SinkReady /\ UNCHANGED <<input_vars, sink_d>>
  /\ UNCHANGED <<ram_offset, copied, first>>

ReceiverTick == \E valid \in BOOLEAN : Idle(valid) \/ WaitTillDone(valid) \/ CopyToRam(valid)

ReceiverSpec == ReceiverInit /\ [][ReceiverTick]_receiver_vars

ReceiverTypeOK ==
  /\ packet \in Arrived /\ copied \in Arrived
  /\ word \in 0..(Words(packet) - 1)
  /\ fsm \in {"IDLE", "WAIT_TILL_DONE", "COPY_TO_RAM"}
  /\ ram_offset \in {u * PerUniverse : u \in 0..(MaxUniverse - 1)} \cup {0}
  /\ data_counter \in 0..(CounterSize - 1)
  /\ conv_fsm \in 0..3
  /\ sink_d # NoWord => sink_d.from \in Arrived /\ sink_d.number \in 0..(Words(sink_d.from) - 1)
  /\ first \in {0, 1}
  /\ emitted \in Nat

(***************************************************************************)
(* Properties.                                                             *)
(***************************************************************************)

(* The bytes of a packet the converter gets.  A packet that is accepted at *)
(* its second word has lost the first one to the packet before it.         *)
CopiedSize == copied.p.size - 4 * first

(* The last byte of such a packet is left over in the delayed word when    *)
(* its last word has been taken, and the converter waits for a word more.  *)
TakesForeignWord == CopiedSize % 12 \in {4, 7, 8}

(* Every pixel is made of the packet's next three bytes; those past its    *)
(* end may be anything.  It goes to the next place from where the universe *)
(* begins, and the counter starts over there: a packet that is longer than *)
(* a universe reaches no further than the counter, whatever its length     *)
(* field says, and one that is not stays in its own.                       *)
PixelsInPlace ==
  fsm = "COPY_TO_RAM" =>
    /\ \A i \in 0..2 : 3 * emitted + i < CopiedSize =>
         OutByte(i) = [from |-> copied, index |-> 4 * first + 3 * emitted + i]
    /\ PixelAddress = copied.p.universe * PerUniverse + (emitted % CounterSize)
    /\ copied.p.size <= MaxLength => emitted < PerUniverse

(* A packet that is copied leaves the receiver with all its pixels and no  *)
(* pixel more.                                                             *)
WholePacketCopied ==
  [][fsm = "COPY_TO_RAM" /\ fsm' = "IDLE" =>
       3 * emitted < CopiedSize /\ CopiedSize <= 3 * emitted']_receiver_vars

(* The receiver looks at a header when a packet begins.  The exception are *)
(* packets whose size leaves bytes over: their last pixel takes the first  *)
(* word of the packet that follows, which never happens when the sizes are *)
(* multiples of three.                                                     *)
HeaderAtStart ==
  fsm = "IDLE" /\ word # 0 => word = 1 /\ TakesForeignWord

(* What was not accepted is not copied: a word the converter takes is of   *)
(* the accepted packet, or the one word its size makes it take.            *)
OnlyAcceptedCopied ==
  fsm = "COPY_TO_RAM" =>
    /\ copied.p.artnet /\ copied.p.length <= MaxLength /\ copied.p.universe < MaxUniverse
    /\ packet # copied => word = 0 /\ conv_fsm # 0 /\ (TakesForeignWord \/ conv_fsm = 3)

(* As long as words arrive, the receiver gets to the next header.          *)
ReceiverReturns == []<>(fsm = "IDLE")

(***************************************************************************)
(* The invariant the properties follow from: the words taken since the     *)
(* header are the bytes put out and those left over.                       *)
(***************************************************************************)

(* The words of the packet are at the input, or all of them are taken and  *)
(* the rest of the last one is still to leave.                             *)
InsidePacket ==
  /\ packet = copied
  /\ 4 * (word - first) = 3 * emitted + conv_fsm
  /\ conv_fsm # 0 => sink_d = Word(copied, word - 1)

BehindPacket ==
  /\ packet # copied /\ word = 0
  /\ conv_fsm # 0
  /\ 4 * (Words(copied) - first) = 3 * emitted + conv_fsm
  /\ sink_d = Word(copied, Words(copied) - 1)

CopyInv ==
  fsm = "COPY_TO_RAM" =>
    /\ Accepts(copied.p)
    /\ ram_offset = copied.p.universe * PerUniverse
    /\ data_counter = emitted % CounterSize
    /\ 3 * emitted < CopiedSize
    /\ InsidePacket \/ BehindPacket

ReceiverInv == ReceiverTypeOK /\ HeaderAtStart /\ CopyInv
=============================================================================
