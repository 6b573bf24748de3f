-------------------------- MODULE EthernetDriverProofs --------------------------
(***************************************************************************)
(* The Ethernet driver is two queues of frames, for frames and slots of    *)
(* all sizes, any number of frames and of restarts at any access.          *)
(***************************************************************************)
EXTENDS EthernetDriver, SequenceTheorems, TLAPS

(***************************************************************************)
(* Frames.                                                                 *)
(***************************************************************************)

LEMMA FrameBytes ==
  ASSUME NEW frame \in Frame
  PROVE  /\ frame \in Seq(Byte) /\ Len(frame) \in 1..SlotBytes /\ frame # <<>>
         /\ \A k \in 1..Len(frame) : frame[k] \in Byte
<1>1. PICK n \in 1..SlotBytes : frame \in [1..n -> Byte]
  BY DEF Frame
<1>2. n \in Nat /\ n > 0
  BY <1>1, DriverAssumption
<1>3. frame \in Seq(Byte) /\ Len(frame) = n
  BY <1>1, <1>2
<1> QED BY <1>1, <1>2, <1>3

(* What is read of a slot is a frame, *)
LEMMA BytesOfSlot ==
  ASSUME NEW slot \in Memory, NEW length \in 1..SlotBytes
  PROVE  /\ Bytes(slot, length) \in Frame /\ Len(Bytes(slot, length)) = length
         /\ \A k \in 1..length : Bytes(slot, length)[k] = slot[k]
<1>1. length \in Nat /\ \A k \in 1..length : slot[k] \in Byte
  BY DriverAssumption DEF Memory
<1>2. Bytes(slot, length) \in [1..length -> Byte]
  BY <1>1 DEF Bytes
<1>3. Bytes(slot, length) \in Frame
  BY <1>2 DEF Frame
<1>4. Len(Bytes(slot, length)) = length
  BY <1>1, <1>2
<1> QED BY <1>3, <1>4 DEF Bytes

(* and is the one that was written there. *)
LEMMA FrameOfSlot ==
  ASSUME NEW slot \in Memory, NEW frame \in Seq(Byte), Len(frame) \in 1..SlotBytes,
         Same(frame, slot, Len(frame))
  PROVE  Bytes(slot, Len(frame)) = frame
<1>1. \A k \in 1..Len(frame) : frame[k] = slot[k]
  BY DEF Same
<1>2. frame = [k \in 1..Len(frame) |-> frame[k]]
  OBVIOUS
<1>3. [k \in 1..Len(frame) |-> frame[k]] = [k \in 1..Len(frame) |-> slot[k]]
  BY <1>1
<1> QED BY <1>2, <1>3 DEF Bytes

LEMMA InvInit == DriverInit => DriverInv
<1> SUFFICES ASSUME DriverInit PROVE DriverInv
  OBVIOUS
<1> USE DEF DriverInit
<1>1. Zeros \in Memory /\ 0 \in 0..SlotBytes /\ 0 \in Slots
  BY DriverAssumption DEF Zeros, Memory, Slots
<1>2. DriverTypeOK
  <2>1. address \in [upper : {DesignAddress[1], BoardAddress[1]}, whole : {DesignAddress, BoardAddress}]
    BY DEF AddressReset
  <2>2. writer \in [frame : Incoming \cup {<<>>}, written : 0..SlotBytes, slot : Slots]
    BY <1>1 DEF WriterAt
  <2>3. /\ stat_fifo \in Seq(Entry) /\ Len(stat_fifo) <= 2
        /\ cmd_fifo \in Seq(Entry) /\ Len(cmd_fifo) <= 2
    OBVIOUS
  <2>4. rx_slots \in [Slots -> Memory] /\ tx_slots \in [Slots -> Memory] /\ TX_BUFFER \in Memory
    BY <1>1
  <2>5. wire \in Seq(Byte) /\ delivered \in Seq(Frame) /\ given \in Seq(Frame) /\ sent \in Seq(Seq(Byte))
    OBVIOUS
  <2> QED BY <1>1, <2>1, <2>2, <2>3, <2>4, <2>5 DEF DriverTypeOK
<1>3. SlotsInv
  BY DEF SlotsInv, Alternate, WriterAt, ReaderReady
<1>4. FramesInv
  BY DEF FramesInv, Same, WriterAt
<1>5. AnswerInv
  BY DEF AnswerInv, HandedOver
<1> QED BY <1>2, <1>3, <1>4, <1>5 DEF DriverInv

LEMMA ResetStep == DriverInv /\ Reset => DriverInv'
<1> SUFFICES ASSUME DriverInv, Reset PROVE DriverInv'
  OBVIOUS
<1> USE DEF Reset
<1>1. Zeros \in Memory /\ 0 \in 0..SlotBytes /\ 0 \in Slots
  BY DriverAssumption DEF Zeros, Memory, Slots
<1>2. DriverTypeOK'
  <2>1. address' \in [upper : {DesignAddress[1], BoardAddress[1]}, whole : {DesignAddress, BoardAddress}]
    BY DEF AddressReset
  <2>2. writer' \in [frame : Incoming \cup {<<>>}, written : 0..SlotBytes, slot : Slots]
    BY <1>1 DEF WriterAt
  <2>3. /\ stat_fifo' \in Seq(Entry) /\ Len(stat_fifo') <= 2
        /\ cmd_fifo' \in Seq(Entry) /\ Len(cmd_fifo') <= 2
    OBVIOUS
  <2>4. TX_BUFFER' \in Memory /\ wire' \in Seq(Byte)
    BY <1>1
  <2>5. UNCHANGED <<rx_slots, tx_slots, delivered, given, sent>>
    OBVIOUS
  <2> QED BY <1>1, <2>1, <2>2, <2>3, <2>4, <2>5 DEF DriverInv, DriverTypeOK
<1>3. SlotsInv'
  BY DEF SlotsInv, Alternate, WriterAt, ReaderReady
<1>4. FramesInv'
  BY DEF FramesInv, Same, WriterAt
<1>5. AnswerInv'
  BY DEF AnswerInv, HandedOver
<1> QED BY <1>2, <1>3, <1>4, <1>5 DEF DriverInv
(***************************************************************************)
(* Queues of slots.                                                        *)
(***************************************************************************)

LEMMA SmallLength ==
  ASSUME NEW fifo \in Seq(Entry), Len(fifo) <= 2
  PROVE  /\ Len(fifo) \in {0, 1, 2} /\ DOMAIN fifo = 1..Len(fifo)
         /\ \A n \in DOMAIN fifo : fifo[n] \in Entry
         /\ fifo # <<>> => Len(fifo) \in {1, 2} /\ Head(fifo) = fifo[1] /\ fifo[1] \in Entry
<1>1. Len(fifo) \in Nat /\ DOMAIN fifo = 1..Len(fifo) /\ \A n \in 1..Len(fifo) : fifo[n] \in Entry
  OBVIOUS
<1>2. Len(fifo) \in {0, 1, 2}
  BY <1>1
<1>3. ASSUME fifo # <<>> PROVE Len(fifo) \in {1, 2} /\ Head(fifo) = fifo[1] /\ fifo[1] \in Entry
  <2>1. Len(fifo) # 0
    BY <1>3, EmptySeq
  <2>2. Len(fifo) \in {1, 2}
    BY <1>2, <2>1
  <2>3. fifo[1] \in Entry
    BY <1>1, <2>2
  <2> QED BY <1>3, <2>2, <2>3
<1> QED BY <1>1, <1>2, <1>3

LEMMA Alternating ==
  ASSUME NEW fifo \in Seq(Entry), Len(fifo) <= 2, NEW next \in Slots, Alternate(fifo, next)
  PROVE  /\ Len(fifo) < 2 => \A n \in DOMAIN fifo : fifo[n].slot # next
         /\ Len(fifo) = 2 => fifo[1].slot # fifo[2].slot
<1>1. Len(fifo) \in {0, 1, 2} /\ DOMAIN fifo = 1..Len(fifo) /\ next \in {0, 1}
  BY SmallLength DEF Slots
<1>2. \A n \in 1..Len(fifo) : fifo[n].slot = IF n = Len(fifo) THEN 1 - next ELSE next
  BY <1>1 DEF Alternate
<1>3. ASSUME Len(fifo) < 2, NEW n \in 1..Len(fifo) PROVE fifo[n].slot # next
  <2>1. n = Len(fifo)
    <3>1. Len(fifo) \in {0, 1}
      BY <1>1, <1>3
    <3> QED BY <1>3, <3>1
  <2>2. fifo[n].slot = 1 - next
    BY <1>2, <1>3, <2>1
  <2> QED BY <1>1, <2>2
<1>4. ASSUME Len(fifo) = 2 PROVE fifo[1].slot # fifo[2].slot
  <2>1. fifo[1].slot = next /\ fifo[2].slot = 1 - next
    BY <1>2, <1>4
  <2> QED BY <1>1, <2>1
<1> QED BY <1>1, <1>3, <1>4

LEMMA AlternateAppend ==
  ASSUME NEW fifo \in Seq(Entry), Len(fifo) < 2, NEW next \in Slots, Alternate(fifo, next),
         NEW entry \in Entry, entry.slot = next
  PROVE  /\ Append(fifo, entry) \in Seq(Entry) /\ Len(Append(fifo, entry)) = Len(fifo) + 1
         /\ 1 - next \in Slots /\ Alternate(Append(fifo, entry), 1 - next)
<1> DEFINE longer == Append(fifo, entry)
<1>1. Len(fifo) \in {0, 1} /\ DOMAIN fifo = 1..Len(fifo) /\ next \in {0, 1}
  BY SmallLength DEF Slots
<1>2. /\ longer \in Seq(Entry) /\ Len(longer) = Len(fifo) + 1
      /\ \A n \in 1..Len(fifo) : longer[n] = fifo[n]
      /\ longer[Len(fifo) + 1] = entry
  BY AppendProperties
<1>3. DOMAIN longer = 1..(Len(fifo) + 1)
  BY <1>2
<1> HIDE DEF longer
<1>4. ASSUME NEW n \in DOMAIN longer
      PROVE  longer[n].slot = IF n = Len(longer) THEN 1 - (1 - next) ELSE 1 - next
  <2>1. CASE n = Len(fifo) + 1
    BY <1>1, <1>2, <2>1
  <2>2. CASE n # Len(fifo) + 1
    <3>1. n \in 1..Len(fifo) /\ n = Len(fifo)
      BY <1>1, <1>3, <1>4, <2>2
    <3>2. longer[n].slot = 1 - next
      BY <1>1, <1>2, <3>1 DEF Alternate
    <3> QED BY <1>2, <2>2, <3>2
  <2> QED BY <2>1, <2>2
<1>5. 1 - next \in Slots
  BY <1>1 DEF Slots
<1>6. Alternate(longer, 1 - next)
  BY <1>4 DEF Alternate
<1> QED BY <1>2, <1>5, <1>6 DEF longer

LEMMA AlternateTail ==
  ASSUME NEW fifo \in Seq(Entry), Len(fifo) <= 2, fifo # <<>>, NEW next \in Slots,
         Alternate(fifo, next)
  PROVE  /\ Tail(fifo) \in Seq(Entry) /\ Len(Tail(fifo)) = Len(fifo) - 1
         /\ Len(fifo) \in {1, 2} /\ Head(fifo) = fifo[1] /\ fifo[1] \in Entry
         /\ \A n \in 1..(Len(fifo) - 1) : Tail(fifo)[n] = fifo[n + 1]
         /\ Alternate(Tail(fifo), next)
<1> DEFINE rest == Tail(fifo)
<1>1. Len(fifo) \in {1, 2} /\ DOMAIN fifo = 1..Len(fifo) /\ fifo[1] \in Entry /\ Head(fifo) = fifo[1]
  BY SmallLength
<1>2. /\ rest \in Seq(Entry) /\ Len(rest) = Len(fifo) - 1
      /\ \A n \in 1..(Len(fifo) - 1) : rest[n] = fifo[n + 1]
  BY HeadTailProperties
<1>3. DOMAIN rest = 1..(Len(fifo) - 1)
  BY <1>2
<1> HIDE DEF rest
<1>4. ASSUME NEW n \in DOMAIN rest PROVE rest[n].slot = IF n = Len(rest) THEN 1 - next ELSE next
  <2>1. n \in 1..(Len(fifo) - 1) /\ n + 1 \in DOMAIN fifo
    BY <1>1, <1>3, <1>4
  <2>2. fifo[n + 1].slot = IF n + 1 = Len(fifo) THEN 1 - next ELSE next
    BY <2>1 DEF Alternate
  <2> QED BY <1>1, <1>2, <2>1, <2>2
<1>5. Alternate(rest, next)
  BY <1>4 DEF Alternate
<1> QED BY <1>1, <1>2, <1>5 DEF rest
(* The frames a queue of slots stands for. *)
LEMMA FramesOf ==
  ASSUME NEW fifo \in Seq(Entry), NEW slots \in [Slots -> Memory]
  PROVE  /\ Frames(fifo, slots) \in Seq(Frame) /\ Len(Frames(fifo, slots)) = Len(fifo)
         /\ \A n \in 1..Len(fifo) : Frames(fifo, slots)[n] = Bytes(slots[fifo[n].slot], fifo[n].length)
<1>1. Len(fifo) \in Nat /\ DOMAIN fifo = 1..Len(fifo)
  OBVIOUS
<1>2. ASSUME NEW n \in 1..Len(fifo) PROVE Bytes(slots[fifo[n].slot], fifo[n].length) \in Frame
  <2>1. fifo[n] \in Entry
    BY <1>2, ElementOfSeq
  <2>2. slots[fifo[n].slot] \in Memory /\ fifo[n].length \in 1..SlotBytes
    BY <2>1 DEF Entry
  <2> QED BY <2>2, BytesOfSlot
<1>3. Frames(fifo, slots) = [n \in 1..Len(fifo) |-> Bytes(slots[fifo[n].slot], fifo[n].length)]
  BY <1>1 DEF Frames
<1>4. Frames(fifo, slots) \in [1..Len(fifo) -> Frame]
  BY <1>2, <1>3
<1>5. Frames(fifo, slots) \in Seq(Frame) /\ Len(Frames(fifo, slots)) = Len(fifo)
  BY <1>1, <1>4
<1> QED BY <1>3, <1>5

LEMMA FramesAppend ==
  ASSUME NEW fifo \in Seq(Entry), NEW slots \in [Slots -> Memory], NEW entry \in Entry
  PROVE  /\ Bytes(slots[entry.slot], entry.length) \in Frame
         /\ Frames(Append(fifo, entry), slots) =
              Append(Frames(fifo, slots), Bytes(slots[entry.slot], entry.length))
<1> DEFINE longer == Append(fifo, entry)
           frame == Bytes(slots[entry.slot], entry.length)
           s == Frames(longer, slots)
           t == Append(Frames(fifo, slots), frame)
<1>1. /\ longer \in Seq(Entry) /\ Len(longer) = Len(fifo) + 1 /\ Len(fifo) \in Nat
      /\ \A n \in 1..Len(fifo) : longer[n] = fifo[n]
      /\ longer[Len(fifo) + 1] = entry
  BY AppendProperties
<1>2. frame \in Frame
  <2>1. slots[entry.slot] \in Memory /\ entry.length \in 1..SlotBytes
    BY DEF Entry
  <2> QED BY <2>1, BytesOfSlot
<1>3. /\ s \in Seq(Frame) /\ Len(s) = Len(longer)
      /\ \A n \in 1..Len(longer) : s[n] = Bytes(slots[longer[n].slot], longer[n].length)
  <2> HIDE DEF longer
  <2> QED BY <1>1, FramesOf
<1>4. /\ Frames(fifo, slots) \in Seq(Frame) /\ Len(Frames(fifo, slots)) = Len(fifo)
      /\ \A n \in 1..Len(fifo) : Frames(fifo, slots)[n] = Bytes(slots[fifo[n].slot], fifo[n].length)
  BY FramesOf
<1>5. /\ t \in Seq(Frame) /\ Len(t) = Len(fifo) + 1
      /\ \A n \in 1..Len(fifo) : t[n] = Frames(fifo, slots)[n]
      /\ t[Len(fifo) + 1] = frame
  <2> HIDE DEF frame
  <2> QED BY <1>2, <1>4, AppendProperties
<1> HIDE DEF s, t, longer
<1>6. ASSUME NEW n \in 1..Len(s) PROVE s[n] = t[n]
  <2>1. CASE n = Len(fifo) + 1
    BY <1>1, <1>3, <1>5, <1>6, <2>1
  <2>2. CASE n # Len(fifo) + 1
    <3>1. n \in 1..Len(fifo) /\ n \in 1..Len(longer)
      BY <1>1, <1>3, <1>6, <2>2
    <3> QED BY <1>1, <1>3, <1>4, <1>5, <3>1
  <2> QED BY <2>1, <2>2
<1>7. s = t
  BY <1>1, <1>3, <1>5, <1>6, SeqEqual
<1> QED BY <1>2, <1>7 DEF s, t, longer

LEMMA FramesTail ==
  ASSUME NEW fifo \in Seq(Entry), NEW slots \in [Slots -> Memory], fifo # <<>>
  PROVE  /\ Frames(fifo, slots) # <<>>
         /\ Head(Frames(fifo, slots)) = Bytes(slots[Head(fifo).slot], Head(fifo).length)
         /\ Frames(Tail(fifo), slots) = Tail(Frames(fifo, slots))
<1> DEFINE rest == Tail(fifo)
           f == Frames(fifo, slots)
           s == Frames(rest, slots)
           t == Tail(f)
<1>1. /\ rest \in Seq(Entry) /\ Len(rest) = Len(fifo) - 1 /\ Len(fifo) \in Nat /\ Len(fifo) > 0
      /\ \A n \in 1..Len(rest) : rest[n] = fifo[n + 1]
  BY HeadTailProperties, EmptySeq
<1>2. /\ f \in Seq(Frame) /\ Len(f) = Len(fifo)
      /\ \A n \in 1..Len(fifo) : f[n] = Bytes(slots[fifo[n].slot], fifo[n].length)
  BY FramesOf
<1>3. /\ s \in Seq(Frame) /\ Len(s) = Len(rest)
      /\ \A n \in 1..Len(rest) : s[n] = Bytes(slots[rest[n].slot], rest[n].length)
  <2> HIDE DEF rest
  <2> QED BY <1>1, FramesOf
<1> HIDE DEF f, s, rest
<1>4. f # <<>> /\ Head(f) = f[1]
  BY <1>1, <1>2, EmptySeq
<1>5. /\ t \in Seq(Frame) /\ Len(t) = Len(fifo) - 1
      /\ \A n \in 1..Len(t) : t[n] = f[n + 1]
  BY <1>2, <1>4, HeadTailProperties
<1> HIDE DEF t
<1>6. ASSUME NEW n \in 1..Len(s) PROVE s[n] = t[n]
  <2>1. n \in 1..Len(rest) /\ n \in 1..Len(t) /\ n + 1 \in 1..Len(fifo)
    BY <1>1, <1>3, <1>5, <1>6
  <2> QED BY <1>1, <1>2, <1>3, <1>5, <2>1
<1>7. s = t
  BY <1>1, <1>3, <1>5, <1>6, SeqEqual
<1>8. Head(f) = Bytes(slots[Head(fifo).slot], Head(fifo).length)
  BY <1>1, <1>2, <1>4
<1> QED BY <1>4, <1>7, <1>8 DEF f, s, t, rest

(***************************************************************************)
(* The steps of the MAC.                                                   *)
(***************************************************************************)

LEMMA ArriveStep ==
  ASSUME DriverInv, Arrive
  PROVE  DriverInv' /\ UNCHANGED <<Up, Inbox, Outbox, delivered, given, sent>>
<1>1. PICK frame \in IF Len(stat_fifo) < 2 THEN Incoming ELSE {<<>>} :
        writer' = [writer EXCEPT !.frame = frame]
  BY DEF Arrive
<1>2. /\ writer \in [frame : Incoming \cup {<<>>}, written : 0..SlotBytes, slot : Slots]
      /\ writer.frame = <<>> /\ writer.written <= Len(writer.frame)
  BY DEF DriverInv, DriverTypeOK, FramesInv, Arrive
<1>3. UNCHANGED <<writer_keeps, stat_fifo, rx_slots>>
  BY DEF Arrive
<1>4. frame \in Incoming \cup {<<>>} /\ (frame # <<>> => Len(stat_fifo) < 2) /\ Len(frame) >= 0
  <2>1. frame \in Frame => Len(frame) >= 0
    BY FrameBytes
  <2>2. Len(<<>>) >= 0
    OBVIOUS
  <2>3. CASE Len(stat_fifo) < 2
    <3>1. frame \in Incoming /\ frame \in Frame
      BY <2>3, DriverAssumption
    <3> QED BY <2>1, <2>3, <3>1
  <2>4. CASE ~(Len(stat_fifo) < 2)
    BY <2>2, <2>4
  <2> QED BY <2>3, <2>4
<1>5. /\ writer' \in [frame : Incoming \cup {<<>>}, written : 0..SlotBytes, slot : Slots]
      /\ writer'.frame = frame /\ writer'.slot = writer.slot /\ writer'.written = 0
  <2>1. writer.written = 0
    BY <1>2
  <2> QED BY <1>1, <1>2, <1>4, <2>1
<1> USE <1>3 DEF writer_keeps, mac_keeps, buffer_vars
<1>6. DriverTypeOK'
  BY <1>5 DEF DriverInv, DriverTypeOK
<1>7. SlotsInv'
  BY <1>4, <1>5 DEF DriverInv, SlotsInv, Alternate, ReaderReady
<1>8. FramesInv'
  BY <1>4, <1>5 DEF DriverInv, FramesInv, Same
<1>9. AnswerInv' /\ UNCHANGED <<Up, Inbox, Outbox, delivered, given, sent>>
  BY DEF DriverInv, AnswerInv, HandedOver, Up, Inbox, Received, Outbox, Frames, Bytes
<1> QED BY <1>6, <1>7, <1>8, <1>9 DEF DriverInv

(* A slot that is written to is in no queue of what has arrived. *)
LEMMA SlotsOfQueue ==
  ASSUME DriverInv
  PROVE  /\ \A n \in DOMAIN stat_fifo : stat_fifo[n] \in Entry
         /\ writer.frame # <<>> => \A n \in DOMAIN stat_fifo : stat_fifo[n].slot # writer.slot
         /\ pc \in {"copy", "start"} => \A n \in DOMAIN cmd_fifo : cmd_fifo[n].slot # SLOT
         /\ \A n \in DOMAIN cmd_fifo : cmd_fifo[n] \in Entry
         /\ (pc = "closure" \/ HandedOver) => 1 \in DOMAIN stat_fifo /\ rx = stat_fifo[1]
         /\ cmd_fifo # <<>> => 1 \in DOMAIN cmd_fifo /\ Head(cmd_fifo) = cmd_fifo[1]
<1>1. /\ stat_fifo \in Seq(Entry) /\ Len(stat_fifo) <= 2
      /\ cmd_fifo \in Seq(Entry) /\ Len(cmd_fifo) <= 2
      /\ writer.slot \in Slots /\ SLOT \in Slots
      /\ Alternate(stat_fifo, writer.slot) /\ Alternate(cmd_fifo, SLOT)
      /\ (writer.frame # <<>> => Len(stat_fifo) < 2)
      /\ (pc \in {"copy", "start"} => Len(cmd_fifo) < 2)
  BY DEF DriverInv, DriverTypeOK, SlotsInv, ReaderReady
<1>2. (pc = "closure" \/ HandedOver) => stat_fifo # <<>> /\ rx = Head(stat_fifo)
  BY DEF DriverInv, AnswerInv
<1>3. (pc = "closure" \/ HandedOver) => 1 \in DOMAIN stat_fifo /\ rx = stat_fifo[1]
  BY <1>1, <1>2, SmallLength
<1>4. cmd_fifo # <<>> => 1 \in DOMAIN cmd_fifo /\ Head(cmd_fifo) = cmd_fifo[1]
  BY <1>1, SmallLength
<1>5. writer.frame # <<>> => \A n \in DOMAIN stat_fifo : stat_fifo[n].slot # writer.slot
  BY <1>1, Alternating
<1>6. pc \in {"copy", "start"} => \A n \in DOMAIN cmd_fifo : cmd_fifo[n].slot # SLOT
  BY <1>1, Alternating
<1>7. (\A n \in DOMAIN stat_fifo : stat_fifo[n] \in Entry) /\ (\A n \in DOMAIN cmd_fifo : cmd_fifo[n] \in Entry)
  BY <1>1, SmallLength
<1> QED BY <1>3, <1>4, <1>5, <1>6, <1>7

LEMMA WriteByteStep ==
  ASSUME DriverInv, WriteByte
  PROVE  DriverInv' /\ UNCHANGED <<Up, Inbox, Outbox, delivered, given, sent>>
<1> DEFINE k == writer.written + 1
<1>1. /\ writer \in [frame : Incoming \cup {<<>>}, written : 0..SlotBytes, slot : Slots]
      /\ rx_slots \in [Slots -> Memory]
      /\ Same(writer.frame, rx_slots[writer.slot], writer.written)
  BY DEF DriverInv, DriverTypeOK, FramesInv
<1>2. /\ writer.written < Len(writer.frame)
      /\ writer' = [writer EXCEPT !.written = k]
      /\ rx_slots' = [rx_slots EXCEPT ![writer.slot] =
                        [rx_slots[writer.slot] EXCEPT ![k] = writer.frame[k]]]
      /\ UNCHANGED <<writer_keeps, stat_fifo, arrivals>>
  BY DEF WriteByte
<1>3. /\ writer.frame \in Frame /\ writer.frame # <<>> /\ Len(writer.frame) \in 1..SlotBytes
      /\ \A n \in 1..Len(writer.frame) : writer.frame[n] \in Byte
  <2>1. writer.frame # <<>>
    BY <1>1, <1>2
  <2>2. writer.frame \in Frame
    BY <1>1, <2>1, DriverAssumption
  <2> QED BY <2>1, <2>2, FrameBytes
<1>4. k \in 1..Len(writer.frame) /\ k \in 1..SlotBytes /\ writer.frame[k] \in Byte
  <2>1. writer.written \in 0..SlotBytes /\ SlotBytes \in Nat
    BY <1>1, DriverAssumption
  <2>2. k \in 1..Len(writer.frame) /\ k \in 1..SlotBytes
    BY <1>2, <1>3, <2>1
  <2> QED BY <1>3, <2>2
<1>5. /\ writer' \in [frame : Incoming \cup {<<>>}, written : 0..SlotBytes, slot : Slots]
      /\ writer'.frame = writer.frame /\ writer'.slot = writer.slot /\ writer'.written = k
  <2>1. k \in 0..SlotBytes
    BY <1>4
  <2> HIDE DEF k
  <2> QED BY <1>1, <1>2, <2>1
<1> DEFINE filled == [rx_slots[writer.slot] EXCEPT ![k] = writer.frame[k]]
<1>6. /\ writer.slot \in Slots /\ rx_slots[writer.slot] \in Memory
      /\ filled \in Memory /\ filled[k] = writer.frame[k]
      /\ \A n \in 1..SlotBytes : n # k => filled[n] = rx_slots[writer.slot][n]
  <2>1. writer.slot \in Slots /\ rx_slots[writer.slot] \in Memory
    BY <1>1
  <2> HIDE DEF k
  <2> QED BY <1>4, <2>1 DEF Memory
<1>7. /\ rx_slots' \in [Slots -> Memory] /\ rx_slots'[writer.slot] = filled
      /\ \A s \in Slots : s # writer.slot => rx_slots'[s] = rx_slots[s]
  <2> HIDE DEF filled
  <2> QED BY <1>1, <1>2, <1>6 DEF filled
<1>8. Same(writer.frame, filled, k)
  <2>1. ASSUME NEW n \in 1..k PROVE writer.frame[n] = filled[n]
    <3>1. n \in 1..SlotBytes /\ (n # k => n \in 1..writer.written)
      <4> DEFINE w == writer.written
      <4>1. w \in Nat /\ SlotBytes \in Nat /\ w + 1 \in 1..SlotBytes /\ n \in 1..(w + 1) /\ k = w + 1
        BY <1>1, <1>4, <2>1, DriverAssumption
      <4> HIDE DEF w, k
      <4> QED BY <4>1 DEF w
    <3>2. n # k => writer.frame[n] = rx_slots[writer.slot][n]
      BY <1>1, <3>1 DEF Same
    <3> HIDE DEF k, filled
    <3> QED BY <1>6, <3>1, <3>2
  <2> QED BY <2>1 DEF Same
<1> HIDE DEF k, filled
<1>9. \A n \in DOMAIN stat_fifo : stat_fifo[n].slot \in Slots /\ stat_fifo[n].slot # writer.slot
  BY <1>3, SlotsOfQueue DEF Entry
<1>10. \A n \in DOMAIN stat_fifo : rx_slots'[stat_fifo[n].slot] = rx_slots[stat_fifo[n].slot]
  BY <1>7, <1>9
<1>11. (pc = "closure" \/ HandedOver) => rx_slots'[rx.slot] = rx_slots[rx.slot]
  BY <1>10, SlotsOfQueue
<1> USE <1>2 DEF writer_keeps, mac_keeps, buffer_vars
<1>12. DriverTypeOK'
  BY <1>5, <1>7 DEF DriverInv, DriverTypeOK
<1>13. SlotsInv'
  BY <1>5 DEF DriverInv, SlotsInv, Alternate, ReaderReady
<1>14. FramesInv'
  <2>1. Same(writer.frame, rx_slots[writer.slot], writer.written)'
    BY <1>5, <1>7, <1>8 DEF Same
  <2>2. writer'.written <= Len(writer'.frame)
    BY <1>4, <1>5
  <2> QED BY <2>1, <2>2 DEF DriverInv, FramesInv, Same
<1>15. AnswerInv'
  BY <1>11 DEF DriverInv, AnswerInv, HandedOver, Bytes
<1>16. Received' = Received
  BY <1>10 DEF Received, Frames, Bytes
<1>17. UNCHANGED <<Up, Inbox, Outbox, delivered, given, sent>>
  BY <1>16 DEF Up, Inbox, HandedOver, Outbox, Frames, Bytes
<1> QED BY <1>12, <1>13, <1>14, <1>15, <1>17 DEF DriverInv
LEMMA QueueReceivedStep ==
  ASSUME DriverInv, QueueReceived
  PROVE  /\ DriverInv' /\ UNCHANGED <<Up, Outbox, delivered, given, sent>>
         /\ \E frame \in Incoming : Inbox' = Append(Inbox, frame)
<1> DEFINE frame == writer.frame
           entry == [slot |-> writer.slot, length |-> Len(frame)]
<1>1. /\ writer \in [frame : Incoming \cup {<<>>}, written : 0..SlotBytes, slot : Slots]
      /\ rx_slots \in [Slots -> Memory]
      /\ Same(frame, rx_slots[writer.slot], writer.written)
      /\ stat_fifo \in Seq(Entry) /\ Len(stat_fifo) <= 2 /\ Alternate(stat_fifo, writer.slot)
      /\ (frame # <<>> => Len(stat_fifo) < 2)
  BY DEF DriverInv, DriverTypeOK, FramesInv, SlotsInv
<1>2. /\ frame # <<>> /\ writer.written = Len(frame)
      /\ stat_fifo' = Append(stat_fifo, entry) /\ writer' = WriterAt(1 - writer.slot)
      /\ UNCHANGED <<writer_keeps, rx_slots, arrivals>>
  BY DEF QueueReceived
<1>3. frame \in Incoming /\ frame \in Seq(Byte) /\ Len(frame) \in 1..SlotBytes
  <2>1. frame \in Incoming
    BY <1>1, <1>2
  <2>2. frame \in Frame
    BY <2>1, DriverAssumption
  <2> QED BY <2>1, <2>2, FrameBytes
<1>4. entry \in Entry /\ entry.slot = writer.slot /\ entry.length = Len(frame) /\ writer.slot \in Slots
  BY <1>1, <1>3 DEF Entry
<1>5. Bytes(rx_slots[writer.slot], Len(frame)) = frame
  <2>1. rx_slots[writer.slot] \in Memory
    BY <1>1, <1>4
  <2> QED BY <1>1, <1>2, <1>3, <2>1, FrameOfSlot
<1> HIDE DEF frame, entry
<1>6. /\ stat_fifo' \in Seq(Entry) /\ Len(stat_fifo') = Len(stat_fifo) + 1 /\ Len(stat_fifo) < 2
      /\ 1 - writer.slot \in Slots /\ Alternate(stat_fifo', 1 - writer.slot)
  BY <1>1, <1>2, <1>4, AlternateAppend
<1>7. Received' = Append(Received, frame) /\ Received \in Seq(Frame)
  BY <1>1, <1>2, <1>4, <1>5, FramesAppend, FramesOf DEF Received
<1>8. (pc = "closure" \/ HandedOver) => stat_fifo' # <<>> /\ rx = Head(stat_fifo')
  <2>1. SUFFICES ASSUME pc = "closure" \/ HandedOver PROVE stat_fifo' # <<>> /\ rx = Head(stat_fifo')
    OBVIOUS
  <2>2. stat_fifo # <<>> /\ rx = Head(stat_fifo)
    BY <2>1 DEF DriverInv, AnswerInv
  <2>3. Head(stat_fifo') = Head(stat_fifo) /\ stat_fifo' # <<>>
    BY <1>1, <1>2, <1>4, <2>2, HeadTailAppend, AppendProperties
  <2> QED BY <2>2, <2>3
<1> USE <1>2 DEF writer_keeps, mac_keeps, buffer_vars
<1>9. writer'.frame = <<>> /\ writer'.written = 0 /\ writer'.slot = 1 - writer.slot
  BY DEF WriterAt
<1>10. DriverTypeOK'
  <2>1. writer' \in [frame : Incoming \cup {<<>>}, written : 0..SlotBytes, slot : Slots]
    BY <1>6, DriverAssumption DEF WriterAt
  <2>2. Len(stat_fifo') <= 2
    BY <1>1, <1>6, SmallLength
  <2> QED BY <1>6, <2>1, <2>2 DEF DriverInv, DriverTypeOK
<1>11. SlotsInv'
  <2>1. Alternate(stat_fifo, writer.slot)'
    BY <1>6, <1>9 DEF Alternate
  <2> QED BY <1>9, <2>1 DEF DriverInv, SlotsInv, Alternate, ReaderReady
<1>12. FramesInv'
  BY <1>9 DEF DriverInv, FramesInv, Same
<1>13. AnswerInv'
  BY <1>8 DEF DriverInv, AnswerInv, HandedOver, Bytes
<1>14. UNCHANGED <<Up, Outbox, delivered, given, sent>>
  BY DEF Up, Outbox, Frames, Bytes
<1>15. Inbox' = Append(Inbox, frame)
  <2>1. HandedOver' = HandedOver
    BY DEF HandedOver
  <2>2. CASE HandedOver
    <3>1. stat_fifo # <<>>
      BY <2>2 DEF DriverInv, AnswerInv
    <3>2. Received # <<>>
      BY <1>1, <3>1, FramesTail DEF Received
    <3>3. Tail(Append(Received, frame)) = Append(Tail(Received), frame)
      BY <1>7, <3>2, HeadTailAppend
    <3> QED BY <1>7, <2>1, <2>2, <3>3 DEF Inbox
  <2>3. CASE ~HandedOver
    BY <1>7, <2>1, <2>3 DEF Inbox
  <2> QED BY <2>2, <2>3
<1> QED BY <1>3, <1>10, <1>11, <1>12, <1>13, <1>14, <1>15 DEF DriverInv

LEMMA SendByteStep ==
  ASSUME DriverInv, SendByte
  PROVE  DriverInv' /\ UNCHANGED <<Up, Inbox, Outbox, delivered, given, sent>>
<1> DEFINE slot == tx_slots[Head(cmd_fifo).slot]
           k == Len(wire) + 1
<1>1. /\ cmd_fifo # <<>> /\ Len(wire) < Head(cmd_fifo).length
      /\ wire' = Append(wire, slot[k])
      /\ UNCHANGED <<reader_keeps, cmd_fifo, sent>>
  BY DEF SendByte
<1>2. /\ wire \in Seq(Byte) /\ cmd_fifo \in Seq(Entry) /\ tx_slots \in [Slots -> Memory]
      /\ Same(wire, slot, Len(wire))
  BY <1>1 DEF DriverInv, DriverTypeOK, FramesInv
<1>3. Head(cmd_fifo) \in Entry
  BY <1>1, <1>2, HeadTailProperties
<1>4. slot \in Memory /\ Head(cmd_fifo).length \in 1..SlotBytes /\ SlotBytes \in Nat
  BY <1>2, <1>3, DriverAssumption DEF Entry
<1>5. k \in 1..SlotBytes /\ Len(wire) \in Nat /\ k <= Head(cmd_fifo).length
  BY <1>1, <1>2, <1>4
<1>6. slot[k] \in Byte
  <2> HIDE DEF k, slot
  <2> QED BY <1>4, <1>5 DEF Memory
<1>7. /\ wire' \in Seq(Byte) /\ Len(wire') = k
      /\ \A n \in 1..Len(wire) : wire'[n] = wire[n]
      /\ wire'[k] = slot[k]
  <2> HIDE DEF slot
  <2> QED BY <1>1, <1>2, <1>6, AppendProperties
<1>8. Same(wire', slot, Len(wire'))
  <2>1. ASSUME NEW n \in 1..k PROVE wire'[n] = slot[n]
    <3>1. n = k \/ n \in 1..Len(wire)
      BY <1>5, <2>1
    <3> HIDE DEF k
    <3> QED BY <1>2, <1>7, <3>1 DEF Same
  <2> QED BY <1>7, <2>1 DEF Same
<1> USE <1>1 DEF reader_keeps, mac_keeps, buffer_vars
<1>9. DriverTypeOK'
  BY <1>7 DEF DriverInv, DriverTypeOK
<1>10. SlotsInv'
  BY DEF DriverInv, SlotsInv, Alternate, ReaderReady
<1>11. FramesInv'
  <2>1. Len(wire') <= Head(cmd_fifo').length /\ Same(wire', tx_slots'[Head(cmd_fifo').slot], Len(wire'))
    BY <1>5, <1>7, <1>8
  <2> QED BY <2>1 DEF DriverInv, FramesInv, Same
<1>12. AnswerInv'
  BY DEF DriverInv, AnswerInv, HandedOver, Bytes
<1>13. UNCHANGED <<Up, Inbox, Outbox, delivered, given, sent>>
  BY DEF Up, Inbox, Received, HandedOver, Outbox, Frames, Bytes
<1> QED BY <1>9, <1>10, <1>11, <1>12, <1>13 DEF DriverInv

LEMMA SendEndStep ==
  ASSUME DriverInv, SendEnd
  PROVE  /\ DriverInv' /\ UNCHANGED <<Up, Inbox, delivered, given>>
         /\ Outbox # <<>> /\ sent' = Append(sent, Head(Outbox)) /\ Outbox' = Tail(Outbox)
<1>1. /\ cmd_fifo # <<>> /\ Len(wire) = Head(cmd_fifo).length
      /\ sent' = Append(sent, wire) /\ wire' = <<>> /\ cmd_fifo' = Tail(cmd_fifo)
      /\ UNCHANGED reader_keeps
  BY DEF SendEnd
<1>2. /\ wire \in Seq(Byte) /\ cmd_fifo \in Seq(Entry) /\ Len(cmd_fifo) <= 2
      /\ tx_slots \in [Slots -> Memory] /\ SLOT \in Slots /\ Alternate(cmd_fifo, SLOT)
      /\ Same(wire, tx_slots[Head(cmd_fifo).slot], Len(wire)) /\ sent \in Seq(Seq(Byte))
  BY <1>1 DEF DriverInv, DriverTypeOK, FramesInv, SlotsInv
<1>3. Head(cmd_fifo) \in Entry
  BY <1>1, <1>2, HeadTailProperties
<1>4. wire = Bytes(tx_slots[Head(cmd_fifo).slot], Head(cmd_fifo).length)
  <2>1. tx_slots[Head(cmd_fifo).slot] \in Memory /\ Len(wire) \in 1..SlotBytes
    BY <1>1, <1>2, <1>3 DEF Entry
  <2> QED BY <1>1, <1>2, <2>1, FrameOfSlot
<1>5. /\ cmd_fifo' \in Seq(Entry) /\ Len(cmd_fifo') = Len(cmd_fifo) - 1 /\ Len(cmd_fifo) \in {1, 2}
      /\ Alternate(cmd_fifo', SLOT)
  BY <1>1, <1>2, AlternateTail
<1>6. Outbox # <<>> /\ Head(Outbox) = wire /\ Outbox' = Tail(Outbox)
  <2>1. tx_slots' = tx_slots
    BY <1>1 DEF reader_keeps, mac_keeps
  <2> QED BY <1>1, <1>2, <1>4, <2>1, FramesTail DEF Outbox
<1> USE <1>1 DEF reader_keeps, mac_keeps, buffer_vars
<1>7. DriverTypeOK'
  <2>1. sent' \in Seq(Seq(Byte)) /\ wire' \in Seq(Byte)
    BY <1>2
  <2>2. Len(cmd_fifo') <= 2
    BY <1>5
  <2> QED BY <1>5, <2>1, <2>2 DEF DriverInv, DriverTypeOK
<1>8. SlotsInv'
  <2>1. Len(cmd_fifo') < 2
    BY <1>5
  <2>2. Alternate(cmd_fifo, SLOT)'
    BY <1>5 DEF Alternate
  <2> QED BY <2>1, <2>2 DEF DriverInv, SlotsInv, Alternate, ReaderReady
<1>9. FramesInv'
  <2>1. cmd_fifo' # <<>> => Len(wire') <= Head(cmd_fifo').length
    <3>1. cmd_fifo' # <<>> => Head(cmd_fifo') \in Entry
      BY <1>5, HeadTailProperties
    <3>2. Len(wire') = 0
      OBVIOUS
    <3> QED BY <3>1, <3>2, DriverAssumption DEF Entry
  <2>2. \A slot : Same(wire', slot, Len(wire'))
    BY DEF Same
  <2> QED BY <2>1, <2>2 DEF DriverInv, FramesInv, Same
<1>10. AnswerInv'
  BY DEF DriverInv, AnswerInv, HandedOver, Bytes
<1>11. UNCHANGED <<Up, Inbox, delivered, given>>
  BY DEF Up, Inbox, Received, HandedOver, Frames, Bytes
<1> QED BY <1>6, <1>7, <1>8, <1>9, <1>10, <1>11 DEF DriverInv
(***************************************************************************)
(* The steps of the firmware: the start and reception.                     *)
(***************************************************************************)

LEMMA AddressStep ==
  ASSUME DriverInv, Address
  PROVE  DriverInv' /\ UNCHANGED <<Up, Inbox, Outbox, delivered, given, sent>>
<1>1. /\ address \in [upper : {DesignAddress[1], BoardAddress[1]}, whole : {DesignAddress, BoardAddress}]
      /\ (pc = "address0" => address.upper = BoardAddress[1])
  BY DEF DriverInv, DriverTypeOK, SlotsInv
<1>2. SetAddress /\ UNCHANGED <<start_keeps, stat_fifo, reader>>
  BY DEF Address
<1>3. pc \in {"address1", "address0"} /\ pc' \in {"address0", "new"}
  BY <1>2 DEF SetAddress
<1>4. /\ address' \in [upper : {DesignAddress[1], BoardAddress[1]}, whole : {DesignAddress, BoardAddress}]
      /\ (pc' = "address0" => address'.upper = BoardAddress[1])
  <2>1. CASE pc = "address1"
    BY <1>1, <1>2, <2>1 DEF SetAddress, WriteUpper
  <2>2. CASE pc = "address0"
    <3>1. address' = [address EXCEPT !.whole = BoardAddress] /\ pc' = "new"
      BY <1>1, <1>2, <2>2 DEF SetAddress, WriteLower, BoardAddress
    <3> QED BY <1>1, <3>1
  <2> QED BY <1>3, <2>1, <2>2
<1> USE <1>2, <1>3 DEF start_keeps, cpu_keeps, buffer_vars, bounds_vars
<1>5. ~HandedOver /\ ~HandedOver'
  BY DEF HandedOver
<1>6. DriverTypeOK'
  BY <1>4 DEF DriverInv, DriverTypeOK
<1>7. SlotsInv' /\ FramesInv'
  BY <1>4 DEF DriverInv, SlotsInv, FramesInv, Alternate, Same, ReaderReady
<1>8. AnswerInv'
  BY <1>5 DEF DriverInv, AnswerInv
<1>9. UNCHANGED <<Up, Inbox, Outbox, delivered, given, sent>>
  BY <1>5 DEF Up, Inbox, Received, Outbox, Frames, Bytes
<1> QED BY <1>6, <1>7, <1>8, <1>9 DEF DriverInv

(* What clearing the event does to the queue of slots. *)
LEMMA ClearQueue ==
  ASSUME DriverInv, ClearReceived, rx_slots' = rx_slots, writer' = writer
  PROVE  /\ stat_fifo' \in Seq(Entry) /\ Len(stat_fifo') <= 2
         /\ Len(stat_fifo) < 2 => Len(stat_fifo') < 2
         /\ Alternate(stat_fifo', writer.slot)
         /\ Received' = IF Received = <<>> THEN Received ELSE Tail(Received)
<1>1. /\ stat_fifo \in Seq(Entry) /\ Len(stat_fifo) <= 2 /\ writer.slot \in Slots
      /\ rx_slots \in [Slots -> Memory] /\ Alternate(stat_fifo, writer.slot)
  BY DEF DriverInv, DriverTypeOK, SlotsInv
<1>2. CASE stat_fifo = <<>>
  <2>1. stat_fifo' = stat_fifo
    BY <1>2 DEF ClearReceived
  <2>2. Len(Received) = 0 /\ Received \in Seq(Frame)
    BY <1>1, <1>2, FramesOf DEF Received
  <2>3. Received = <<>>
    BY <2>2, EmptySeq
  <2>4. Received' = Received
    BY <2>1 DEF Received, Frames, Bytes
  <2> QED BY <1>1, <2>1, <2>3, <2>4
<1>3. CASE stat_fifo # <<>>
  <2>1. stat_fifo' = Tail(stat_fifo)
    BY <1>3 DEF ClearReceived
  <2>2. /\ Tail(stat_fifo) \in Seq(Entry) /\ Len(Tail(stat_fifo)) = Len(stat_fifo) - 1
        /\ Len(stat_fifo) \in {1, 2} /\ Alternate(Tail(stat_fifo), writer.slot)
    BY <1>1, <1>3, AlternateTail
  <2>3. Received # <<>> /\ Frames(Tail(stat_fifo), rx_slots) = Tail(Received)
    BY <1>1, <1>3, FramesTail DEF Received
  <2>4. Received' = Tail(Received)
    BY <2>1, <2>3 DEF Received
  <2>5. Len(stat_fifo') <= 2 /\ (Len(stat_fifo) < 2 => Len(stat_fifo') < 2)
    <3>1. Len(stat_fifo') \in {0, 1}
      BY <2>1, <2>2
    <3> QED BY <3>1
  <2> QED BY <2>1, <2>2, <2>3, <2>4, <2>5
<1> QED BY <1>2, <1>3

LEMMA NewStep ==
  ASSUME DriverInv, new
  PROVE  /\ DriverInv' /\ UNCHANGED <<Outbox, delivered, given, sent>>
         /\ ~Up /\ Up' = TRUE /\ Inbox' = IF Inbox = <<>> THEN Inbox ELSE Tail(Inbox)
<1>1. /\ pc = "new" /\ pc' = "idle" /\ ClearReceived
      /\ UNCHANGED <<start_keeps, address>>
  BY DEF new
<1>2. UNCHANGED <<rx_slots, writer>>
  BY <1>1 DEF start_keeps, cpu_keeps
<1>3. /\ stat_fifo' \in Seq(Entry) /\ Len(stat_fifo') <= 2
      /\ (Len(stat_fifo) < 2 => Len(stat_fifo') < 2)
      /\ Alternate(stat_fifo', writer.slot)
      /\ Received' = IF Received = <<>> THEN Received ELSE Tail(Received)
  BY <1>1, <1>2, ClearQueue
<1> USE <1>1 DEF start_keeps, cpu_keeps, buffer_vars, bounds_vars
<1>4. ~HandedOver /\ ~HandedOver'
  BY DEF HandedOver
<1>5. DriverTypeOK'
  BY <1>3 DEF DriverInv, DriverTypeOK
<1>6. SlotsInv'
  BY <1>3 DEF DriverInv, SlotsInv, Alternate
<1>7. FramesInv'
  BY DEF DriverInv, FramesInv, Same
<1>8. AnswerInv'
  BY <1>4 DEF DriverInv, AnswerInv
<1>9. Inbox' = IF Inbox = <<>> THEN Inbox ELSE Tail(Inbox)
  BY <1>3, <1>4 DEF Inbox
<1>10. UNCHANGED <<Outbox, delivered, given, sent>> /\ ~Up /\ Up' = TRUE
  BY DEF Up, Outbox, Frames, Bytes
<1> QED BY <1>5, <1>6, <1>7, <1>8, <1>9, <1>10 DEF DriverInv

LEMMA ReceiveStep ==
  ASSUME DriverInv, receive
  PROVE  DriverInv' /\ UNCHANGED <<Up, Inbox, Outbox, delivered, given, sent>>
<1>1. /\ pc = "idle" /\ stat_fifo # <<>> /\ rx' = Head(stat_fifo) /\ pc' = "closure"
      /\ UNCHANGED <<receive_keeps, stat_fifo, answers, delivered>>
  BY DEF receive
<1> USE <1>1 DEF receive_keeps, cpu_keeps, buffer_vars, bounds_vars
<1>2. ~HandedOver /\ ~HandedOver'
  BY DEF HandedOver
<1>3. DriverTypeOK'
  BY DEF DriverInv, DriverTypeOK
<1>4. SlotsInv' /\ FramesInv'
  BY DEF DriverInv, SlotsInv, FramesInv, Alternate, Same, ReaderReady
<1>5. AnswerInv'
  BY <1>2 DEF DriverInv, AnswerInv
<1>6. UNCHANGED <<Up, Inbox, Outbox, delivered, given, sent>>
  BY <1>2 DEF Up, Inbox, Received, Outbox, Frames, Bytes
<1> QED BY <1>3, <1>4, <1>5, <1>6 DEF DriverInv

LEMMA ClosureStep ==
  ASSUME DriverInv, Closure
  PROVE  /\ DriverInv' /\ UNCHANGED <<Outbox, given, sent>>
         /\ Up /\ Up' = Up /\ Inbox # <<>>
         /\ delivered' = Append(delivered, Head(Inbox)) /\ Inbox' = Tail(Inbox)
<1> DEFINE frame == Bytes(rx_slots[rx.slot], rx.length)
<1>1. /\ pc = "closure" /\ delivered' = Append(delivered, frame)
      /\ answers' \in BOOLEAN /\ pc' = (IF answers' THEN "ready" ELSE "clear")
      /\ UNCHANGED <<receive_keeps, stat_fifo, rx>>
  BY DEF Closure
<1>2. /\ stat_fifo \in Seq(Entry) /\ rx_slots \in [Slots -> Memory]
      /\ stat_fifo # <<>> /\ rx = Head(stat_fifo) /\ delivered \in Seq(Frame)
  BY <1>1 DEF DriverInv, DriverTypeOK, AnswerInv
<1>3. Received # <<>> /\ Head(Received) = frame
  BY <1>2, FramesTail DEF Received
<1>4. frame \in Frame
  <2>1. rx \in Entry
    BY <1>2, HeadTailProperties
  <2>2. rx_slots[rx.slot] \in Memory /\ rx.length \in 1..SlotBytes
    BY <1>2, <2>1 DEF Entry
  <2> QED BY <2>2, BytesOfSlot
<1>5. /\ delivered' \in Seq(Frame) /\ delivered' # <<>>
      /\ delivered'[Len(delivered')] = frame
  <2> HIDE DEF frame
  <2> QED BY <1>1, <1>2, <1>4, AppendProperties
<1> USE <1>1 DEF receive_keeps, cpu_keeps, buffer_vars, bounds_vars
<1>6. ~HandedOver /\ HandedOver'
  BY DEF HandedOver
<1>7. DriverTypeOK'
  BY <1>5 DEF DriverInv, DriverTypeOK
<1>8. SlotsInv' /\ FramesInv'
  BY DEF DriverInv, SlotsInv, FramesInv, Alternate, Same, ReaderReady
<1>9. AnswerInv'
  BY <1>2, <1>5 DEF AnswerInv
<1>10. Received' = Received
  BY DEF Received, Frames, Bytes
<1>11. Inbox = Received /\ Inbox' = Tail(Received)
  BY <1>6, <1>10 DEF Inbox
<1>12. UNCHANGED <<Outbox, given, sent>> /\ Up = TRUE /\ Up' = TRUE
  BY DEF Up, Outbox, Frames, Bytes
<1> QED BY <1>1, <1>3, <1>7, <1>8, <1>9, <1>11, <1>12 DEF DriverInv

LEMMA ClearStep ==
  ASSUME DriverInv, Clear
  PROVE  DriverInv' /\ UNCHANGED <<Up, Inbox, Outbox, delivered, given, sent>>
<1>1. /\ pc = "clear" /\ pc' = "idle" /\ ClearReceived /\ answers' = FALSE
      /\ UNCHANGED <<receive_keeps, rx, delivered>>
  BY DEF Clear
<1>2. UNCHANGED <<rx_slots, writer>>
  BY <1>1 DEF receive_keeps, cpu_keeps
<1>3. /\ stat_fifo' \in Seq(Entry) /\ Len(stat_fifo') <= 2
      /\ (Len(stat_fifo) < 2 => Len(stat_fifo') < 2)
      /\ Alternate(stat_fifo', writer.slot)
      /\ Received' = IF Received = <<>> THEN Received ELSE Tail(Received)
  BY <1>1, <1>2, ClearQueue
<1>4. HandedOver /\ ~HandedOver'
  BY <1>1 DEF HandedOver
<1>5. Received # <<>>
  <2>1. stat_fifo # <<>> /\ stat_fifo \in Seq(Entry) /\ rx_slots \in [Slots -> Memory]
    BY <1>4 DEF DriverInv, DriverTypeOK, AnswerInv
  <2> QED BY <2>1, FramesTail DEF Received
<1> USE <1>1 DEF receive_keeps, cpu_keeps, buffer_vars, bounds_vars
<1>6. DriverTypeOK'
  BY <1>3 DEF DriverInv, DriverTypeOK
<1>7. SlotsInv'
  BY <1>3 DEF DriverInv, SlotsInv, Alternate
<1>8. FramesInv'
  BY DEF DriverInv, FramesInv, Same
<1>9. AnswerInv'
  BY <1>4 DEF DriverInv, AnswerInv
<1>10. Inbox' = Inbox
  BY <1>3, <1>4, <1>5 DEF Inbox
<1>11. UNCHANGED <<Up, Outbox, delivered, given, sent>>
  BY DEF Up, Outbox, Frames, Bytes
<1> QED BY <1>6, <1>7, <1>8, <1>9, <1>10, <1>11 DEF DriverInv
(***************************************************************************)
(* The steps of the firmware: transmission.                                *)
(***************************************************************************)

LEMMA TransmitStep ==
  ASSUME DriverInv, transmit
  PROVE  DriverInv' /\ UNCHANGED <<Up, Inbox, Outbox, delivered, given, sent>>
<1>1. /\ pc = "idle" /\ pc' = "ready" /\ answers' = FALSE
      /\ UNCHANGED <<transmit_keeps, tx_slots, reader, cmd_fifo, buffer_vars, SLOT, given>>
  BY DEF transmit
<1> USE <1>1 DEF transmit_keeps, cpu_keeps, buffer_vars, bounds_vars
<1>2. ~HandedOver /\ ~HandedOver'
  BY DEF HandedOver
<1>3. DriverTypeOK'
  BY DEF DriverInv, DriverTypeOK
<1>4. SlotsInv' /\ FramesInv'
  BY DEF DriverInv, SlotsInv, FramesInv, Alternate, Same, ReaderReady
<1>5. AnswerInv'
  BY <1>2 DEF DriverInv, AnswerInv
<1>6. UNCHANGED <<Up, Inbox, Outbox, delivered, given, sent>>
  BY <1>2 DEF Up, Inbox, Received, Outbox, Frames, Bytes
<1> QED BY <1>3, <1>4, <1>5, <1>6 DEF DriverInv

LEMMA FillStep ==
  ASSUME DriverInv, Fill
  PROVE  DriverInv' /\ UNCHANGED <<Up, Inbox, Outbox, delivered, given, sent>>
<1>1. PICK frame \in IF answers THEN {Bytes(rx_slots[rx.slot], rx.length)} ELSE Outgoing :
        /\ len' = Len(frame)
        /\ TX_BUFFER' = [n \in 1..SlotBytes |-> IF n <= Len(frame) THEN frame[n] ELSE TX_BUFFER[n]]
  BY DEF Fill
<1>2. /\ pc = "ready" /\ ReaderReady /\ pc' = "copy" /\ i' = 0
      /\ UNCHANGED <<transmit_keeps, tx_slots, reader, cmd_fifo, answers, SLOT, given>>
  BY DEF Fill
<1>3. /\ rx_slots \in [Slots -> Memory] /\ TX_BUFFER \in Memory /\ answers \in BOOLEAN
      /\ delivered \in Seq(Frame)
  BY DEF DriverInv, DriverTypeOK
<1>4. frame \in Frame /\ frame \in IF answers THEN {delivered[Len(delivered)]} ELSE Outgoing
  <2>1. CASE answers
    <3>1. HandedOver
      BY <1>2, <2>1 DEF HandedOver
    <3>2. frame = delivered[Len(delivered)] /\ delivered # <<>>
      BY <1>1, <2>1, <3>1 DEF DriverInv, AnswerInv
    <3>3. Len(delivered) \in 1..Len(delivered)
      BY <1>3, <3>2, EmptySeq
    <3> QED BY <1>3, <2>1, <3>2, <3>3, ElementOfSeq
  <2>2. CASE ~answers
    BY <1>1, <2>2, DriverAssumption
  <2> QED BY <2>1, <2>2
<1>5. frame \in Seq(Byte) /\ Len(frame) \in 1..SlotBytes /\ \A k \in 1..Len(frame) : frame[k] \in Byte
  BY <1>4, FrameBytes
<1>6. TX_BUFFER' \in Memory
  <2>1. ASSUME NEW n \in 1..SlotBytes
        PROVE  (IF n <= Len(frame) THEN frame[n] ELSE TX_BUFFER[n]) \in Byte
    <3>1. TX_BUFFER[n] \in Byte
      BY <1>3, <2>1 DEF Memory
    <3>2. n <= Len(frame) => n \in 1..Len(frame)
      BY <1>5, <2>1
    <3> QED BY <1>5, <3>1, <3>2
  <2> QED BY <1>1, <2>1 DEF Memory
<1>7. Bytes(TX_BUFFER', len') = frame
  <2>1. Same(frame, TX_BUFFER', Len(frame))
    <3>1. ASSUME NEW n \in 1..Len(frame) PROVE frame[n] = TX_BUFFER'[n]
      <4>1. n \in 1..SlotBytes /\ n <= Len(frame)
        BY <1>5, <3>1, DriverAssumption
      <4> QED BY <1>1, <4>1
    <3> QED BY <3>1 DEF Same
  <2> QED BY <1>1, <1>5, <1>6, <2>1, FrameOfSlot
<1> USE <1>2 DEF transmit_keeps, cpu_keeps, bounds_vars
<1>8. HandedOver' = HandedOver
  BY DEF HandedOver
<1>9. DriverTypeOK'
  <2>1. len' \in 0..SlotBytes /\ i' \in 0..SlotBytes
    BY <1>1, <1>5, DriverAssumption
  <2> QED BY <1>6, <2>1 DEF DriverInv, DriverTypeOK
<1>10. SlotsInv'
  BY DEF DriverInv, SlotsInv, Alternate, ReaderReady
<1>11. FramesInv'
  BY DEF DriverInv, FramesInv, Same
<1>12. AnswerInv'
  <2>1. len' > 0
    BY <1>1, <1>5
  <2>2. Bytes(TX_BUFFER, len)' \in IF answers' THEN {delivered'[Len(delivered')]} ELSE Outgoing
    BY <1>4, <1>7 DEF Bytes
  <2>3. HandedOver' => /\ stat_fifo' # <<>> /\ rx' = Head(stat_fifo') /\ delivered' # <<>>
                       /\ delivered'[Len(delivered')] = Bytes(rx_slots'[rx'.slot], rx'.length)
    BY <1>8 DEF DriverInv, AnswerInv
  <2> QED BY <2>1, <2>2, <2>3 DEF AnswerInv, Bytes
<1>13. UNCHANGED <<Up, Inbox, Outbox, delivered, given, sent>>
  BY <1>8 DEF Up, Inbox, Received, Outbox, Frames, Bytes
<1> QED BY <1>9, <1>10, <1>11, <1>12, <1>13 DEF DriverInv

LEMMA CopyStep ==
  ASSUME DriverInv, Copy
  PROVE  DriverInv' /\ UNCHANGED <<Up, Inbox, Outbox, delivered, given, sent>>
<1> DEFINE k == i + 1
           filled == [tx_slots[SLOT] EXCEPT ![k] = TX_BUFFER[k]]
<1>1. /\ pc = "copy" /\ ~CopyEnds
      /\ tx_slots' = [tx_slots EXCEPT ![SLOT] = filled] /\ i' = k
      /\ UNCHANGED <<transmit_keeps, reader, cmd_fifo, pc, answers, TX_BUFFER, len, SLOT, given>>
  BY DEF Copy
<1>2. /\ tx_slots \in [Slots -> Memory] /\ TX_BUFFER \in Memory /\ i \in 0..SlotBytes
      /\ SlotBytes \in Nat /\ SLOT \in Slots /\ Same(TX_BUFFER, tx_slots[SLOT], i)
  BY <1>1, DriverAssumption DEF DriverInv, DriverTypeOK, FramesInv
<1>3. k \in 1..SlotBytes
  BY <1>1, <1>2 DEF CopyEnds
<1>4. /\ filled \in Memory /\ filled[k] = TX_BUFFER[k]
      /\ \A n \in 1..SlotBytes : n # k => filled[n] = tx_slots[SLOT][n]
  <2>1. tx_slots[SLOT] \in Memory
    BY <1>2
  <2> HIDE DEF k
  <2> QED BY <1>2, <1>3, <2>1 DEF Memory
<1>5. /\ tx_slots' \in [Slots -> Memory] /\ tx_slots'[SLOT] = filled
      /\ \A s \in Slots : s # SLOT => tx_slots'[s] = tx_slots[s]
  <2> HIDE DEF filled, k
  <2> QED BY <1>1, <1>2, <1>4
<1>6. Same(TX_BUFFER, filled, k)
  <2>1. ASSUME NEW n \in 1..k PROVE TX_BUFFER[n] = filled[n]
    <3>1. n \in 1..SlotBytes /\ (n # k => n \in 1..i)
      BY <1>2, <1>3, <2>1
    <3>2. n # k => TX_BUFFER[n] = tx_slots[SLOT][n]
      BY <1>2, <3>1 DEF Same
    <3> HIDE DEF k, filled
    <3> QED BY <1>4, <3>1, <3>2
  <2> QED BY <2>1 DEF Same
<1> HIDE DEF k, filled
<1>7. \A n \in DOMAIN cmd_fifo : cmd_fifo[n].slot \in Slots /\ cmd_fifo[n].slot # SLOT
  BY <1>1, SlotsOfQueue DEF Entry
<1>8. \A n \in DOMAIN cmd_fifo : tx_slots'[cmd_fifo[n].slot] = tx_slots[cmd_fifo[n].slot]
  BY <1>5, <1>7
<1>9. cmd_fifo # <<>> => tx_slots'[Head(cmd_fifo).slot] = tx_slots[Head(cmd_fifo).slot]
  BY <1>8, SlotsOfQueue
<1> USE <1>1 DEF transmit_keeps, cpu_keeps, bounds_vars
<1>10. HandedOver' = HandedOver
  BY DEF HandedOver
<1>11. DriverTypeOK'
  BY <1>3, <1>5 DEF DriverInv, DriverTypeOK
<1>12. SlotsInv'
  BY DEF DriverInv, SlotsInv, Alternate, ReaderReady
<1>13. FramesInv'
  <2>1. Same(TX_BUFFER, tx_slots[SLOT], i)'
    BY <1>5, <1>6 DEF Same
  <2> QED BY <1>9, <2>1 DEF DriverInv, FramesInv, Same
<1>14. AnswerInv'
  BY <1>10 DEF DriverInv, AnswerInv, Bytes
<1>15. Outbox' = Outbox
  BY <1>8 DEF Outbox, Frames, Bytes
<1>16. UNCHANGED <<Up, Inbox, delivered, given, sent>>
  BY <1>10 DEF Up, Inbox, Received, Frames, Bytes
<1> QED BY <1>11, <1>12, <1>13, <1>14, <1>15, <1>16 DEF DriverInv

LEMMA SetUpStep ==
  ASSUME DriverInv, SetUp
  PROVE  DriverInv' /\ UNCHANGED <<Up, Inbox, Outbox, delivered, given, sent>>
<1>1. /\ pc = "copy" /\ CopyEnds /\ pc' = "start" /\ reader' = [slot |-> SLOT, length |-> len]
      /\ UNCHANGED <<transmit_keeps, tx_slots, cmd_fifo, answers, buffer_vars, SLOT, given>>
  BY DEF SetUp
<1>2. Same(TX_BUFFER, tx_slots[SLOT], len)
  <2>1. len <= i /\ len \in Nat /\ i \in Nat
    BY <1>1, DriverAssumption DEF CopyEnds, DriverInv, DriverTypeOK
  <2> QED BY <1>1, <2>1 DEF DriverInv, FramesInv, Same
<1> USE <1>1 DEF transmit_keeps, cpu_keeps, buffer_vars, bounds_vars
<1>3. HandedOver' = HandedOver
  BY DEF HandedOver
<1>4. DriverTypeOK'
  BY DEF DriverInv, DriverTypeOK
<1>5. SlotsInv'
  BY DEF DriverInv, SlotsInv, Alternate, ReaderReady
<1>6. FramesInv'
  BY <1>2 DEF DriverInv, FramesInv, Same
<1>7. AnswerInv'
  BY <1>3 DEF DriverInv, AnswerInv, Bytes
<1>8. UNCHANGED <<Up, Inbox, Outbox, delivered, given, sent>>
  BY <1>3 DEF Up, Inbox, Received, Outbox, Frames, Bytes
<1> QED BY <1>4, <1>5, <1>6, <1>7, <1>8 DEF DriverInv

LEMMA StartStep ==
  ASSUME DriverInv, Start
  PROVE  /\ DriverInv' /\ UNCHANGED <<Up, Inbox, delivered, sent>> /\ Up
         /\ \E frame \in Outgoing \cup (IF delivered = <<>> THEN {} ELSE {delivered[Len(delivered)]}) :
              Outbox' = Append(Outbox, frame) /\ given' = Append(given, frame)
<1> DEFINE frame == Bytes(TX_BUFFER, len)
<1>1. /\ pc = "start" /\ pc' = (IF answers THEN "clear" ELSE "idle")
      /\ cmd_fifo' = (IF ReaderReady THEN Append(cmd_fifo, reader) ELSE cmd_fifo)
      /\ SLOT' = NextSlot(SLOT) /\ given' = Append(given, frame)
      /\ UNCHANGED <<transmit_keeps, tx_slots, reader, answers, buffer_vars>>
  BY DEF Start
<1>2. /\ cmd_fifo \in Seq(Entry) /\ Len(cmd_fifo) < 2 /\ Alternate(cmd_fifo, SLOT) /\ SLOT \in Slots
      /\ tx_slots \in [Slots -> Memory] /\ TX_BUFFER \in Memory /\ given \in Seq(Frame)
      /\ Same(TX_BUFFER, tx_slots[SLOT], len) /\ reader = [slot |-> SLOT, length |-> len]
      /\ len \in 1..SlotBytes
      /\ frame \in IF answers THEN {delivered[Len(delivered)]} ELSE Outgoing
  <2>1. /\ cmd_fifo \in Seq(Entry) /\ SLOT \in Slots /\ tx_slots \in [Slots -> Memory]
        /\ TX_BUFFER \in Memory /\ given \in Seq(Frame) /\ len \in 0..SlotBytes
    BY DEF DriverInv, DriverTypeOK
  <2>2. Len(cmd_fifo) < 2 /\ Alternate(cmd_fifo, SLOT)
    BY <1>1 DEF DriverInv, SlotsInv, ReaderReady
  <2>3. Same(TX_BUFFER, tx_slots[SLOT], len) /\ reader = [slot |-> SLOT, length |-> len]
    BY <1>1 DEF DriverInv, FramesInv
  <2>4. /\ len > 0
        /\ frame \in IF answers THEN {delivered[Len(delivered)]} ELSE Outgoing
    BY <1>1 DEF DriverInv, AnswerInv
  <2> HIDE DEF frame
  <2>5. len \in 1..SlotBytes
    BY <2>1, <2>4, DriverAssumption
  <2> QED BY <2>1, <2>2, <2>3, <2>4, <2>5
<1>3. reader \in Entry /\ reader.slot = SLOT /\ reader.length = len
  BY <1>2 DEF Entry
<1>4. cmd_fifo' = Append(cmd_fifo, reader)
  BY <1>1, <1>2 DEF ReaderReady
<1>5. SLOT' = 1 - SLOT
  <2>1. SLOT = 0 \/ SLOT = 1
    BY <1>2 DEF Slots
  <2>2. SLOT' = (SLOT + 1) % 2
    BY <1>1 DEF NextSlot
  <2>3. (0 + 1) % 2 = 1 /\ (1 + 1) % 2 = 0
    OBVIOUS
  <2> QED BY <2>1, <2>2, <2>3
<1>6. /\ cmd_fifo' \in Seq(Entry) /\ Len(cmd_fifo') = Len(cmd_fifo) + 1
      /\ SLOT' \in Slots /\ Alternate(cmd_fifo', SLOT')
  BY <1>2, <1>3, <1>4, <1>5, AlternateAppend
<1>7. Bytes(tx_slots[SLOT], len) = frame
  <2>1. \A n \in 1..len : TX_BUFFER[n] = tx_slots[SLOT][n]
    BY <1>2 DEF Same
  <2> QED BY <2>1 DEF Bytes
<1>8. frame \in Frame
  BY <1>2, BytesOfSlot
<1> HIDE DEF frame
<1>9. Outbox' = Append(Outbox, frame)
  <2>1. tx_slots' = tx_slots
    BY <1>1
  <2> QED BY <1>2, <1>3, <1>4, <1>7, <2>1, FramesAppend DEF Outbox
<1>10. Head(cmd_fifo') \in Entry /\ (cmd_fifo # <<>> => Head(cmd_fifo') = Head(cmd_fifo))
  <2>1. Head(cmd_fifo') = IF cmd_fifo = <<>> THEN reader ELSE Head(cmd_fifo)
    BY <1>2, <1>4, HeadTailAppend
  <2>2. cmd_fifo # <<>> => Head(cmd_fifo) \in Entry
    BY <1>2, HeadTailProperties
  <2> QED BY <1>3, <2>1, <2>2
<1> USE <1>1 DEF transmit_keeps, cpu_keeps, buffer_vars, bounds_vars
<1>11. HandedOver' = HandedOver
  <2>1. answers \in BOOLEAN
    BY DEF DriverInv, DriverTypeOK
  <2> QED BY <2>1 DEF HandedOver
<1>12. DriverTypeOK'
  <2>1. given' \in Seq(Frame)
    BY <1>2, <1>8, AppendProperties
  <2>2. Len(cmd_fifo') <= 2
    BY <1>2, <1>6, SmallLength
  <2> QED BY <1>6, <2>1, <2>2 DEF DriverInv, DriverTypeOK
<1>13. SlotsInv'
  <2>1. Alternate(cmd_fifo, SLOT)'
    BY <1>6 DEF Alternate
  <2> QED BY <2>1 DEF DriverInv, SlotsInv, Alternate
<1>14. FramesInv'
  <2>1. /\ Len(wire') <= Head(cmd_fifo').length
        /\ Same(wire', tx_slots'[Head(cmd_fifo').slot], Len(wire'))
    <3>1. CASE cmd_fifo = <<>>
      <4>1. Len(wire') = 0
        BY <3>1 DEF DriverInv, FramesInv
      <4>2. Head(cmd_fifo').length >= 0
        BY <1>10, DriverAssumption DEF Entry
      <4> QED BY <4>1, <4>2 DEF Same
    <3>2. CASE cmd_fifo # <<>>
      BY <1>10, <3>2 DEF DriverInv, FramesInv
    <3> QED BY <3>1, <3>2
  <2>2. cmd_fifo' # <<>>
    BY <1>2, <1>3, <1>4, AppendProperties
  <2> QED BY <2>1, <2>2 DEF DriverInv, FramesInv, Same
<1>15. AnswerInv'
  BY <1>11 DEF DriverInv, AnswerInv, Bytes
<1>16. UNCHANGED <<Up, Inbox, delivered, sent>> /\ Up
  BY <1>11 DEF Up, Inbox, Received, Frames, Bytes
<1>17. frame \in Outgoing \cup (IF delivered = <<>> THEN {} ELSE {delivered[Len(delivered)]})
  <2>1. answers => HandedOver
    BY DEF HandedOver
  <2>2. answers => delivered # <<>>
    BY <2>1 DEF DriverInv, AnswerInv
  <2> QED BY <1>2, <2>2
<1> QED BY <1>9, <1>12, <1>13, <1>14, <1>15, <1>16, <1>17 DEF DriverInv

(***************************************************************************)
(* The steps together, each as the step of EthernetLink it is.             *)
(***************************************************************************)

LEMMA InitLink == DriverInit => Link!Init
<1> SUFFICES ASSUME DriverInit PROVE Link!Init
  OBVIOUS
<1>1. /\ pc = "address1" /\ answers = FALSE /\ stat_fifo = <<>> /\ cmd_fifo = <<>>
      /\ delivered = <<>> /\ given = <<>> /\ sent = <<>>
  BY DEF DriverInit
<1>2. Up = FALSE
  BY <1>1 DEF Up
<1>3. ~HandedOver
  BY <1>1 DEF HandedOver
<1>4. Received = <<>> /\ Outbox = <<>>
  BY <1>1 DEF Received, Outbox, Frames
<1>5. Inbox = <<>>
  BY <1>3, <1>4 DEF Inbox
<1> QED BY <1>1, <1>2, <1>4, <1>5 DEF Link!Init

LEMMA ResetLink == Reset => Link!Restart
<1> SUFFICES ASSUME Reset PROVE Link!Restart
  OBVIOUS
<1>1. /\ pc' = "address1" /\ answers' = FALSE /\ stat_fifo' = <<>> /\ cmd_fifo' = <<>>
      /\ UNCHANGED <<delivered, given, sent>>
  BY DEF Reset
<1>2. Up' = FALSE
  BY <1>1 DEF Up
<1>3. ~HandedOver'
  BY <1>1 DEF HandedOver
<1>4. Received' = <<>> /\ Outbox' = <<>>
  BY <1>1 DEF Received, Outbox, Frames
<1>5. Inbox' = <<>>
  BY <1>3, <1>4 DEF Inbox
<1> QED BY <1>1, <1>2, <1>4, <1>5 DEF Link!Restart

LEMMA Step ==
  ASSUME DriverInv, [DriverNext]_driver_vars
  PROVE  DriverInv' /\ [Link!Next]_Link!link_vars
<1> USE DEF Link!link_vars
<1>1. CASE Reset
  BY <1>1, ResetStep, ResetLink DEF Link!Next
<1>2. CASE Arrive
  BY <1>2, ArriveStep
<1>3. CASE WriteByte
  BY <1>3, WriteByteStep
<1>4. CASE QueueReceived
  <2>1. Link!Arrive
    BY <1>4, QueueReceivedStep DEF Link!Arrive
  <2> QED BY <1>4, <2>1, QueueReceivedStep DEF Link!Next
<1>5. CASE SendByte
  BY <1>5, SendByteStep
<1>6. CASE SendEnd
  <2>1. Link!Leave
    BY <1>6, SendEndStep DEF Link!Leave
  <2> QED BY <1>6, <2>1, SendEndStep DEF Link!Next
<1>7. CASE Address
  BY <1>7, AddressStep
<1>8. CASE new
  <2>1. Link!Boot
    BY <1>8, NewStep DEF Link!Boot
  <2> QED BY <1>8, <2>1, NewStep DEF Link!Next
<1>9. CASE receive
  BY <1>9, ReceiveStep
<1>10. CASE Closure
  <2>1. Link!HandOver
    BY <1>10, ClosureStep DEF Link!HandOver
  <2> QED BY <1>10, <2>1, ClosureStep DEF Link!Next
<1>11. CASE Clear
  BY <1>11, ClearStep
<1>12. CASE transmit
  BY <1>12, TransmitStep
<1>13. CASE Fill
  BY <1>13, FillStep
<1>14. CASE Copy
  BY <1>14, CopyStep
<1>15. CASE SetUp
  BY <1>15, SetUpStep
<1>16. CASE Start
  <2>1. Link!Give
    BY <1>16, StartStep DEF Link!Give
  <2> QED BY <1>16, <2>1, StartStep DEF Link!Next
<1>17. CASE UNCHANGED driver_vars
  <2>1. /\ UNCHANGED <<address, writer, stat_fifo, rx_slots, tx_slots, reader, cmd_fifo, wire>>
        /\ UNCHANGED <<pc, rx, answers, TX_BUFFER, len, i, SLOT, delivered, given, sent>>
    BY <1>17 DEF driver_vars, buffer_vars
  <2>2. DriverTypeOK'
    BY <2>1 DEF DriverInv, DriverTypeOK
  <2>3. SlotsInv'
    BY <2>1 DEF DriverInv, SlotsInv, Alternate, ReaderReady
  <2>4. FramesInv'
    BY <2>1 DEF DriverInv, FramesInv, Same
  <2>5. HandedOver' = HandedOver /\ Up' = Up
    BY <2>1 DEF HandedOver, Up
  <2>6. AnswerInv'
    BY <2>1, <2>5 DEF DriverInv, AnswerInv, Bytes
  <2>7. Inbox' = Inbox /\ Outbox' = Outbox
    BY <2>1, <2>5 DEF Inbox, Outbox, Received, Frames, Bytes
  <2> QED BY <2>1, <2>2, <2>3, <2>4, <2>5, <2>6, <2>7 DEF DriverInv
<1> QED BY <1>1, <1>2, <1>3, <1>4, <1>5, <1>6, <1>7, <1>8, <1>9, <1>10, <1>11, <1>12, <1>13,
           <1>14, <1>15, <1>16, <1>17 DEF DriverNext, Mac, Cpu

(***************************************************************************)
(* Theorems.                                                               *)
(***************************************************************************)

(* At any access of the CPU and any byte of the MAC the slots are used in  *)
(* turn, a frame under way is so far the one in its slot, and the driver's *)
(* frame is the first of its queue, across restarts of ethernet.rs.        *)
THEOREM DriverInvariant == DriverSpec => []DriverInv
<1>1. DriverInv /\ [DriverNext]_driver_vars => DriverInv'
  BY Step
<1> QED BY InvInit, <1>1, PTL DEF DriverSpec

(* The MAC fills no slot the driver has yet to read, the driver none the   *)
(* MAC has yet to send, and no queue holds a slot twice: SLOT and the      *)
(* counters of the MAC never fall out of step, restarts included.          *)
THEOREM SlotsAreApart == DriverSpec => []SlotsApart
<1>1. DriverInv => SlotsApart
  <2> SUFFICES ASSUME DriverInv PROVE SlotsApart
    OBVIOUS
  <2>1. writer.frame # <<>> => writer.slot \notin SlotsOf(stat_fifo)
    BY SlotsOfQueue DEF SlotsOf, Entries
  <2>2. pc \in {"copy", "start"} => SLOT \notin SlotsOf(cmd_fifo)
    BY SlotsOfQueue DEF SlotsOf, Entries
  <2>3. /\ stat_fifo \in Seq(Entry) /\ Len(stat_fifo) <= 2 /\ writer.slot \in Slots
        /\ cmd_fifo \in Seq(Entry) /\ Len(cmd_fifo) <= 2 /\ SLOT \in Slots
    BY DEF DriverInv, DriverTypeOK
  <2>4. Alternate(stat_fifo, writer.slot) /\ Alternate(cmd_fifo, SLOT)
    BY DEF DriverInv, SlotsInv
  <2>5. Len(stat_fifo) = 2 => stat_fifo[1].slot # stat_fifo[2].slot
    BY <2>3, <2>4, Alternating
  <2>6. Len(cmd_fifo) = 2 => cmd_fifo[1].slot # cmd_fifo[2].slot
    BY <2>3, <2>4, Alternating
  <2> QED BY <2>1, <2>2, <2>5, <2>6 DEF SlotsApart
<1> QED BY DriverInvariant, <1>1, PTL

(* The filter of the MAC compares with the gateware's address or with the  *)
(* board's, never with half of each: the order of the two writes of        *)
(* main.rs.                                                                *)
THEOREM FilterIsWhole == DriverSpec => []FilterWhole
<1>1. DriverInv => FilterWhole
  BY DEF DriverInv, DriverTypeOK, FilterWhole
<1> QED BY DriverInvariant, <1>1, PTL

(* The driver and the MAC are the two queues of EthernetLink: each frame   *)
(* once, whole and in its turn, though byte by byte and by numbers of      *)
(* slots only, and an answer is the frame it answers.                      *)
THEOREM LinkIsImplemented == DriverSpec => ImplementsLink
<1>1. DriverInv /\ [DriverNext]_driver_vars => [Link!Next]_Link!link_vars
  BY Step
<1> QED BY InitLink, DriverInvariant, <1>1, PTL DEF DriverSpec, ImplementsLink, Link!Spec
=============================================================================
