------------------------------- MODULE ArtnetProofs -------------------------------
(***************************************************************************)
(* Theorems about the Art-Net receiver, for packets of any size and any    *)
(* order of them, and about its queue, for all depths: what is received is *)
(* stored in its place (ReceiverInv), and half of the queue is enough      *)
(* (QueueInv).                                                             *)
(***************************************************************************)
EXTENDS ArtnetQueue, TLAPS

(* Words of a packet: all but the last one are full. *)
LEMMA WordsOfPacket ==
  ASSUME NEW arrived \in Arrived
  PROVE  /\ arrived.p.size \in Nat \ {0}
         /\ Words(arrived) \in Nat \ {0}
         /\ 4 * (Words(arrived) - 1) < arrived.p.size
         /\ arrived.p.size <= 4 * Words(arrived)
<1>1. arrived.p.size \in Nat \ {0}
  BY ReceiverAssumption DEF Arrived, PacketShape
<1> DEFINE n == arrived.p.size
<1>2. n \in Nat \ {0} /\ Words(arrived) = (n + 3) \div 4
  BY <1>1 DEF Words
<1> HIDE DEF n
<1>3. /\ (n + 3) \div 4 \in Nat \ {0}
      /\ 4 * ((n + 3) \div 4 - 1) < n
      /\ n <= 4 * ((n + 3) \div 4)
  BY <1>2
<1> QED BY <1>2, <1>3 DEF n

(* One or two bytes left over behind the last word leave few sizes. *)
LEMMA LeftOverSizes ==
  ASSUME NEW n \in Nat, NEW w \in Nat, NEW e \in Nat, NEW c \in {1, 2},
         4 * w = 3 * e + c, 3 * e < n, n <= 4 * w
  PROVE  n % 12 \in {4, 7, 8}
<1>1. CASE c = 1
  <2>1. PICK k \in Nat : w = 3 * k + 1
    <3>1. w % 3 = 1
      BY <1>1
    <3>2. w = 3 * (w \div 3) + 1 /\ w \div 3 \in Nat
      BY <3>1
    <3> QED BY <3>2
  <2>2. n = 12 * k + 4
    BY <1>1, <2>1
  <2> QED BY <2>2
<1>2. CASE c = 2
  <2>1. PICK k \in Nat : w = 3 * k + 2
    <3>1. w % 3 = 2
      BY <1>2
    <3>2. w = 3 * (w \div 3) + 2 /\ w \div 3 \in Nat
      BY <3>1
    <3> QED BY <3>2
  <2>2. n = 12 * k + 7 \/ n = 12 * k + 8
    BY <1>2, <2>1
  <2> QED BY <2>2
<1> QED BY <1>1, <1>2

(* What the converter has in its hands while a packet is copied: the next  *)
(* bytes of the packet, as far as they are not past its last word.         *)
LEMMA NextBytes ==
  ASSUME ReceiverInv, fsm = "COPY_TO_RAM", NEW i \in 0..2, 3 * emitted + i < CopiedSize
  PROVE  OutByte(i) = [from |-> copied, index |-> 4 * first + 3 * emitted + i]
<1>1. /\ copied \in Arrived /\ word \in Int /\ first \in {0, 1}
      /\ conv_fsm \in 0..3 /\ emitted \in Nat /\ Words(copied) \in Nat
      /\ copied.p.size \in Nat /\ copied.p.size <= 4 * Words(copied)
  <2>1. copied \in Arrived /\ packet \in Arrived
    BY DEF ReceiverInv, ReceiverTypeOK
  <2> QED BY <2>1, WordsOfPacket DEF ReceiverInv, ReceiverTypeOK
<1>2. CASE InsidePacket
  <2>1. CASE FromDelayed(i)
    <3>1. sink_d = Word(copied, word - 1) /\ 4 * (word - first) = 3 * emitted + conv_fsm
      BY <1>1, <1>2, <2>1 DEF InsidePacket, FromDelayed
    <3>2. OutByte(i) = [from |-> copied, index |-> 4 * (word - 1) + (4 - conv_fsm + i)]
      BY <2>1, <3>1 DEF OutByte, Byte, Word
    <3>3. 4 * (word - 1) + (4 - conv_fsm + i) = 4 * first + 3 * emitted + i
      BY <1>1, <3>1
    <3> QED BY <3>2, <3>3
  <2>2. CASE ~FromDelayed(i)
    <3>1. OutByte(i) = [from |-> copied, index |-> 4 * word + (i - conv_fsm)]
      BY <1>2, <2>2 DEF OutByte, Byte, SinkWord, Word, InsidePacket
    <3>2. 4 * word + (i - conv_fsm) = 4 * first + 3 * emitted + i
      BY <1>1, <1>2 DEF InsidePacket
    <3> QED BY <3>1, <3>2
  <2> QED BY <2>1, <2>2
<1>3. CASE BehindPacket
  <2>1. FromDelayed(i)
    BY <1>1, <1>3 DEF BehindPacket, CopiedSize, FromDelayed
  <2>2. OutByte(i) = [from |-> copied, index |-> 4 * (Words(copied) - 1) + (4 - conv_fsm + i)]
    BY <1>3, <2>1 DEF BehindPacket, OutByte, Byte, Word
  <2>3. 4 * (Words(copied) - 1) + (4 - conv_fsm + i) = 4 * first + 3 * emitted + i
    BY <1>1, <1>3 DEF BehindPacket
  <2> QED BY <2>2, <2>3
<1> QED BY <1>2, <1>3 DEF ReceiverInv, CopyInv

(* The receiver sees the end of a packet with its last pixel, not earlier  *)
(* and not later, wherever its last byte is.                               *)
LEMMA LastPixel ==
  ASSUME ReceiverInv, fsm = "COPY_TO_RAM"
  PROVE  SourceLast <=> CopiedSize <= 3 * emitted + 3
<1> DEFINE LastAt(i) == IF FromDelayed(i) THEN LastBe(sink_d, 4 - conv_fsm + i)
                                          ELSE LastBe(SinkWord, i - conv_fsm)
           n == copied.p.size
           o == 4 * first + 3 * emitted
<1>1. /\ copied \in Arrived /\ word \in Nat /\ first \in {0, 1}
      /\ conv_fsm \in 0..3 /\ emitted \in Nat
      /\ Words(copied) \in Nat \ {0}
      /\ n \in Nat /\ n <= 4 * Words(copied)
  <2>1. copied \in Arrived /\ packet \in Arrived
    BY DEF ReceiverInv, ReceiverTypeOK
  <2> QED BY <2>1, WordsOfPacket DEF ReceiverInv, ReceiverTypeOK
<1>2. 3 * emitted < n - 4 * first
  BY DEF ReceiverInv, CopyInv, CopiedSize
<1>3. \A number \in Nat, b \in 0..3 :
        LastBe(Word(copied, number), b) <=> 4 * number + b = n - 1
  BY DEF LastBe, Word, NoWord
<1>4. CASE InsidePacket
  <2>1. \A i \in 0..2 : LastAt(i) <=> o + i = n - 1
    <3>1. TAKE i \in 0..2
    <3>2. CASE FromDelayed(i)
      <4>1. sink_d = Word(copied, word - 1) /\ 4 * (word - first) = 3 * emitted + conv_fsm
        BY <1>1, <1>4, <3>2 DEF InsidePacket, FromDelayed
      <4>2. word - 1 \in Nat /\ 4 - conv_fsm + i \in 0..3
        BY <1>1, <3>2, <4>1 DEF FromDelayed
      <4>3. LastAt(i) <=> 4 * (word - 1) + (4 - conv_fsm + i) = n - 1
        BY <1>3, <3>2, <4>1, <4>2
      <4> QED BY <1>1, <4>1, <4>3
    <3>3. CASE ~FromDelayed(i)
      <4>1. SinkWord = Word(copied, word) /\ 4 * (word - first) = 3 * emitted + conv_fsm
        BY <1>4 DEF InsidePacket, SinkWord
      <4>2. i - conv_fsm \in 0..3
        BY <1>1, <3>3 DEF FromDelayed
      <4>3. LastAt(i) <=> 4 * word + (i - conv_fsm) = n - 1
        BY <1>1, <1>3, <3>3, <4>1, <4>2
      <4> QED BY <1>1, <4>1, <4>3
    <3> QED BY <3>2, <3>3
  <2>2. SourceLast <=> \E i \in 0..2 : o + i = n - 1
    BY <2>1 DEF SourceLast
  <2>3. (\E i \in 0..2 : o + i = n - 1) <=> n - 4 * first <= 3 * emitted + 3
    <3>1. ASSUME n - 4 * first <= 3 * emitted + 3
          PROVE  n - 1 - o \in 0..2 /\ o + (n - 1 - o) = n - 1
      BY <1>1, <1>2, <3>1
    <3>2. ASSUME NEW i \in 0..2, o + i = n - 1
          PROVE  n - 4 * first <= 3 * emitted + 3
      BY <1>1, <3>2
    <3> QED BY <3>1, <3>2
  <2> QED BY <2>2, <2>3 DEF CopiedSize
<1>5. CASE BehindPacket
  <2>1. 4 * (Words(copied) - first) = 3 * emitted + conv_fsm
        /\ sink_d = Word(copied, Words(copied) - 1)
    BY <1>5 DEF BehindPacket
  <2> DEFINE i == n - 1 - o
  <2>2. i \in 0..2 /\ i < conv_fsm /\ n - 4 * first <= 3 * emitted + 3
    BY <1>1, <1>2, <2>1
  <2>3. 4 - conv_fsm + i \in 0..3 /\ 4 * (Words(copied) - 1) + (4 - conv_fsm + i) = n - 1
    <3> DEFINE w == Words(copied)
    <3>1. w \in Nat /\ n \in Nat /\ 4 * (w - first) = 3 * emitted + conv_fsm
      BY <1>1, <2>1
    <3> HIDE DEF w, n
    <3>2. 4 - conv_fsm + i \in 0..3
      BY <1>1, <2>2, <3>1
    <3>3. 4 * (w - 1) + (4 - conv_fsm + i) = n - 1
      BY <1>1, <3>1
    <3> QED BY <3>2, <3>3 DEF w
  <2> HIDE DEF i, n
  <2>4. LastAt(i)
    BY <1>1, <1>3, <2>1, <2>2, <2>3 DEF FromDelayed
  <2>5. SourceLast
    BY <2>2, <2>4 DEF SourceLast
  <2> QED BY <2>2, <2>5 DEF CopiedSize, n
<1> QED BY <1>4, <1>5 DEF ReceiverInv, CopyInv

(* A word is taken: the next word of the packet, or the first of another. *)
LEMMA WordTaken ==
  ASSUME ReceiverTypeOK, TakeWord
  PROVE  /\ packet' \in Arrived /\ word' \in 0..(Words(packet') - 1)
         /\ SinkLast => packet'.id # packet.id /\ word' = 0
         /\ ~SinkLast => packet' = packet /\ word' = word + 1
<1>1. packet \in Arrived /\ word \in 0..(Words(packet) - 1) /\ Words(packet) \in Nat \ {0}
  BY WordsOfPacket DEF ReceiverTypeOK
<1>2. CASE SinkLast
  <2>1. packet' \in [id : {1 - packet.id}, p : Packets] /\ word' = 0
    BY <1>2 DEF TakeWord
  <2>2. packet.id \in {0, 1}
    BY <1>1 DEF Arrived
  <2>3. packet' \in Arrived /\ packet'.id # packet.id
    BY <2>1, <2>2 DEF Arrived
  <2>4. Words(packet') \in Nat \ {0}
    BY <2>3, WordsOfPacket
  <2> QED BY <1>2, <2>1, <2>3, <2>4
<1>3. CASE ~SinkLast
  BY <1>1, <1>3 DEF TakeWord, SinkLast
<1> QED BY <1>2, <1>3

LEMMA ReceiverStarts == ReceiverInit => ReceiverInv
<1> SUFFICES ASSUME ReceiverInit PROVE ReceiverInv
  OBVIOUS
<1>1. packet \in Arrived
  BY DEF ReceiverInit, Arrived
<1>2. Words(packet) \in Nat \ {0}
  BY <1>1, WordsOfPacket
<1>3. ReceiverTypeOK
  BY <1>1, <1>2, ReceiverAssumption DEF ReceiverInit, ReceiverTypeOK
<1> QED BY <1>3 DEF ReceiverInit, ReceiverInv, HeaderAtStart, CopyInv

LEMMA IdleKeeps ==
  ASSUME ReceiverInv, NEW valid \in BOOLEAN, Idle(valid)
  PROVE  ReceiverInv'
<1>1. ReceiverTypeOK
  BY DEF ReceiverInv
<1>2. /\ packet' = packet /\ word' = word /\ packet \in Arrived
      /\ conv_fsm' = 0 /\ sink_d' = NoWord /\ data_counter' = 0 /\ emitted' = 0
  BY <1>1 DEF Idle, input_vars, ConverterReset, ReceiverTypeOK
<1>3. /\ packet.p.size \in Nat \ {0} /\ Words(packet) \in Nat \ {0}
      /\ 4 * (Words(packet) - 1) < packet.p.size
      /\ word \in 0..(Words(packet) - 1) /\ word \in {0, 1}
  BY <1>1, <1>2, WordsOfPacket DEF ReceiverInv, ReceiverTypeOK, HeaderAtStart, Idle
<1>4. 0 \in 0..(CounterSize - 1) /\ 0 % CounterSize = 0
  BY ReceiverAssumption
<1>5. CASE ~valid /\ UNCHANGED <<fsm, ram_offset, copied, first>>
  <2>1. ReceiverTypeOK'
    BY <1>1, <1>2, <1>3, <1>4, <1>5 DEF ReceiverTypeOK
  <2> QED BY <1>2, <1>5, <2>1
          DEF ReceiverInv, HeaderAtStart, TakesForeignWord, CopiedSize, CopyInv, Idle
<1>6. CASE /\ valid /\ Accepts(packet.p)
           /\ fsm' = "COPY_TO_RAM"
           /\ ram_offset' = packet.p.universe * PerUniverse
           /\ copied' = packet /\ first' = word
  <2>1. packet.p.universe \in 0..(MaxUniverse - 1)
    BY <1>2, <1>6, ReceiverAssumption DEF Accepts, Arrived, PacketShape
  <2>2. ReceiverTypeOK'
    BY <1>1, <1>2, <1>3, <1>4, <1>6, <2>1 DEF ReceiverTypeOK
  <2>3. 3 * emitted' < CopiedSize'
    BY <1>2, <1>3, <1>6 DEF CopiedSize
  <2>4. InsidePacket'
    BY <1>2, <1>3, <1>6 DEF InsidePacket
  <2>5. CopyInv'
    BY <1>2, <1>4, <1>6, <2>3, <2>4 DEF CopyInv, Accepts
  <2> QED BY <1>6, <2>2, <2>5 DEF ReceiverInv, HeaderAtStart
<1>7. CASE valid /\ fsm' = "WAIT_TILL_DONE" /\ UNCHANGED <<ram_offset, copied, first>>
  <2>1. ReceiverTypeOK'
    BY <1>1, <1>2, <1>3, <1>4, <1>7 DEF ReceiverTypeOK
  <2> QED BY <1>7, <2>1 DEF ReceiverInv, HeaderAtStart, CopyInv
<1> QED BY <1>5, <1>6, <1>7 DEF Idle

LEMMA WaitTillDoneKeeps ==
  ASSUME ReceiverInv, NEW valid \in BOOLEAN, WaitTillDone(valid)
  PROVE  ReceiverInv'
<1>1. ReceiverTypeOK /\ TakeWord
  BY DEF ReceiverInv, WaitTillDone
<1>2. /\ fsm = "WAIT_TILL_DONE" /\ fsm' = IF SinkLast THEN "IDLE" ELSE fsm
      /\ UNCHANGED <<ram_offset, data_counter, conv_fsm, sink_d, copied, first, emitted>>
  BY DEF WaitTillDone, converter_vars, copy_vars
<1>3. ReceiverTypeOK'
  BY <1>1, <1>2, WordTaken DEF ReceiverTypeOK, Words
<1>4. HeaderAtStart'
  BY <1>1, <1>2, WordTaken DEF HeaderAtStart
<1> QED BY <1>2, <1>3, <1>4 DEF ReceiverInv, CopyInv

(* The packet behind gives a word away only if bytes are left over.        *)
LEMMA ForeignWord ==
  ASSUME ReceiverInv, fsm = "COPY_TO_RAM", BehindPacket
  PROVE  CopiedSize <= 3 * emitted + 3 /\ (conv_fsm # 3 => TakesForeignWord)
<1> DEFINE w == Words(copied) - first
           n == CopiedSize
<1>1. /\ copied.p.size \in Nat \ {0} /\ Words(copied) \in Nat \ {0}
      /\ copied.p.size <= 4 * Words(copied)
      /\ first \in {0, 1} /\ conv_fsm \in 1..3 /\ emitted \in Nat
  <2>1. copied \in Arrived
    BY DEF ReceiverInv, ReceiverTypeOK
  <2> QED BY <2>1, WordsOfPacket DEF ReceiverInv, ReceiverTypeOK, BehindPacket
<1>2. 4 * w = 3 * emitted + conv_fsm /\ 3 * emitted < n
  BY DEF ReceiverInv, CopyInv, BehindPacket
<1>3. w \in Nat /\ n \in Nat /\ n <= 4 * w
  BY <1>1, <1>2 DEF CopiedSize
<1> HIDE DEF w, n
<1>4. n <= 3 * emitted + 3
  BY <1>1, <1>2, <1>3
<1>5. ASSUME conv_fsm # 3 PROVE n % 12 \in {4, 7, 8}
  <2>1. conv_fsm \in {1, 2}
    BY <1>1, <1>5
  <2> QED BY <1>1, <1>2, <1>3, <2>1, LeftOverSizes
<1> QED BY <1>4, <1>5 DEF n, TakesForeignWord

(* Counting and wrapping go together. *)
LEMMA CountOn ==
  ASSUME NEW d \in Nat, d > 0, NEW n \in Nat
  PROVE  (n + 1) % d = ((n % d) + 1) % d
<1> DEFINE x == n \div d
           y == (n + 1) \div d
           r == n % d
           s == (n + 1) % d
<1>1. /\ x \in Nat /\ y \in Nat /\ r \in 0..(d - 1) /\ s \in 0..(d - 1)
      /\ n = d * x + r /\ n + 1 = d * y + s
  OBVIOUS
<1>2. (r + 1 < d => (r + 1) % d = r + 1) /\ (r + 1 = d => (r + 1) % d = 0)
  BY <1>1
<1> HIDE DEF x, y, r, s
<1>3. /\ d * (y - x) = r + 1 - s /\ d * (y - x) \in Int
  <2>1. d * (y - x) = d * y - d * x /\ d * y \in Int /\ d * x \in Int
    BY <1>1
  <2> QED BY <1>1, <2>1
<1>4. y - x > -1
  <2>1. SUFFICES ASSUME y - x <= -1 PROVE FALSE
    BY <1>1
  <2>2. d * (y - x) <= -d
    BY <1>1, <2>1
  <2> QED BY <1>1, <1>3, <2>2
<1>5. y - x < 2
  <2>1. SUFFICES ASSUME y - x >= 2 PROVE FALSE
    BY <1>1
  <2>2. d * (y - x) >= d * 2
    BY <1>1, <2>1
  <2> QED BY <1>1, <1>3, <2>2
<1>6. y - x = 0 \/ y - x = 1
  BY <1>1, <1>4, <1>5
<1>7. (y - x = 0 => s = r + 1) /\ (y - x = 1 => s = r + 1 - d)
  BY <1>1, <1>3
<1>8. s = (r + 1) % d
  BY <1>1, <1>2, <1>6, <1>7
<1> QED BY <1>8 DEF r, s

(* The counter follows the pixels that were put out, and wraps. *)
LEMMA CounterFollows ==
  ASSUME emitted \in Nat, data_counter = emitted % CounterSize,
         data_counter' = (data_counter + 1) % CounterSize, emitted' = emitted + 1
  PROVE  data_counter' = emitted' % CounterSize
<1>1. CounterSize \in Nat /\ CounterSize > 0
  BY ReceiverAssumption
<1> QED BY <1>1, CountOn

LEMMA CopyToRamKeeps ==
  ASSUME ReceiverInv, NEW valid \in BOOLEAN, CopyToRam(valid)
  PROVE  ReceiverInv'
<1>1. /\ fsm = "COPY_TO_RAM"
      /\ data_counter' = (data_counter + 1) % CounterSize
      /\ emitted' = emitted + 1
      /\ fsm' = IF SourceLast THEN "IDLE" ELSE fsm
      /\ conv_fsm' = (conv_fsm + 1) % 4
      /\ UNCHANGED <<ram_offset, copied, first>>
  BY DEF CopyToRam
<1>2. \/ conv_fsm # 3 /\ TakeWord /\ sink_d' = SinkWord
      \/ conv_fsm = 3 /\ packet' = packet /\ word' = word /\ sink_d' = sink_d
  BY DEF CopyToRam, SinkReady, input_vars
<1>3. /\ ReceiverTypeOK
      /\ packet \in Arrived /\ copied \in Arrived
      /\ word \in 0..(Words(packet) - 1) /\ Words(packet) \in Nat \ {0}
      /\ first \in {0, 1} /\ conv_fsm \in 0..3 /\ emitted \in Nat
      /\ Words(copied) \in Nat \ {0} /\ copied.p.size \in Nat
      /\ 4 * (Words(copied) - 1) < copied.p.size
  <2>1. packet \in Arrived /\ copied \in Arrived
    BY DEF ReceiverInv, ReceiverTypeOK
  <2> QED BY <2>1, WordsOfPacket DEF ReceiverInv, ReceiverTypeOK
<1>4. /\ Accepts(copied.p) /\ ram_offset = copied.p.universe * PerUniverse
      /\ data_counter = emitted % CounterSize
      /\ 3 * emitted < CopiedSize
      /\ InsidePacket \/ BehindPacket
  BY <1>1 DEF ReceiverInv, CopyInv
<1>5. SourceLast <=> CopiedSize <= 3 * emitted + 3
  BY <1>1, LastPixel
<1>6. CopiedSize' = CopiedSize /\ CopiedSize = copied.p.size - 4 * first
  BY <1>1 DEF CopiedSize
<1>7. /\ packet' \in Arrived /\ word' \in 0..(Words(packet') - 1)
      /\ sink_d' # NoWord =>
           sink_d'.from \in Arrived /\ sink_d'.number \in 0..(Words(sink_d'.from) - 1)
  <2>1. CASE conv_fsm # 3 /\ TakeWord /\ sink_d' = SinkWord
    <3>1. sink_d'.from = packet /\ sink_d'.number = word
      BY <2>1 DEF SinkWord, Word
    <3> QED BY <1>3, <2>1, <3>1, WordTaken
  <2>2. CASE packet' = packet /\ word' = word /\ sink_d' = sink_d
    BY <1>3, <2>2 DEF ReceiverTypeOK
  <2> QED BY <1>2, <2>1, <2>2
<1>8. ReceiverTypeOK'
  <2>1. /\ data_counter' \in 0..(CounterSize - 1) /\ conv_fsm' \in 0..3 /\ emitted' \in Nat
    <3>1. data_counter \in Nat /\ CounterSize \in Nat \ {0}
      BY <1>3, ReceiverAssumption DEF ReceiverTypeOK
    <3> QED BY <1>1, <1>3, <3>1
  <2>2. /\ packet' \in Arrived /\ copied' \in Arrived /\ word' \in 0..(Words(packet') - 1)
    BY <1>1, <1>3, <1>7
  <2>3. /\ fsm' \in {"IDLE", "WAIT_TILL_DONE", "COPY_TO_RAM"}
        /\ ram_offset' \in {u * PerUniverse : u \in 0..(MaxUniverse - 1)} \cup {0}
        /\ first' \in {0, 1}
    BY <1>1, <1>3 DEF ReceiverTypeOK
  <2> QED BY <1>7, <2>1, <2>2, <2>3 DEF ReceiverTypeOK, Words, NoWord, Arrived
<1>9. CASE InsidePacket
  <2>1. /\ packet = copied /\ 4 * (word - first) = 3 * emitted + conv_fsm
        /\ conv_fsm # 0 => sink_d = Word(copied, word - 1)
    BY <1>9 DEF InsidePacket
  <2>2. CASE conv_fsm = 3 /\ packet' = packet /\ word' = word /\ sink_d' = sink_d
    <3>1. CopiedSize > 4 * (word - first) /\ ~SourceLast
      BY <1>3, <1>5, <1>6, <2>1, <2>2
    <3>2. fsm' = "COPY_TO_RAM" /\ conv_fsm' = 0 /\ 3 * emitted' < CopiedSize'
      BY <1>1, <1>3, <1>5, <1>6, <2>2, <3>1
    <3>3. InsidePacket'
      BY <1>1, <1>3, <2>1, <2>2, <3>2 DEF InsidePacket
    <3> QED BY <1>1, <1>3, <1>4, <1>8, <3>2, <3>3, CounterFollows
            DEF ReceiverInv, HeaderAtStart, CopyInv
  <2>3. CASE conv_fsm # 3 /\ TakeWord /\ sink_d' = SinkWord /\ ~SinkLast
    <3>1. packet' = packet /\ word' = word + 1 /\ word + 1 <= Words(copied) - 1
      BY <1>3, <2>1, <2>3, WordTaken DEF SinkLast
    <3>2. CopiedSize > 3 * emitted + 3
      BY <1>3, <1>6, <2>1, <2>3, <3>1
    <3>3. fsm' = "COPY_TO_RAM" /\ conv_fsm' = conv_fsm + 1 /\ 3 * emitted' < CopiedSize'
      BY <1>1, <1>3, <1>5, <1>6, <2>3, <3>2
    <3>4. sink_d' = Word(copied, word' - 1)
      BY <1>3, <2>1, <2>3, <3>1 DEF SinkWord
    <3>5. 4 * (word' - first') = 3 * emitted' + conv_fsm'
      BY <1>1, <1>3, <2>1, <3>1, <3>3
    <3>6. InsidePacket'
      BY <1>1, <2>1, <3>1, <3>4, <3>5 DEF InsidePacket, Word
    <3> QED BY <1>1, <1>3, <1>4, <1>8, <3>3, <3>6, CounterFollows
            DEF ReceiverInv, HeaderAtStart, CopyInv
  <2>4. CASE conv_fsm # 3 /\ TakeWord /\ sink_d' = SinkWord /\ SinkLast
    <3>1. packet' # copied' /\ word' = 0 /\ word = Words(copied) - 1
      BY <1>1, <1>3, <2>1, <2>4, WordTaken DEF SinkLast
    <3>2. CASE SourceLast
      <4>1. fsm' = "IDLE"
        BY <1>1, <3>2
      <4> QED BY <1>8, <3>1, <4>1 DEF ReceiverInv, HeaderAtStart, CopyInv
    <3>3. CASE ~SourceLast
      <4>1. fsm' = "COPY_TO_RAM" /\ conv_fsm' = conv_fsm + 1 /\ 3 * emitted' < CopiedSize'
        BY <1>1, <1>3, <1>5, <1>6, <2>4, <3>3
      <4>2. sink_d' = Word(copied, Words(copied) - 1)
        BY <2>1, <2>4, <3>1 DEF SinkWord
      <4>3. 4 * (Words(copied) - first) = 3 * emitted' + conv_fsm'
        BY <1>1, <1>3, <2>1, <3>1, <4>1
      <4>4. BehindPacket'
        BY <1>1, <1>3, <3>1, <4>1, <4>2, <4>3 DEF BehindPacket, Word, Words
      <4> QED BY <1>1, <1>3, <1>4, <1>8, <4>1, <4>4, CounterFollows
              DEF ReceiverInv, HeaderAtStart, CopyInv
    <3> QED BY <3>2, <3>3
  <2> QED BY <1>2, <2>2, <2>3, <2>4
<1>10. CASE BehindPacket
  <2>1. fsm' = "IDLE"
    BY <1>1, <1>5, <1>10, ForeignWord
  <2>2. word = 0 /\ (conv_fsm # 3 => TakesForeignWord)
    BY <1>1, <1>10, ForeignWord DEF BehindPacket
  <2>3. TakesForeignWord' = TakesForeignWord
    BY <1>6 DEF TakesForeignWord
  <2>4. word' # 0 => word' = 1 /\ conv_fsm # 3
    BY <1>2, <1>3, <2>2, WordTaken
  <2> QED BY <1>8, <2>1, <2>2, <2>3, <2>4 DEF ReceiverInv, HeaderAtStart, CopyInv
<1> QED BY <1>4, <1>9, <1>10

(* The inductive invariant of the receiver: the words taken since a header *)
(* are the bytes of the pixels put out and the bytes left over.            *)
THEOREM ReceiverInvHolds == ReceiverSpec => []ReceiverInv
<1>1. ReceiverInv /\ [ReceiverTick]_receiver_vars => ReceiverInv'
  <2>1. ASSUME ReceiverInv, ReceiverTick PROVE ReceiverInv'
    BY <2>1, IdleKeeps, WaitTillDoneKeeps, CopyToRamKeeps DEF ReceiverTick
  <2>2. ASSUME ReceiverInv, UNCHANGED receiver_vars PROVE ReceiverInv'
    BY <2>2 DEF receiver_vars, input_vars, converter_vars, copy_vars, ReceiverInv,
                ReceiverTypeOK, HeaderAtStart, CopyInv, InsidePacket, BehindPacket,
                CopiedSize, TakesForeignWord, Words
  <2> QED BY <2>1, <2>2
<1> QED BY <1>1, ReceiverStarts, PTL DEF ReceiverSpec

(* Every pixel that ArtnetReceiver puts out is made of the next bytes of   *)
(* the accepted packet and goes to the next place of its universe.         *)
THEOREM PixelsLandInPlace == ReceiverSpec => []PixelsInPlace
<1>1. ReceiverInv => PixelsInPlace
  <2> SUFFICES ASSUME ReceiverInv, fsm = "COPY_TO_RAM" PROVE PixelsInPlace
    BY DEF PixelsInPlace
  <2>1. \A i \in 0..2 : 3 * emitted + i < CopiedSize =>
          OutByte(i) = [from |-> copied, index |-> 4 * first + 3 * emitted + i]
    BY NextBytes
  <2>2. ASSUME copied.p.size <= MaxLength PROVE emitted < PerUniverse
    <3>1. copied.p.size \in Nat /\ first \in {0, 1} /\ emitted \in Nat
      BY WordsOfPacket DEF ReceiverInv, ReceiverTypeOK
    <3>2. 3 * emitted < copied.p.size - 4 * first
      BY DEF ReceiverInv, CopyInv, CopiedSize
    <3> QED BY <2>2, <3>1, <3>2, ReceiverAssumption DEF MaxLength
  <2>3. PixelAddress = copied.p.universe * PerUniverse + (emitted % CounterSize)
    BY DEF PixelAddress, ReceiverInv, CopyInv
  <2> QED BY <2>1, <2>2, <2>3 DEF PixelsInPlace
<1> QED BY <1>1, ReceiverInvHolds, PTL

(* ArtnetReceiver reads a header at the first word of a packet, or at the  *)
(* second one if the pixels of the packet before took the first.           *)
THEOREM HeadersAtStart == ReceiverSpec => []HeaderAtStart
<1>1. ReceiverInv => HeaderAtStart
  BY DEF ReceiverInv
<1> QED BY <1>1, ReceiverInvHolds, PTL

(* COPY_TO_RAM copies nothing of a packet that WAIT_TILL_DONE should eat.  *)
THEOREM OnlyAccepted == ReceiverSpec => []OnlyAcceptedCopied
<1>1. ReceiverInv => OnlyAcceptedCopied
  <2> SUFFICES ASSUME ReceiverInv, fsm = "COPY_TO_RAM" PROVE OnlyAcceptedCopied
    BY DEF OnlyAcceptedCopied
  <2>1. Accepts(copied.p) /\ (InsidePacket \/ BehindPacket)
    BY DEF ReceiverInv, CopyInv
  <2>2. ASSUME packet # copied
        PROVE  word = 0 /\ conv_fsm # 0 /\ (TakesForeignWord \/ conv_fsm = 3)
    BY <2>1, <2>2, ForeignWord DEF InsidePacket, BehindPacket
  <2> QED BY <2>1, <2>2 DEF OnlyAcceptedCopied, Accepts
<1> QED BY <1>1, ReceiverInvHolds, PTL

(* source.last of the converter ends COPY_TO_RAM with the pixel that holds *)
(* the last byte of the packet.                                            *)
THEOREM WholePacketsCopied == ReceiverSpec => WholePacketCopied
<1> DEFINE Whole == fsm = "COPY_TO_RAM" /\ fsm' = "IDLE" =>
                      3 * emitted < CopiedSize /\ CopiedSize <= 3 * emitted'
<1>1. ReceiverInv /\ [ReceiverTick]_receiver_vars => [Whole]_receiver_vars
  <2> SUFFICES ASSUME ReceiverInv, ReceiverTick, fsm = "COPY_TO_RAM", fsm' = "IDLE"
               PROVE  3 * emitted < CopiedSize /\ CopiedSize <= 3 * emitted'
    OBVIOUS
  <2>1. emitted' = emitted + 1 /\ SourceLast
    BY DEF ReceiverTick, Idle, WaitTillDone, CopyToRam
  <2>2. 3 * emitted < CopiedSize /\ CopiedSize <= 3 * emitted + 3
    BY <2>1, LastPixel DEF ReceiverInv, CopyInv
  <2>3. emitted \in Nat
    BY DEF ReceiverInv, ReceiverTypeOK
  <2> QED BY <2>1, <2>2, <2>3
<1> QED BY <1>1, ReceiverInvHolds, PTL DEF ReceiverSpec, WholePacketCopied

(***************************************************************************)
(* The queue behind the receiver.                                          *)
(***************************************************************************)

(* The queue does not hold the receiver up: what is proved of ReceiverSpec *)
(* holds with the queue, too.                                              *)
THEOREM QueueKeepsReceiver == QueueSpec => ReceiverSpec
<1>1. QueueInit => ReceiverInit
  BY DEF QueueInit
<1>2. [QueueNext]_queue_vars => [ReceiverTick]_receiver_vars
  BY DEF QueueNext, QueueTick, ReceiverTick, queue_vars
<1> QED BY <1>1, <1>2, PTL DEF QueueSpec, ReceiverSpec

(* What the queue's arithmetic needs to know of its size. *)
LEMMA Sizes ==
  /\ FifoDepth \in Nat /\ Patience \in Nat
  /\ FifoDepth \div 2 \in Nat
  /\ (FifoDepth \div 2) + Patience + 1 < FifoDepth
BY QueueAssumption

(* A clock adds a pixel at most, and none once the writer has its turn.    *)
LEMMA TickKeepsInv ==
  ASSUME QueueInv, NEW valid \in BOOLEAN, NEW taken \in BOOLEAN, QueueTick(valid, taken)
  PROVE  QueueInv'
<1> DEFINE half == FifoDepth \div 2
           pixel == PixelOut(valid)
<1>1. /\ level \in Nat /\ level <= FifoDepth /\ held \in Nat /\ held <= Patience
      /\ dropped \in BOOLEAN /\ slow \in BOOLEAN
      /\ ~slow => ~dropped /\ level <= half + 1 + held
  BY Sizes DEF QueueInv
<1>2. half \in Nat /\ FifoDepth \in Nat /\ Patience \in Nat /\ half + Patience + 1 < FifoDepth
  BY Sizes
<1>3. /\ taken => level > 0
      /\ level' = IF pixel /\ level < FifoDepth THEN (IF taken THEN level - 1 ELSE level) + 1
                  ELSE IF taken THEN level - 1 ELSE level
      /\ dropped' = IF pixel THEN ~(level < FifoDepth) ELSE dropped
  BY DEF QueueTick, Queue
<1>4. /\ held' = IF ~(level > half) THEN 0 ELSE IF held < Patience THEN held + 1 ELSE held
      /\ slow' = (slow \/ (level > half /\ held = Patience /\ ~taken))
  BY DEF QueueTick, HoldOff, fifo_backlog
<1> HIDE DEF half, pixel
<1>5. level' \in 0..FifoDepth /\ held' \in 0..Patience
  BY <1>1, <1>2, <1>3, <1>4
<1>6. dropped' \in BOOLEAN /\ slow' \in BOOLEAN
  <2>1. dropped' \in BOOLEAN
    BY <1>1, <1>3, Zenon
  <2>2. slow' \in BOOLEAN
    BY <1>1, <1>4, Zenon
  <2> QED BY <2>1, <2>2
<1>7. ASSUME ~slow' PROVE ~dropped' /\ level' <= half + 1 + held'
  <2>1. ~slow /\ ~(level > half /\ held = Patience /\ ~taken)
    BY <1>4, <1>7, Zenon
  <2>2. ~dropped /\ level <= half + 1 + held
    BY <1>1, <2>1
  <2>3. level < FifoDepth
    BY <1>1, <1>2, <2>2
  <2>4. ~dropped'
    BY <1>3, <2>2, <2>3, Zenon
  <2>5. level' <= half + 1 + held'
    <3>1. CASE ~(level > half)
      BY <1>1, <1>2, <1>3, <1>4, <3>1
    <3>2. CASE level > half /\ held < Patience
      BY <1>1, <1>2, <1>3, <1>4, <2>2, <3>2
    <3>3. CASE level > half /\ held = Patience
      <4>1. taken
        BY <2>1, <3>3
      <4> QED BY <1>1, <1>2, <1>3, <1>4, <2>2, <3>3, <4>1
    <3> QED BY <1>1, <1>2, <3>1, <3>2, <3>3
  <2> QED BY <2>4, <2>5
<1> QED BY <1>5, <1>6, <1>7 DEF QueueInv, half

(* No pixel is lost as long as the memory serves the writer once the       *)
(* reader has been held off for Patience clocks (fifo_backlog).            *)
THEOREM NothingLostInTime == QueueSpec => []LossOnlyWhenSlow
<1>1. QueueInit => QueueInv
  <2> SUFFICES ASSUME QueueInit PROVE QueueInv
    OBVIOUS
  <2>1. level = 0 /\ held = 0 /\ dropped = FALSE /\ slow = FALSE
    BY DEF QueueInit
  <2>2. level \in 0..FifoDepth /\ held \in 0..Patience /\ level <= (FifoDepth \div 2) + 1 + held
    BY <2>1, Sizes
  <2>3. dropped \in BOOLEAN /\ slow \in BOOLEAN /\ ~dropped
    BY <2>1, Zenon
  <2> QED BY <2>2, <2>3 DEF QueueInv
<1>2. QueueInv /\ [QueueNext]_queue_vars => QueueInv'
  <2> SUFFICES ASSUME QueueInv, [QueueNext]_queue_vars PROVE QueueInv'
    OBVIOUS
  <2>1. CASE QueueNext
    BY <2>1, TickKeepsInv DEF QueueNext
  <2>2. CASE UNCHANGED queue_vars
    BY <2>2 DEF queue_vars, QueueInv
  <2> QED BY <2>1, <2>2
<1>3. QueueInv => LossOnlyWhenSlow
  BY DEF QueueInv, LossOnlyWhenSlow
<1> QED BY <1>1, <1>2, <1>3, PTL DEF QueueSpec
==================================================================================
