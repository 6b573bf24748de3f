------------------------------ MODULE EthernetPath ------------------------------
(***************************************************************************)
(* The way of a packet from the Ethernet core (smoleth.py).  The stream    *)
(* splitter hands each word to the interface of the CPU and to a chain of  *)
(* filters in hardware, MAC, IP and UDP, with the Art-Net receiver at the  *)
(* end.  When the receiver accepts a packet, the invalidator cancels it on *)
(* the CPU's side.  A step is a clock; the chain is combinational, so a    *)
(* word is seen by all stages at once.                                     *)
(*                                                                         *)
(* External: the core, which offers words; the CPU's interface, which      *)
(* takes words; the depacketizers, which take the words of a header.  The  *)
(* MAC header does not end with a word, so the rest of the last word of a  *)
(* packet may come out as a word of its own, behind it (rest).             *)
(***************************************************************************)
EXTENDS Integers

CONSTANTS
  Packets,  (* What arrives: see PacketShape.                              *)
  Header,   (* Words that the four depacketizers take: 4, 5, 2, 5.         *)
  MinWords  (* length of the invalidator: 60 \div 4.                       *)

Filters == 1..3
ArtnetStage == 4
Stages == 1..4

(* Words at the splitter before stage s has its first word of data.        *)
FirstData(s) ==
  IF s = 1 THEN Header[1] ELSE
  IF s = 2 THEN Header[1] + Header[2] ELSE
  IF s = 3 THEN Header[1] + Header[2] + Header[3]
           ELSE Header[1] + Header[2] + Header[3] + Header[4]

(* refused: the stage that does not want the packet, 0 if all want it.     *)
(* rest: words that come out behind the last one.                          *)
PacketShape == [refused : 0..4, words : Nat \ {0, 1}, rest : {0, 1}]
DecidedAt(p) == IF p.refused = 0 THEN ArtnetStage ELSE p.refused

ASSUME PathAssumption ==
  /\ Header \in [Stages -> Nat \ {0}]
  /\ MinWords \in Nat \ {0} /\ MinWords < FirstData(ArtnetStage)
  /\ Packets \subseteq PacketShape
  /\ \A p \in Packets : p.words + p.rest > FirstData(DecidedAt(p))

VARIABLES
  packet, word,      (* External: at the splitter.                         *)
  already_read,      (* Of the splitter: source1 and source2.              *)
  inv_fsm,           (* State of the invalidator,                          *)
  length_counter,    (* and the words of the packet it has seen.           *)
  filter_fsm,        (* States of the filters.                             *)
  artnet_fsm,        (* State of the Art-Net receiver.                     *)
  behind,            (* External: the packet whose rest is in the MAC      *)
                     (* depacketizer, or NoPacket.                         *)
  received,          (* History: words the CPU has of its packet,          *)
  accepted_at,       (* word at which the receiver accepted the packet,    *)
  cancelled          (* and whether the CPU was told that it is invalid.   *)

splitter_vars == <<packet, word, already_read>>
hardware_vars == <<filter_fsm, artnet_fsm, behind>>
history_vars == <<received, accepted_at, cancelled>>
path_vars == <<splitter_vars, inv_fsm, length_counter, hardware_vars, history_vars>>

Arrived == [id : {0, 1}, p : Packets]
NoPacket == [id |-> 2]
SinkLast == word = packet.p.words - 1

PathInit ==
  /\ packet \in [id : {0}, p : Packets] /\ word = 0
  /\ already_read = [source1 |-> FALSE, source2 |-> FALSE]
  /\ inv_fsm = "IDLE" /\ length_counter = 0
  /\ filter_fsm = [s \in Filters |-> "IDLE"]
  /\ artnet_fsm = "IDLE"
  /\ behind = NoPacket
  /\ received = 0 /\ accepted_at = -1 /\ cancelled = FALSE

(***************************************************************************)
(* The filters.  A word goes through the filters in state RECEIVE up to    *)
(* the stage that keeps it: the depacketizer takes it for its header, or   *)
(* the filter looks at it or drops it.                                     *)
(***************************************************************************)
ChainWord == IF behind # NoPacket THEN behind.p.words ELSE word
ChainPacket == IF behind # NoPacket THEN behind ELSE packet
ChainLast == ChainWord = ChainPacket.p.words + ChainPacket.p.rest - 1

Passes(s) == s \in Filters /\ filter_fsm[s] = "RECEIVE" /\ ChainWord >= FirstData(s)
KeptAt(s) == ~Passes(s) /\ \A t \in Stages : t < s => Passes(t)
InHeader(s) == ChainWord < FirstData(s)

FilterDecides(s) ==
  /\ s \in Filters /\ KeptAt(s) /\ ~InHeader(s)
  /\ filter_fsm[s] = "IDLE"

\* Mutant: a filter does not take what it drops.
FilterDropsNot(s) == FALSE

FilterDrops(s) == s \in Filters /\ KeptAt(s) /\ filter_fsm[s] = "DROP"

(* The receiver sees a word of data, its sink is valid. *)
ArtnetData == KeptAt(ArtnetStage) /\ ~InHeader(ArtnetStage)
ValidPacket(valid) == valid /\ ArtnetData /\ artnet_fsm = "IDLE" /\ ChainPacket.p.refused = 0

(* ready of the chain; converter is the readiness of the data converter.   *)
ChainReady(converter) ==
  \/ \E s \in Stages : KeptAt(s) /\ InHeader(s)
  \/ \E s \in Filters : FilterDrops(s)
  \/ ArtnetData /\ artnet_fsm = "WAIT_TILL_DONE"
  \/ ArtnetData /\ artnet_fsm \in {"COPY_TO_RAM", "LEFT_OVER"} /\ converter

\* Mutant: a filter that received a packet goes on with the next one.
FilterStays(valid, taken) ==
  filter_fsm' = [s \in Filters |->
    IF valid /\ FilterDecides(s)
      THEN IF ChainPacket.p.refused = s THEN "DROP" ELSE "RECEIVE"
    ELSE IF taken /\ ChainLast /\ FilterDrops(s) THEN "IDLE" ELSE filter_fsm[s]]

(* A filter looks at a packet when its first word of data is there, and is *)
(* back in IDLE when the last one is gone.                                 *)
FilterTick(valid, taken) ==
  filter_fsm' = [s \in Filters |->
    IF valid /\ FilterDecides(s)
      THEN IF ChainPacket.p.refused = s THEN "DROP" ELSE "RECEIVE"
    ELSE IF taken /\ ChainLast THEN "IDLE" ELSE filter_fsm[s]]

(* The receiver (module ArtnetReceiver), without the pixels.  Bytes can be *)
(* left over behind the last word; they leave alone, or with the first     *)
(* word of data of the next packet.                                        *)
ArtnetTick(valid, taken, alone) ==
  \/ /\ artnet_fsm = "IDLE"
     /\ artnet_fsm' = IF ~(valid /\ ArtnetData) THEN "IDLE"
                      ELSE IF ValidPacket(valid) THEN "COPY_TO_RAM" ELSE "WAIT_TILL_DONE"
  \/ /\ artnet_fsm = "WAIT_TILL_DONE"
     /\ artnet_fsm' = IF taken /\ ArtnetData /\ ChainLast THEN "IDLE" ELSE artnet_fsm
  \/ /\ artnet_fsm = "COPY_TO_RAM"
     /\ artnet_fsm' \in IF taken /\ ChainLast THEN {"IDLE", "LEFT_OVER"} ELSE {artnet_fsm}
  \/ /\ artnet_fsm = "LEFT_OVER"
     /\ artnet_fsm' = IF alone \/ (valid /\ ArtnetData) THEN "IDLE" ELSE artnet_fsm

(* The rest of a packet waits in the MAC depacketizer, which takes nothing *)
(* until it is gone.                                                       *)
ChainValid(valid) == behind # NoPacket \/ (valid /\ ~already_read.source2)
Source2Ready(converter) == behind = NoPacket /\ ChainReady(converter)
RestTick(taken) ==
  behind' = IF ~taken THEN behind
            ELSE IF behind = NoPacket /\ SinkLast /\ packet.p.rest = 1 THEN packet
            ELSE NoPacket

ChainTick(valid, converter, alone) ==
  LET seen == ChainValid(valid)
      taken == seen /\ ChainReady(converter)
  IN FilterTick(seen, taken) /\ ArtnetTick(seen, taken, alone) /\ RestTick(taken)

(***************************************************************************)
(* The invalidator and the splitter; cpu is the readiness of the interface *)
(* of the CPU.                                                             *)
(***************************************************************************)
\* Mutant: a word that was read is offered again.
Source1ValidAlways(valid) == valid

Source1Valid(valid) == valid /\ ~already_read.source1

\* Mutant: the last word is taken with the invalid mark.
Source1ReadyLast(valid, cpu) ==
  IF inv_fsm \in {"IDLE", "COPY"} THEN cpu ELSE TRUE

Source1Ready(valid, cpu) ==
  \/ inv_fsm \in {"IDLE", "COPY"} /\ cpu
  \/ inv_fsm = "INVALIDATE" /\ ~(Source1Valid(valid) /\ SinkLast)
  \/ inv_fsm = "WAIT_TILL_DONE"

\* Mutant: a verdict counts however few words of the packet have come.
InvalidAtOnce(invalid) == invalid

Invalid(invalid) == invalid /\ length_counter > MinWords

Copy(invalid, read) ==
  /\ inv_fsm = "COPY"
  /\ inv_fsm' = IF read /\ SinkLast THEN "IDLE"
                ELSE IF Invalid(invalid) THEN "INVALIDATE" ELSE "COPY"
  /\ length_counter' = IF read THEN length_counter + 1 ELSE length_counter
  /\ received' = IF ~read THEN received ELSE IF SinkLast THEN 0 ELSE received + 1

InvalidatorIdle(read) ==
  /\ inv_fsm = "IDLE"
  /\ inv_fsm' = IF read THEN "COPY" ELSE "IDLE"
  /\ length_counter' = 1
  /\ received' = IF read THEN received + 1 ELSE received

Invalidate(cpu) ==
  /\ inv_fsm = "INVALIDATE"
  /\ inv_fsm' = IF cpu THEN "WAIT_TILL_DONE" ELSE inv_fsm
  /\ received' = IF cpu THEN 0 ELSE received
  /\ UNCHANGED length_counter

InvalidatorWait(read) ==
  /\ inv_fsm = "WAIT_TILL_DONE"
  /\ inv_fsm' = IF read /\ SinkLast THEN "IDLE" ELSE inv_fsm
  /\ UNCHANGED <<length_counter, received>>

InvalidatorTick(invalid, read, cpu) ==
  InvalidatorIdle(read) \/ Copy(invalid, read) \/ Invalidate(cpu) \/ InvalidatorWait(read)

SinkReady(ready1, ready2) ==
  (ready1 \/ already_read.source1) /\ (ready2 \/ already_read.source2)

SplitterTick(valid, ready1, ready2) ==
  IF valid /\ SinkReady(ready1, ready2)
    THEN /\ already_read' = [source1 |-> FALSE, source2 |-> FALSE]
         /\ IF SinkLast
              THEN packet' \in [id : {1 - packet.id}, p : Packets] /\ word' = 0
              ELSE packet' = packet /\ word' = word + 1
    ELSE /\ already_read' = [source1 |-> already_read.source1 \/ (valid /\ ready1),
                             source2 |-> already_read.source2 \/ (valid /\ ready2)]
         /\ UNCHANGED <<packet, word>>

(* What happened to the packet at the splitter. *)
HistoryTick(invalid, cpu) ==
  IF packet' # packet
    THEN accepted_at' = -1 /\ cancelled' = FALSE
    ELSE /\ accepted_at' = IF invalid /\ ChainPacket = packet THEN ChainWord ELSE accepted_at
         /\ cancelled' = (cancelled \/ (inv_fsm = "INVALIDATE" /\ cpu))

PathStep(valid, cpu, converter, alone) ==
  LET ready1 == Source1Ready(valid, cpu)
      ready2 == Source2Ready(converter)
      read == Source1Valid(valid) /\ ready1
      invalid == ValidPacket(ChainValid(valid))
  IN /\ SplitterTick(valid, ready1, ready2)
     /\ InvalidatorTick(invalid, read, cpu)
     /\ ChainTick(valid, converter, alone)
     /\ HistoryTick(invalid, cpu)

PathTick == \E valid, cpu, converter, alone \in BOOLEAN : PathStep(valid, cpu, converter, alone)

PathSpec == PathInit /\ [][PathTick]_path_vars

(* The core has words, the CPU's interface takes them, the converter has   *)
(* only one clock in four in which it takes no word.                       *)
PathLiveSpec == PathSpec /\ WF_path_vars(PathStep(TRUE, TRUE, TRUE, TRUE))

PathTypeOK ==
  /\ packet \in Arrived /\ word \in 0..(packet.p.words - 1)
  /\ already_read \in [source1 : BOOLEAN, source2 : BOOLEAN]
  /\ inv_fsm \in {"IDLE", "COPY", "INVALIDATE", "WAIT_TILL_DONE"}
  /\ length_counter \in Nat
  /\ filter_fsm \in [Filters -> {"IDLE", "RECEIVE", "DROP"}]
  /\ artnet_fsm \in {"IDLE", "WAIT_TILL_DONE", "COPY_TO_RAM", "LEFT_OVER"}
  /\ behind \in Arrived \cup {NoPacket}
  /\ received \in Nat /\ accepted_at \in -1..packet.p.words /\ cancelled \in BOOLEAN

(***************************************************************************)
(* Properties.                                                             *)
(***************************************************************************)

(* The states of the filters belong to the packet in the chain, and none   *)
(* of them has seen it before its own headers are gone.                    *)
FiltersInStep ==
  \A s \in Filters :
    filter_fsm[s] # "IDLE" =>
      /\ ChainWord >= FirstData(s)
      /\ filter_fsm[s] = "DROP" <=> ChainPacket.p.refused = s
      /\ \A t \in Filters : t < s => filter_fsm[t] = "RECEIVE"


(* What the chain still has of a packet whose last word it took: its rest, *)
(* or nothing.                                                             *)
ChainInv ==
  /\ behind # NoPacket => behind.p.rest = 1
  /\ behind = packet => SinkLast /\ already_read.source2
  /\ behind \notin {NoPacket, packet} => word = 0 /\ ~already_read.source2
  /\ behind = NoPacket /\ SinkLast /\ already_read.source2 =>
       \A s \in Filters : filter_fsm[s] = "IDLE"

PathInv == PathTypeOK /\ FiltersInStep /\ ChainInv

(* The splitter hands every word to the invalidator once and in order: the *)
(* CPU has the beginning of the packet, up to the word at the splitter.    *)
ReadBySource1 == IF already_read.source1 THEN word + 1 ELSE word
CpuInOrder ==
  /\ inv_fsm = "COPY" => received = ReadBySource1 /\ length_counter = received
  /\ inv_fsm = "IDLE" => received = 0 /\ ReadBySource1 \in {0, packet.p.words}
  /\ inv_fsm # "IDLE" => ReadBySource1 < packet.p.words
  /\ inv_fsm = "WAIT_TILL_DONE" => received = 0
  /\ inv_fsm = "INVALIDATE" => 0 < received /\ received <= ReadBySource1

(* A packet is taken from the CPU only when the hardware has accepted this *)
(* very packet, although the verdict can come when the next one is already *)
(* on its way.                                                             *)
CancelledOnlyAccepted ==
  inv_fsm \in {"INVALIDATE", "WAIT_TILL_DONE"} => accepted_at # -1

(* A packet the hardware accepts never gets to the CPU as a valid one,     *)
(* unless its first word of pixels is its last word.                       *)
AcceptedIsCancelled ==
  [][packet'.id # packet.id /\ accepted_at # -1 /\ accepted_at < packet.p.words - 1
       => cancelled]_path_vars

(* The verdict of the hardware and what becomes of it.                     *)
CancelInv ==
  /\ inv_fsm = "WAIT_TILL_DONE" => cancelled
  /\ accepted_at # -1 /\ accepted_at < packet.p.words - 1 =>
       cancelled \/ inv_fsm = "INVALIDATE"
  /\ CancelledOnlyAccepted

(* Neither half of the path stops the other for good.                      *)
PacketsPass == []<>(packet.id = 0) /\ []<>(packet.id = 1)
=============================================================================
