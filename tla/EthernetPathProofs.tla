--------------------------- MODULE EthernetPathProofs ---------------------------
(***************************************************************************)
(* Theorems about the Ethernet path, for headers and packets of any size.  *)
(***************************************************************************)
EXTENDS EthernetPath, TLAPS

LEMMA DataInOrder ==
  /\ \A s \in Stages : FirstData(s) \in Nat \ {0}
  /\ MinWords \in Nat \ {0} /\ MinWords < FirstData(ArtnetStage)
<1>1. \A s \in Stages : Header[s] \in Nat \ {0}
  BY PathAssumption DEF Stages
<1>2. \A s \in Stages : FirstData(s) \in Nat \ {0}
  BY <1>1 DEF FirstData, Stages
<1> QED BY <1>2, PathAssumption

LEMMA ArrivedShape ==
  ASSUME NEW arrived \in Arrived
  PROVE  /\ arrived.id \in {0, 1}
         /\ arrived.p.words \in Nat /\ arrived.p.words >= 2
         /\ arrived.p.rest \in {0, 1}
         /\ arrived # NoPacket
<1>1. arrived.id \in {0, 1} /\ arrived.p \in PacketShape
  BY PathAssumption DEF Arrived
<1>2. arrived # NoPacket
  BY <1>1 DEF NoPacket
<1> QED BY <1>1, <1>2 DEF PacketShape

(* The chain is at the packet of the splitter, or at the rest of one that  *)
(* may have left it.                                                       *)
LEMMA ChainTyped ==
  ASSUME PathTypeOK
  PROVE  /\ ChainWord \in Nat /\ ChainPacket \in Arrived
         /\ ChainPacket = packet => ChainWord \in 0..packet.p.words
<1>1. packet \in Arrived /\ word \in 0..(packet.p.words - 1) /\ behind \in Arrived \cup {NoPacket}
  BY DEF PathTypeOK
<1>2. packet.p.words \in Nat
  BY <1>1, ArrivedShape
<1>3. CASE behind = NoPacket
  BY <1>1, <1>2, <1>3 DEF ChainWord, ChainPacket
<1>4. CASE behind # NoPacket
  <2>1. behind.p.words \in Nat /\ behind \in Arrived
    BY <1>1, <1>4, ArrivedShape
  <2> QED BY <1>2, <1>4, <2>1 DEF ChainWord, ChainPacket
<1> QED BY <1>3, <1>4

(* A clock of the splitter.  It goes on when both have read the word, and  *)
(* each reads it once.                                                     *)
LEMMA SplitterMoves ==
  ASSUME PathTypeOK, NEW valid \in BOOLEAN, NEW ready1, NEW ready2,
         SplitterTick(valid, ready1, ready2)
  PROVE  LET read == Source1Valid(valid) /\ ready1 IN
         /\ packet' \in Arrived /\ word' \in 0..(packet'.p.words - 1)
         /\ already_read' \in [source1 : BOOLEAN, source2 : BOOLEAN]
         /\ read => ~already_read.source1
         /\ packet' = packet =>
              ReadBySource1' = IF read THEN ReadBySource1 + 1 ELSE ReadBySource1
         /\ packet' # packet =>
              /\ packet'.id # packet.id /\ SinkLast
              /\ ReadBySource1' = 0
              /\ read \/ already_read.source1
<1> DEFINE read == Source1Valid(valid) /\ ready1
<1>1. /\ packet \in Arrived /\ word \in 0..(packet.p.words - 1)
      /\ already_read \in [source1 : BOOLEAN, source2 : BOOLEAN]
      /\ packet.p.words \in Nat /\ packet.id \in {0, 1}
  BY ArrivedShape DEF PathTypeOK
<1>2. read => ~already_read.source1
  BY DEF Source1Valid
<1>3. CASE valid /\ SinkReady(ready1, ready2)
  <2>1. already_read' = [source1 |-> FALSE, source2 |-> FALSE]
    BY <1>3 DEF SplitterTick
  <2>2. read \/ already_read.source1
    BY <1>3 DEF SinkReady, Source1Valid
  <2>3. CASE SinkLast
    <3>1. packet' \in [id : {1 - packet.id}, p : Packets] /\ word' = 0
      BY <1>3, <2>3 DEF SplitterTick
    <3>2. packet' \in Arrived /\ packet'.id # packet.id
      BY <1>1, <3>1 DEF Arrived
    <3>3. packet'.p.words \in Nat /\ packet'.p.words >= 2
      BY <3>2, ArrivedShape
    <3> QED BY <1>2, <2>1, <2>2, <2>3, <3>1, <3>2, <3>3 DEF ReadBySource1
  <2>4. CASE ~SinkLast
    <3>1. packet' = packet /\ word' = word + 1
      BY <1>3, <2>4 DEF SplitterTick
    <3> QED BY <1>1, <1>2, <2>1, <2>2, <2>4, <3>1 DEF ReadBySource1, SinkLast
  <2> QED BY <2>3, <2>4
<1>4. CASE ~(valid /\ SinkReady(ready1, ready2))
  <2>1. /\ already_read' = [source1 |-> already_read.source1 \/ (valid /\ ready1),
                            source2 |-> already_read.source2 \/ (valid /\ ready2)]
        /\ packet' = packet /\ word' = word
    BY <1>4 DEF SplitterTick
  <2>2. already_read'.source1 <=> already_read.source1 \/ read
    BY <2>1 DEF Source1Valid
  <2>3. already_read' \in [source1 : BOOLEAN, source2 : BOOLEAN]
    BY <2>1
  <2> QED BY <1>1, <1>2, <2>1, <2>2, <2>3 DEF ReadBySource1
<1> QED BY <1>3, <1>4

(* The two outcomes of a clock of the splitter, on the side of the chain. *)
LEMMA SplitterGoes ==
  ASSUME PathTypeOK, NEW valid \in BOOLEAN, NEW ready1, NEW ready2,
         SplitterTick(valid, ready1, ready2), valid /\ SinkReady(ready1, ready2)
  PROVE  /\ ~already_read'.source2
         /\ SinkLast => packet' # packet /\ word' = 0
         /\ ~SinkLast => packet' = packet /\ word' = word + 1
<1>1. already_read' = [source1 |-> FALSE, source2 |-> FALSE]
  BY DEF SplitterTick
<1>2. ~already_read'.source2
  BY <1>1
<1>3. ASSUME SinkLast PROVE packet' # packet /\ word' = 0
  <2>1. packet' \in [id : {1 - packet.id}, p : Packets] /\ word' = 0
    BY <1>3 DEF SplitterTick
  <2>2. packet'.id # packet.id
    BY <2>1, ArrivedShape DEF PathTypeOK
  <2> QED BY <2>1, <2>2
<1>4. ASSUME ~SinkLast PROVE packet' = packet /\ word' = word + 1
  BY <1>4 DEF SplitterTick
<1> QED BY <1>2, <1>3, <1>4

LEMMA SplitterHolds ==
  ASSUME NEW valid \in BOOLEAN, NEW ready1, NEW ready2,
         SplitterTick(valid, ready1, ready2), ~(valid /\ SinkReady(ready1, ready2))
  PROVE  /\ packet' = packet /\ word' = word
         /\ already_read'.source2 <=> already_read.source2 \/ (valid /\ ready2)
<1>1. /\ already_read' = [source1 |-> already_read.source1 \/ (valid /\ ready1),
                          source2 |-> already_read.source2 \/ (valid /\ ready2)]
      /\ packet' = packet /\ word' = word
  BY DEF SplitterTick
<1> QED BY <1>1

LEMMA TypeKept ==
  ASSUME PathTypeOK, PathTick
  PROVE  PathTypeOK'
<1>1. PICK valid, cpu, converter, alone \in BOOLEAN : PathStep(valid, cpu, converter, alone)
  BY DEF PathTick
<1> DEFINE ready1 == Source1Ready(valid, cpu)
           ready2 == Source2Ready(converter)
           read == Source1Valid(valid) /\ ready1
           seen == ChainValid(valid)
           taken == seen /\ ChainReady(converter)
           invalid == ValidPacket(seen)
<1>2. /\ SplitterTick(valid, ready1, ready2)
      /\ InvalidatorTick(invalid, read, cpu)
      /\ FilterTick(seen, taken) /\ ArtnetTick(seen, taken, alone) /\ RestTick(taken)
      /\ HistoryTick(invalid, cpu)
  BY <1>1 DEF PathStep, ChainTick
<1> HIDE DEF ready1, ready2, read, seen, taken, invalid
<1>3. /\ packet' \in Arrived /\ word' \in 0..(packet'.p.words - 1)
      /\ already_read' \in [source1 : BOOLEAN, source2 : BOOLEAN]
  BY <1>2, SplitterMoves
<1>4. /\ inv_fsm' \in {"IDLE", "COPY", "INVALIDATE", "WAIT_TILL_DONE"}
      /\ length_counter' \in Nat /\ received' \in Nat
  BY <1>2 DEF PathTypeOK, InvalidatorTick, InvalidatorIdle, Copy, Invalidate, InvalidatorWait
<1>5. filter_fsm' \in [Filters -> {"IDLE", "RECEIVE", "DROP"}]
  BY <1>2 DEF PathTypeOK, FilterTick
<1>6. artnet_fsm' \in {"IDLE", "WAIT_TILL_DONE", "COPY_TO_RAM", "LEFT_OVER"}
  BY <1>2 DEF PathTypeOK, ArtnetTick
<1>7. behind' \in Arrived \cup {NoPacket}
  BY <1>2 DEF PathTypeOK, RestTick
<1>8. accepted_at' \in -1..packet'.p.words /\ cancelled' \in BOOLEAN
  <2>1. CASE packet' # packet
    <3>1. packet'.p.words \in Nat
      BY <1>3, ArrivedShape
    <3>2. accepted_at' = -1 /\ cancelled' = FALSE
      BY <1>2, <2>1 DEF HistoryTick
    <3>3. -1 \in -1..packet'.p.words
      BY <3>1
    <3>4. accepted_at' \in -1..packet'.p.words
      BY <3>2, <3>3
    <3> QED BY <3>2, <3>4
  <2>2. CASE packet' = packet
    <3>1. accepted_at' = IF invalid /\ ChainPacket = packet THEN ChainWord ELSE accepted_at
      BY <1>2, <2>2 DEF HistoryTick
    <3>2. accepted_at' \in -1..packet'.p.words
      <4>1. packet.p.words \in Nat /\ accepted_at \in -1..packet.p.words
        BY ArrivedShape DEF PathTypeOK
      <4> QED BY <2>2, <3>1, <4>1, ChainTyped
    <3>3. cancelled' = (cancelled \/ (inv_fsm = "INVALIDATE" /\ cpu))
      BY <1>2, <2>2 DEF HistoryTick
    <3>4. (cancelled \/ (inv_fsm = "INVALIDATE" /\ cpu)) \in BOOLEAN
      OBVIOUS
    <3>5. cancelled' \in BOOLEAN
      BY <3>3, <3>4, Zenon
    <3> QED BY <3>2, <3>5
  <2> QED BY <2>1, <2>2
<1> QED BY <1>3, <1>4, <1>5, <1>6, <1>7, <1>8 DEF PathTypeOK

(* One stage keeps the word that is in the chain. *)
LEMMA OneKeeps ==
  ASSUME NEW s \in Stages, NEW t \in Stages, KeptAt(s), KeptAt(t)
  PROVE  s = t
BY DEF KeptAt, Stages

LEMMA DecidingIsNotTaking ==
  ASSUME NEW s \in Filters, FilterDecides(s), NEW converter
  PROVE  ~ChainReady(converter)
<1>1. s \in Stages /\ KeptAt(s) /\ ~InHeader(s) /\ filter_fsm[s] = "IDLE" /\ s # ArtnetStage
  BY DEF FilterDecides, Filters, Stages, ArtnetStage
<1>2. ASSUME NEW t \in Stages, KeptAt(t) PROVE t = s
  BY <1>1, <1>2, OneKeeps
<1>3. ~ArtnetData
  BY <1>1, <1>2 DEF ArtnetData, ArtnetStage, Stages
<1>4. ~\E t \in Stages : KeptAt(t) /\ InHeader(t)
  BY <1>1, <1>2
<1>5. ~\E t \in Filters : FilterDrops(t)
  BY <1>1, <1>2 DEF FilterDrops, Filters, Stages
<1> QED BY <1>3, <1>4, <1>5 DEF ChainReady

(* Until its last word is taken, the packet stays in the chain. *)
LEMMA ChainMoves ==
  ASSUME PathTypeOK, ChainInv, NEW valid \in BOOLEAN, NEW converter \in BOOLEAN, NEW ready1,
         SplitterTick(valid, ready1, Source2Ready(converter)),
         RestTick(ChainValid(valid) /\ ChainReady(converter)),
         ~(ChainValid(valid) /\ ChainReady(converter) /\ ChainLast),
         ~(behind = NoPacket /\ SinkLast /\ already_read.source2)
  PROVE  ChainPacket' = ChainPacket /\ ChainWord' \in Nat /\ ChainWord' >= ChainWord
<1> DEFINE taken == ChainValid(valid) /\ ChainReady(converter)
<1>1. /\ packet \in Arrived /\ word \in 0..(packet.p.words - 1)
      /\ packet.p.words \in Nat /\ packet.p.rest \in {0, 1} /\ packet # NoPacket
  BY ArrivedShape DEF PathTypeOK
<1>2. CASE behind # NoPacket
  <2>1. behind.p.words \in Nat /\ behind.p.rest = 1
    BY <1>2, ArrivedShape DEF PathTypeOK, ChainInv
  <2>2. ChainLast
    BY <1>2, <2>1 DEF ChainLast, ChainWord, ChainPacket
  <2>3. behind' = behind
    BY <2>2 DEF RestTick
  <2> QED BY <1>2, <2>1, <2>3 DEF ChainWord, ChainPacket
<1>3. CASE behind = NoPacket /\ ~SinkLast
  <2>1. behind' = NoPacket
    BY <1>3 DEF RestTick
  <2>2. packet' = packet /\ word' \in {word, word + 1}
    BY <1>3 DEF SplitterTick
  <2> QED BY <1>1, <1>3, <2>1, <2>2 DEF ChainWord, ChainPacket
<1>4. CASE behind = NoPacket /\ SinkLast /\ ~already_read.source2
  <2>1. CASE taken
    <3>1. packet.p.rest = 1
      BY <1>1, <1>4, <2>1 DEF ChainLast, ChainWord, ChainPacket, SinkLast
    <3>2. behind' = packet
      BY <1>4, <2>1, <3>1 DEF RestTick
    <3> QED BY <1>1, <1>4, <3>2 DEF ChainWord, ChainPacket
  <2>2. CASE ~taken
    <3>1. behind' = NoPacket
      BY <1>4, <2>2 DEF RestTick
    <3>2. ~(valid /\ SinkReady(ready1, Source2Ready(converter)))
      BY <1>4, <2>2 DEF ChainValid, Source2Ready, SinkReady
    <3>3. packet' = packet /\ word' = word
      BY <3>2 DEF SplitterTick
    <3> QED BY <1>1, <1>4, <3>1, <3>3 DEF ChainWord, ChainPacket
  <2> QED BY <2>1, <2>2
<1> QED BY <1>2, <1>3, <1>4

LEMMA PathKept ==
  ASSUME PathInv, PathTick
  PROVE  FiltersInStep' /\ ChainInv'
<1>1. PICK valid, cpu, converter, alone \in BOOLEAN : PathStep(valid, cpu, converter, alone)
  BY DEF PathTick
<1> DEFINE ready1 == Source1Ready(valid, cpu)
           ready2 == Source2Ready(converter)
           seen == ChainValid(valid)
           taken == seen /\ ChainReady(converter)
<1>2. /\ SplitterTick(valid, ready1, ready2)
      /\ FilterTick(seen, taken) /\ RestTick(taken)
  BY <1>1 DEF PathStep, ChainTick
<1>3. PathTypeOK /\ FiltersInStep /\ ChainInv
  BY DEF PathInv
<1>4. /\ packet \in Arrived /\ packet # NoPacket /\ word \in 0..(packet.p.words - 1)
      /\ packet.p.words \in Nat /\ packet.p.rest \in {0, 1}
      /\ already_read \in [source1 : BOOLEAN, source2 : BOOLEAN]
  BY <1>3, ArrivedShape DEF PathTypeOK
<1>5. packet' \in Arrived /\ packet' # NoPacket
  BY <1>2, <1>3, SplitterMoves, ArrivedShape
<1>6. ASSUME taken, ChainLast PROVE \A s \in Filters : filter_fsm'[s] = "IDLE"
  <2>1. \A s \in Filters : ~FilterDecides(s)
    BY <1>6, DecidingIsNotTaking
  <2> HIDE DEF taken
  <2> QED BY <1>2, <1>6, <2>1 DEF FilterTick
<1>7. FiltersInStep'
  <2> SUFFICES ASSUME NEW s \in Filters, filter_fsm'[s] # "IDLE"
               PROVE  /\ ChainWord' >= FirstData(s)
                      /\ filter_fsm'[s] = "DROP" <=> ChainPacket'.p.refused = s
                      /\ \A t \in Filters : t < s => filter_fsm'[t] = "RECEIVE"
    BY DEF FiltersInStep, FirstData
  <2>1. ~(taken /\ ChainLast)
    BY <1>6
  <2>2. FirstData(s) \in Nat /\ ChainWord \in Nat
    BY <1>3, DataInOrder, ChainTyped DEF Filters, Stages
  <2>3. CASE seen /\ FilterDecides(s)
    <3>1. ~(behind = NoPacket /\ already_read.source2)
      BY <2>3 DEF ChainValid
    <3>2. ChainPacket' = ChainPacket /\ ChainWord' \in Nat /\ ChainWord' >= ChainWord
      BY <1>2, <1>3, <2>1, <3>1, ChainMoves
    <3>3. ChainWord >= FirstData(s)
      BY <2>2, <2>3 DEF FilterDecides, InHeader
    <3>4. filter_fsm'[s] = IF ChainPacket.p.refused = s THEN "DROP" ELSE "RECEIVE"
      BY <1>2, <2>3 DEF FilterTick
    <3>5. ASSUME NEW t \in Filters, t < s PROVE filter_fsm'[t] = "RECEIVE"
      <4>1. filter_fsm[t] = "RECEIVE"
        BY <2>3, <3>5 DEF FilterDecides, KeptAt, Passes, Filters, Stages
      <4> QED BY <1>2, <2>1, <4>1 DEF FilterTick, FilterDecides
    <3>6. ChainWord' >= FirstData(s)
      BY <2>2, <3>2, <3>3
    <3> QED BY <3>2, <3>4, <3>5, <3>6
  <2>4. CASE ~(seen /\ FilterDecides(s))
    <3>1. filter_fsm'[s] = filter_fsm[s] /\ filter_fsm[s] # "IDLE"
      <4> HIDE DEF taken, seen
      <4> QED BY <1>2, <2>1, <2>4 DEF FilterTick
    <3>2. /\ ChainWord >= FirstData(s)
          /\ filter_fsm[s] = "DROP" <=> ChainPacket.p.refused = s
          /\ \A t \in Filters : t < s => filter_fsm[t] = "RECEIVE"
      BY <1>3, <3>1 DEF FiltersInStep
    <3>3. ~(behind = NoPacket /\ SinkLast /\ already_read.source2)
      BY <1>3, <3>1 DEF ChainInv
    <3>4. ChainPacket' = ChainPacket /\ ChainWord' \in Nat /\ ChainWord' >= ChainWord
      BY <1>2, <1>3, <2>1, <3>3, ChainMoves
    <3>5. ASSUME NEW t \in Filters, t < s PROVE filter_fsm'[t] = "RECEIVE"
      BY <1>2, <2>1, <3>2, <3>5 DEF FilterTick, FilterDecides
    <3>6. ChainWord' >= FirstData(s)
      BY <2>2, <3>2, <3>4
    <3> QED BY <3>1, <3>2, <3>4, <3>5, <3>6
  <2> QED BY <2>3, <2>4
<1>8. ChainInv'
  <2>1. CASE behind # NoPacket
    <3>1. behind.p.rest = 1 /\ behind.p.words \in Nat
      BY <1>3, <2>1, ArrivedShape DEF ChainInv, PathTypeOK
    <3>2. ChainLast
      BY <2>1, <3>1 DEF ChainLast, ChainWord, ChainPacket
    <3>3. behind' = (IF taken THEN NoPacket ELSE behind) /\ ~ready2
      BY <1>2, <2>1, <3>2 DEF RestTick, Source2Ready
    <3>4. CASE behind = packet
      <4>1. SinkLast /\ already_read.source2
        BY <1>3, <2>1, <3>4 DEF ChainInv
      <4>2. CASE valid /\ SinkReady(ready1, ready2)
        <5>1. packet' # packet /\ word' = 0 /\ ~already_read'.source2
          BY <1>2, <1>3, <4>1, <4>2, SplitterGoes
        <5>2. behind' # packet'
          BY <1>5, <3>3, <3>4, <5>1
        <5> QED BY <2>1, <3>1, <3>3, <3>4, <5>1, <5>2 DEF ChainInv
      <4>3. CASE ~(valid /\ SinkReady(ready1, ready2))
        <5>1. packet' = packet /\ word' = word /\ already_read'.source2
          BY <1>2, <4>1, <4>3, SplitterHolds
        <5> QED BY <1>4, <1>6, <2>1, <3>1, <3>2, <3>3, <3>4, <4>1, <5>1 DEF ChainInv, SinkLast
      <4> QED BY <4>2, <4>3
    <3>5. CASE behind # packet
      <4>1. word = 0 /\ ~already_read.source2
        BY <1>3, <2>1, <3>5 DEF ChainInv
      <4>2. packet' = packet /\ word' = 0 /\ ~already_read'.source2
        <5>1. ~SinkReady(ready1, ready2)
          BY <3>3, <4>1 DEF SinkReady
        <5> QED BY <1>2, <3>3, <4>1, <5>1, SplitterHolds
      <4> QED BY <1>4, <2>1, <3>1, <3>3, <3>5, <4>2 DEF ChainInv
    <3> QED BY <3>4, <3>5
  <2>2. CASE behind = NoPacket /\ taken /\ SinkLast /\ packet.p.rest = 1
    <3>1. behind' = packet
      BY <1>2, <2>2 DEF RestTick
    <3>2. CASE packet' = packet
      <4>1. ready2 /\ valid
        BY <2>2 DEF ChainValid, Source2Ready
      <4>2. ~(valid /\ SinkReady(ready1, ready2))
        BY <1>2, <1>3, <2>2, <3>2, SplitterGoes
      <4>3. word' = word /\ already_read'.source2
        BY <1>2, <4>1, <4>2, SplitterHolds
      <4> QED BY <1>4, <2>2, <3>1, <3>2, <4>3 DEF ChainInv, SinkLast
    <3>3. CASE packet' # packet
      <4>1. word' = 0 /\ ~already_read'.source2
        BY <1>2, <1>3, <2>2, <3>3, SplitterGoes, SplitterHolds
      <4> QED BY <1>4, <2>2, <3>1, <3>3, <4>1 DEF ChainInv
    <3> QED BY <3>2, <3>3
  <2>3. CASE behind = NoPacket /\ ~(taken /\ SinkLast /\ packet.p.rest = 1)
    <3>1. behind' = NoPacket
      BY <1>2, <2>3 DEF RestTick
    <3>2. ASSUME SinkLast', already_read'.source2
          PROVE  \A s \in Filters : filter_fsm'[s] = "IDLE"
      <4>1. ~(valid /\ SinkReady(ready1, ready2))
        BY <1>2, <1>3, <3>2, SplitterGoes
      <4>2. packet' = packet /\ word' = word
            /\ (already_read.source2 \/ (valid /\ ready2))
        BY <1>2, <3>2, <4>1, SplitterHolds
      <4>3. SinkLast
        BY <3>2, <4>2 DEF SinkLast
      <4>4. CASE already_read.source2
        <5>1. \A s \in Filters : filter_fsm[s] = "IDLE"
          BY <1>3, <2>3, <4>3, <4>4 DEF ChainInv
        <5>2. ~seen
          BY <2>3, <4>4 DEF ChainValid
        <5> QED BY <1>2, <5>1, <5>2 DEF FilterTick
      <4>5. CASE ~already_read.source2
        <5>1. taken
          BY <4>2, <4>5 DEF ChainValid, Source2Ready
        <5>2. ChainLast
          BY <1>4, <2>3, <4>3, <5>1 DEF ChainLast, ChainWord, ChainPacket, SinkLast
        <5> QED BY <1>6, <5>1, <5>2
      <4> QED BY <4>4, <4>5
    <3> QED BY <1>5, <3>1, <3>2 DEF ChainInv
  <2> QED BY <2>1, <2>2, <2>3
<1> QED BY <1>7, <1>8

(* What the side of the CPU sees of a clock.                               *)
LEMMA CpuSide ==
  ASSUME PathTypeOK, PathTick
  PROVE  \E read, invalid, cpu \in BOOLEAN :
           /\ InvalidatorTick(invalid, read, cpu)
           /\ HistoryTick(invalid, cpu)
           /\ invalid => ChainWord >= FirstData(ArtnetStage)
           /\ read => ~already_read.source1
           /\ read /\ inv_fsm = "INVALIDATE" => ~SinkLast
           /\ packet' = packet =>
                ReadBySource1' = IF read THEN ReadBySource1 + 1 ELSE ReadBySource1
           /\ packet' # packet =>
                /\ packet'.id # packet.id /\ SinkLast
                /\ ReadBySource1' = 0
                /\ read \/ already_read.source1
<1>1. PICK valid, cpu, converter, alone \in BOOLEAN : PathStep(valid, cpu, converter, alone)
  BY DEF PathTick
<1> DEFINE ready1 == Source1Ready(valid, cpu)
           read == Source1Valid(valid) /\ ready1
           invalid == ValidPacket(ChainValid(valid))
<1>2. /\ SplitterTick(valid, ready1, Source2Ready(converter))
      /\ InvalidatorTick(invalid, read, cpu)
      /\ HistoryTick(invalid, cpu)
  BY <1>1 DEF PathStep
<1>3. invalid => ChainWord >= FirstData(ArtnetStage)
  <2>1. ChainWord \in Nat /\ FirstData(ArtnetStage) \in Nat
    BY ChainTyped, DataInOrder DEF ArtnetStage, Stages
  <2> QED BY <2>1 DEF ValidPacket, ArtnetData, InHeader
<1>4. read /\ inv_fsm = "INVALIDATE" => ~SinkLast
  BY DEF Source1Ready
<1>5. read \in BOOLEAN /\ invalid \in BOOLEAN
  BY DEF Source1Valid, ValidPacket
<1>6. /\ read => ~already_read.source1
      /\ packet' = packet =>
           ReadBySource1' = IF read THEN ReadBySource1 + 1 ELSE ReadBySource1
      /\ packet' # packet =>
           /\ packet'.id # packet.id /\ SinkLast
           /\ ReadBySource1' = 0
           /\ read \/ already_read.source1
  BY <1>2, SplitterMoves
<1> HIDE DEF read, invalid
<1> QED BY <1>2, <1>3, <1>4, <1>5, <1>6

CpuInv == CpuInOrder /\ CancelInv

LEMMA CpuKept ==
  ASSUME PathInv, CpuInv, PathTick
  PROVE  CpuInv' /\ (packet'.id # packet.id /\ accepted_at # -1
                        /\ accepted_at < packet.p.words - 1 => cancelled)
<1>1. PathTypeOK /\ ChainInv /\ CpuInOrder /\ CancelInv /\ CancelledOnlyAccepted
  BY DEF PathInv, CpuInv, CancelInv
<1>2. PICK read, invalid, cpu \in BOOLEAN :
        /\ InvalidatorTick(invalid, read, cpu)
        /\ HistoryTick(invalid, cpu)
        /\ invalid => ChainWord >= FirstData(ArtnetStage)
        /\ read => ~already_read.source1
        /\ read /\ inv_fsm = "INVALIDATE" => ~SinkLast
        /\ packet' = packet =>
             ReadBySource1' = IF read THEN ReadBySource1 + 1 ELSE ReadBySource1
        /\ packet' # packet =>
             /\ packet'.id # packet.id /\ SinkLast
             /\ ReadBySource1' = 0
             /\ read \/ already_read.source1
  BY <1>1, CpuSide
<1> DEFINE words == packet.p.words
           got == ReadBySource1
<1>3. /\ words \in Nat /\ words >= 2 /\ word \in 0..(words - 1)
      /\ got \in 0..words
      /\ ~already_read.source1 => got = word
      /\ already_read.source1 => got = word + 1
      /\ SinkLast <=> word = words - 1
      /\ received \in Nat /\ length_counter \in Nat
      /\ inv_fsm \in {"IDLE", "COPY", "INVALIDATE", "WAIT_TILL_DONE"}
      /\ accepted_at \in Int
  BY <1>1, ArrivedShape DEF PathTypeOK, ReadBySource1, SinkLast
<1>4. FirstData(ArtnetStage) \in Nat /\ MinWords \in Nat \ {0} /\ MinWords < FirstData(ArtnetStage)
  BY DataInOrder DEF ArtnetStage, Stages
<1>5. CASE packet' # packet
  <2>1. /\ SinkLast /\ ReadBySource1' = 0 /\ (read \/ already_read.source1)
        /\ accepted_at' = -1 /\ cancelled' = FALSE
    BY <1>2, <1>5 DEF HistoryTick
  <2>2. inv_fsm # "INVALIDATE"
    <3>1. ASSUME inv_fsm = "INVALIDATE" PROVE FALSE
      <4>1. ~read
        BY <1>2, <2>1, <3>1
      <4>2. already_read.source1
        BY <2>1, <4>1
      <4>3. got = words
        BY <1>3, <2>1, <4>2
      <4>4. got < words
        BY <1>1, <3>1 DEF CpuInOrder
      <4> QED BY <1>3, <4>3, <4>4
    <3> QED BY <3>1
  <2>3. inv_fsm' = "IDLE" /\ received' = 0
    <3>1. CASE read
      <4>1. got = word /\ got # 0 /\ got # words
        BY <1>2, <1>3, <2>1, <3>1
      <4>2. inv_fsm # "IDLE"
        BY <1>1, <4>1 DEF CpuInOrder
      <4> QED BY <1>1, <1>2, <1>3, <2>1, <2>2, <3>1, <4>2
              DEF CpuInOrder, InvalidatorTick, InvalidatorIdle, Copy, Invalidate, InvalidatorWait
    <3>2. CASE ~read
      <4>1. got = words
        <5>1. already_read.source1
          BY <2>1, <3>2
        <5> QED BY <1>3, <2>1, <5>1
      <4>2. inv_fsm = "IDLE"
        BY <1>1, <1>3, <4>1 DEF CpuInOrder
      <4> QED BY <1>1, <1>2, <3>2, <4>2
              DEF CpuInOrder, InvalidatorTick, InvalidatorIdle, Copy, Invalidate, InvalidatorWait
    <3> QED BY <3>1, <3>2
  <2>4. CpuInv'
    <3>1. CpuInOrder'
      BY <2>1, <2>3 DEF CpuInOrder
    <3>2. CancelInv'
      BY <2>1, <2>3 DEF CancelInv, CancelledOnlyAccepted
    <3> QED BY <3>1, <3>2 DEF CpuInv
  <2>5. accepted_at # -1 /\ accepted_at < packet.p.words - 1 => cancelled
    BY <1>1, <2>2 DEF CancelInv
  <2> QED BY <2>4, <2>5
<1>6. CASE packet' = packet
  <2>1. /\ ReadBySource1' = IF read THEN got + 1 ELSE got
        /\ accepted_at' = IF invalid /\ ChainPacket = packet THEN ChainWord ELSE accepted_at
        /\ cancelled' = (cancelled \/ (inv_fsm = "INVALIDATE" /\ cpu))
    BY <1>2, <1>6 DEF HistoryTick
  <2>2. read => got = word
    BY <1>2, <1>3
  <2>3. CpuInOrder'
    <3>1. CASE inv_fsm = "IDLE"
      <4>1. read => got = 0
        BY <1>1, <1>3, <2>2, <3>1 DEF CpuInOrder
      <4>2. InvalidatorIdle(read)
        BY <1>2, <3>1 DEF InvalidatorTick, Copy, Invalidate, InvalidatorWait
      <4> QED BY <1>1, <1>3, <1>6, <2>1, <3>1, <4>1, <4>2 DEF CpuInOrder, InvalidatorIdle
    <3>2. CASE inv_fsm = "COPY"
      <4>1. Copy(invalid, read)
        BY <1>2, <3>2 DEF InvalidatorTick, InvalidatorIdle, Invalidate, InvalidatorWait
      <4>2. received = got /\ length_counter = got /\ got < words
        BY <1>1, <3>2 DEF CpuInOrder
      <4>3. CASE read /\ SinkLast
        BY <1>3, <1>6, <2>1, <2>2, <4>1, <4>3 DEF CpuInOrder, Copy
      <4>4. CASE ~(read /\ SinkLast)
        <5>1. /\ received' = IF read THEN got + 1 ELSE got
              /\ length_counter' = IF read THEN got + 1 ELSE got
              /\ inv_fsm' \in {"COPY", "INVALIDATE"}
              /\ inv_fsm' = "INVALIDATE" => got > 0
          BY <1>3, <1>4, <4>1, <4>2, <4>4 DEF Copy, Invalid
        <5>2. ReadBySource1' < words
          BY <1>3, <2>1, <2>2, <4>2, <4>4
        <5> QED BY <1>3, <1>6, <2>1, <5>1, <5>2 DEF CpuInOrder
      <4> QED BY <4>3, <4>4
    <3>3. CASE inv_fsm = "INVALIDATE"
      <4>1. Invalidate(cpu)
        BY <1>2, <3>3 DEF InvalidatorTick, InvalidatorIdle, Copy, InvalidatorWait
      <4>2. 0 < received /\ received <= got /\ got < words
        BY <1>1, <3>3 DEF CpuInOrder
      <4>3. ReadBySource1' < words /\ ReadBySource1' >= got
        BY <1>2, <1>3, <2>1, <2>2, <3>3, <4>2
      <4>4. /\ inv_fsm' \in {"INVALIDATE", "WAIT_TILL_DONE"}
            /\ inv_fsm' = "INVALIDATE" => received' = received
            /\ inv_fsm' = "WAIT_TILL_DONE" => received' = 0
        BY <3>3, <4>1 DEF Invalidate
      <4>5. ReadBySource1' \in Nat
        BY <1>3, <2>1
      <4> QED BY <1>3, <1>6, <4>2, <4>3, <4>4, <4>5 DEF CpuInOrder
    <3>4. CASE inv_fsm = "WAIT_TILL_DONE"
      <4>1. InvalidatorWait(read)
        BY <1>2, <3>4 DEF InvalidatorTick, InvalidatorIdle, Copy, Invalidate
      <4>2. received = 0 /\ got < words
        BY <1>1, <3>4 DEF CpuInOrder
      <4> QED BY <1>3, <1>6, <2>1, <2>2, <3>4, <4>1, <4>2 DEF CpuInOrder, InvalidatorWait
    <3> QED BY <1>3, <3>1, <3>2, <3>3, <3>4
  <2>4. cancelled => cancelled'
    BY <2>1
  <2>5. inv_fsm = "INVALIDATE" => cancelled' \/ inv_fsm' = "INVALIDATE"
    BY <1>2, <2>1 DEF InvalidatorTick, InvalidatorIdle, Copy, Invalidate, InvalidatorWait
  <2>6. inv_fsm' = "WAIT_TILL_DONE" => cancelled'
    BY <1>1, <1>2, <2>1, <2>4
       DEF CancelInv, InvalidatorTick, InvalidatorIdle, Copy, Invalidate, InvalidatorWait
  <2>7. ChainWord \in Nat
    BY <1>1, ChainTyped
  <2>8. CancelledOnlyAccepted'
    <3>1. CASE inv_fsm \in {"INVALIDATE", "WAIT_TILL_DONE"}
      <4>1. accepted_at # -1
        BY <1>1, <3>1 DEF CancelledOnlyAccepted
      <4>2. accepted_at' # -1
        BY <2>1, <2>7, <4>1
      <4> QED BY <4>2 DEF CancelledOnlyAccepted
    <3>2. CASE inv_fsm = "IDLE"
      BY <1>2, <3>2
         DEF CancelledOnlyAccepted, InvalidatorTick, InvalidatorIdle, Copy, Invalidate, InvalidatorWait
    <3>3. CASE inv_fsm = "COPY"
      <4>1. Copy(invalid, read)
        BY <1>2, <3>3 DEF InvalidatorTick, InvalidatorIdle, Invalidate, InvalidatorWait
      <4>2. CASE Invalid(invalid)
        <5>1. invalid /\ got > MinWords
          BY <1>1, <3>3, <4>2 DEF CpuInOrder, Invalid
        <5>2. word # 0
          BY <1>3, <1>4, <5>1
        <5>3. ChainPacket = packet
          BY <1>1, <5>2 DEF ChainPacket, ChainInv
        <5>4. accepted_at' # -1
          BY <2>1, <2>7, <5>1, <5>3
        <5> QED BY <5>4 DEF CancelledOnlyAccepted
      <4>3. CASE ~Invalid(invalid)
        BY <4>1, <4>3 DEF Copy, CancelledOnlyAccepted
      <4> QED BY <4>2, <4>3
    <3> QED BY <1>3, <3>1, <3>2, <3>3
  <2>9. accepted_at' # -1 /\ accepted_at' < words - 1 => cancelled' \/ inv_fsm' = "INVALIDATE"
    <3> SUFFICES ASSUME accepted_at' # -1, accepted_at' < words - 1
                 PROVE  cancelled' \/ inv_fsm' = "INVALIDATE"
      OBVIOUS
    <3>1. CASE invalid /\ ChainPacket = packet
      <4>1. accepted_at' = ChainWord /\ ChainWord < words - 1
        BY <2>1, <3>1
      <4>2. behind = NoPacket
        <5>1. behind # NoPacket => ChainWord = packet.p.words
          BY <3>1 DEF ChainWord, ChainPacket
        <5> QED BY <1>3, <4>1, <5>1
      <4>3. word >= FirstData(ArtnetStage) /\ word < words - 1
        BY <1>2, <3>1, <4>1, <4>2 DEF ChainWord
      <4>4. ~SinkLast /\ got > MinWords /\ got < words
        BY <1>3, <1>4, <4>3
      <4>5. CASE inv_fsm = "IDLE"
        <5>1. got = 0 \/ got = words
          BY <1>1, <4>5 DEF CpuInOrder
        <5> QED BY <1>3, <1>4, <4>4, <5>1
      <4>6. CASE inv_fsm = "COPY"
        <5>1. Copy(invalid, read)
          BY <1>2, <4>6 DEF InvalidatorTick, InvalidatorIdle, Invalidate, InvalidatorWait
        <5>2. length_counter > MinWords
          BY <1>1, <4>4, <4>6 DEF CpuInOrder
        <5> QED BY <3>1, <4>4, <5>1, <5>2 DEF Copy, Invalid
      <4>7. CASE inv_fsm = "WAIT_TILL_DONE"
        BY <1>1, <2>4, <4>7 DEF CancelInv
      <4> QED BY <1>3, <2>5, <4>5, <4>6, <4>7
    <3>2. CASE ~(invalid /\ ChainPacket = packet)
      <4>1. accepted_at' = accepted_at
        BY <2>1, <3>2
      <4> QED BY <1>1, <2>4, <2>5, <4>1 DEF CancelInv
    <3> QED BY <3>1, <3>2
  <2>10. CancelInv'
    BY <1>6, <2>6, <2>8, <2>9 DEF CancelInv
  <2> QED BY <1>6, <2>3, <2>10 DEF CpuInv
<1> QED BY <1>5, <1>6

LEMMA PathStarts == PathInit => PathInv /\ CpuInv
<1> SUFFICES ASSUME PathInit PROVE PathInv /\ CpuInv
  OBVIOUS
<1>1. packet \in Arrived
  BY DEF PathInit, Arrived
<1>2. packet.p.words \in Nat /\ packet.p.words >= 2
  BY <1>1, ArrivedShape
<1>3. PathTypeOK
  <2>1. accepted_at \in -1..packet.p.words /\ word \in 0..(packet.p.words - 1)
    BY <1>2 DEF PathInit
  <2> QED BY <1>1, <2>1 DEF PathInit, PathTypeOK
<1>4. FiltersInStep
  BY DEF PathInit, FiltersInStep
<1>5. ChainInv
  BY <1>1, ArrivedShape DEF PathInit, ChainInv
<1>6. CpuInOrder
  BY DEF PathInit, CpuInOrder, ReadBySource1
<1>7. CancelInv
  BY DEF PathInit, CancelInv, CancelledOnlyAccepted
<1> QED BY <1>3, <1>4, <1>5, <1>6, <1>7 DEF PathInv, CpuInv

LEMMA PathStutters ==
  ASSUME PathInv, CpuInv, UNCHANGED path_vars
  PROVE  PathInv' /\ CpuInv'
<1>1. /\ packet' = packet /\ word' = word /\ already_read' = already_read
      /\ inv_fsm' = inv_fsm /\ length_counter' = length_counter
      /\ filter_fsm' = filter_fsm /\ artnet_fsm' = artnet_fsm /\ behind' = behind
      /\ received' = received /\ accepted_at' = accepted_at /\ cancelled' = cancelled
  BY DEF path_vars, splitter_vars, hardware_vars, history_vars
<1>2. PathInv'
  BY <1>1 DEF PathInv, PathTypeOK, FiltersInStep, ChainInv, ChainWord, ChainPacket, SinkLast,
              FirstData
<1>3. CpuInv'
  BY <1>1 DEF CpuInv, CpuInOrder, ReadBySource1, CancelInv, CancelledOnlyAccepted
<1> QED BY <1>2, <1>3

(* The filters of SmolEth wait for the packet in the chain and for no      *)
(* other, and the chain knows what it still has of a packet.               *)
THEOREM PathInvHolds == PathSpec => []PathInv
<1>1. PathInv /\ CpuInv /\ [PathTick]_path_vars => PathInv' /\ CpuInv'
  BY TypeKept, PathKept, CpuKept, PathStutters DEF PathInv
<1> QED BY <1>1, PathStarts, PTL DEF PathSpec

LEMMA CpuInvHolds == PathSpec => [](PathInv /\ CpuInv)
<1>1. PathInv /\ CpuInv /\ [PathTick]_path_vars => PathInv' /\ CpuInv'
  BY TypeKept, PathKept, CpuKept, PathStutters DEF PathInv
<1> QED BY <1>1, PathStarts, PTL DEF PathSpec

(* SmolEthStreamSplitter hands each word to the invalidator exactly once.  *)
THEOREM CpuGetsWordsInOrder == PathSpec => []CpuInOrder
<1>1. CpuInv => CpuInOrder
  BY DEF CpuInv
<1> QED BY <1>1, CpuInvHolds, PTL

(* SmolEthInvalidator cancels no packet but the one the hardware accepted. *)
THEOREM OnlyAcceptedCancelled == PathSpec => []CancelledOnlyAccepted
<1>1. CpuInv => CancelledOnlyAccepted
  BY DEF CpuInv, CancelInv
<1> QED BY <1>1, CpuInvHolds, PTL

(* An accepted packet does not get to the CPU as a valid one.              *)
THEOREM AcceptedAreCancelled == PathSpec => AcceptedIsCancelled
<1> DEFINE Leaves == packet'.id # packet.id /\ accepted_at # -1
                       /\ accepted_at < packet.p.words - 1 => cancelled
<1>1. PathInv /\ CpuInv /\ [PathTick]_path_vars => [Leaves]_path_vars
  BY CpuKept
<1> QED BY <1>1, CpuInvHolds, PTL DEF PathSpec, AcceptedIsCancelled
=============================================================================
