---------------------------- MODULE RowReadProofs -----------------------------
(***************************************************************************)
(* How a row is read, for all sizes of outputs, chains and panels and all  *)
(* numbers of rows: the buffer reader is correct for every depth of the    *)
(* DMA reader's queue, an address is the one of its own pixel, and panels  *)
(* that do not overlap do not share a pixel.  Both extend the generator of *)
(* the addresses, each with what is behind it.                             *)
(***************************************************************************)
EXTENDS BufferReader, PanelAddress, SequenceTheorems, TLAPS

(***************************************************************************)
(* The buffer reader: arithmetic.                                          *)
(***************************************************************************)

LEMMA ReaderSizes ==
  /\ Outputs \in Nat /\ Outputs > 0 /\ Columns \in Nat /\ Columns > 0
  /\ OutputPixels \in Nat /\ OutputPixels >= 2
  /\ RowPixels = Outputs * OutputPixels /\ RowPixels \in Nat /\ RowPixels > Delay /\ Delay = 2
<1>1. Outputs \in Nat /\ Outputs > 0 /\ Columns \in Nat /\ Columns > 0 /\ Chain \in Nat /\ Chain > 0
  BY GeometryAssumption
<1>2. Chain * Columns \in Nat /\ Chain * Columns > 0
  BY <1>1
<1>3. 2 * Chain * Columns = 2 * (Chain * Columns)
  BY <1>1
<1>4. OutputPixels \in Nat /\ OutputPixels >= 2
  BY <1>2, <1>3 DEF OutputPixels
<1>5. RowPixels = Outputs * OutputPixels /\ RowPixels \in Nat
  BY <1>1, <1>4 DEF RowPixels
<1> QED BY <1>1, <1>4, <1>5, ReaderAssumption DEF Delay

(* A counter that can only wrap once. *)
LEMMA Wrap ==
  ASSUME NEW n \in Nat, n > 0, NEW c \in 0..(n - 1)
  PROVE  (c + 1) % n = IF c = n - 1 THEN 0 ELSE c + 1
<1>1. CASE c = n - 1
  <2>1. c + 1 = n BY <1>1
  <2>2. n % n = 0 OBVIOUS
  <2> QED BY <1>1, <2>1, <2>2
<1>2. CASE c # n - 1
  <2>1. (c + 1) % n = c + 1 BY <1>2
  <2> QED BY <1>2, <2>1
<1> QED BY <1>1, <1>2

(* Quotient and remainder are determined by their sum and their ranges. *)
LEMMA Divides ==
  ASSUME NEW d \in Nat, d > 0, NEW q \in Int, NEW r \in 0..(d - 1)
  PROVE  (q * d + r) \div d = q /\ (q * d + r) % d = r
<1> DEFINE n == q * d + r
           a == n \div d
           b == n % d
<1>1. n \in Int /\ q * d \in Int
  OBVIOUS
<1>2. a \in Int /\ b \in 0..(d - 1) /\ n = d * a + b
  BY <1>1
<1>3. n = d * q + r
  OBVIOUS
<1> HIDE DEF n, a, b
<1>4. d * a \in Int /\ d * q \in Int /\ d * (a - q) = d * a - d * q
  BY <1>2
<1>5. d * (a - q) = r - b
  BY <1>1, <1>2, <1>3, <1>4
<1>6. a - q < 1
  <2>1. SUFFICES ASSUME a - q >= 1 PROVE FALSE
    BY <1>2
  <2>2. d * (a - q) >= d
    BY <2>1, <1>2
  <2> QED BY <2>2, <1>5, <1>2
<1>7. a - q > -1
  <2>1. SUFFICES ASSUME a - q <= -1 PROVE FALSE
    BY <1>2
  <2>2. d * (a - q) <= -d
    BY <2>1, <1>2
  <2> QED BY <2>2, <1>5, <1>2
<1>8. a = q
  BY <1>2, <1>6, <1>7
<1>9. b = r
  BY <1>8, <1>2, <1>3, <1>1, <1>5
<1> QED BY <1>8, <1>9 DEF n, a, b

(* Every number is that sum. *)
LEMMA Quotient ==
  ASSUME NEW d \in Nat, d > 0, NEW n \in Nat
  PROVE  /\ n \div d \in Nat /\ n % d \in 0..(d - 1)
         /\ n = (n \div d) * d + (n % d)
OBVIOUS

(* A pixel has a port and a place in its buffer, *)
LEMMA PortOfPixel ==
  ASSUME NEW n \in 0..(RowPixels - 1)
  PROVE  /\ OutputOf(n) \in Output /\ NumberIn(n) \in Address
         /\ n = OutputOf(n) * OutputPixels + NumberIn(n)
<1> DEFINE q == n \div OutputPixels
           r == n % OutputPixels
<1>1. q \in Nat /\ r \in 0..(OutputPixels - 1) /\ n = q * OutputPixels + r
  BY Quotient, ReaderSizes
<1> HIDE DEF q, r
<1>2. q < Outputs
  <2>1. SUFFICES ASSUME q >= Outputs PROVE FALSE
    BY <1>1, ReaderSizes
  <2>2. q * OutputPixels >= Outputs * OutputPixels
    BY <2>1, <1>1, ReaderSizes
  <2>3. q * OutputPixels \in Nat
    BY <1>1, ReaderSizes
  <2> QED BY <2>2, <2>3, <1>1, ReaderSizes
<1> QED BY <1>1, <1>2, ReaderSizes DEF q, r, OutputOf, NumberIn, Output, Address

(* the next pixel is at the same port or at the next one, *)
LEMMA PortOfNext ==
  ASSUME NEW n \in 0..(RowPixels - 2)
  PROVE  OutputOf(n + 1) \in {OutputOf(n), OutputOf(n) + 1}
<1> DEFINE q == OutputOf(n)
           r == NumberIn(n)
<1>1. q \in Nat /\ r \in 0..(OutputPixels - 1) /\ n = q * OutputPixels + r
  BY PortOfPixel, ReaderSizes DEF Output, Address
<1>2. OutputOf(n + 1) = (n + 1) \div OutputPixels
  BY DEF OutputOf
<1> HIDE DEF q, r
<1>3. CASE r = OutputPixels - 1
  <2>1. n + 1 = (q + 1) * OutputPixels + 0
    BY <1>1, <1>3, ReaderSizes
  <2>2. ((q + 1) * OutputPixels + 0) \div OutputPixels = q + 1
    BY <1>1, ReaderSizes, Divides
  <2> QED BY <2>1, <2>2, <1>2 DEF q
<1>4. CASE r # OutputPixels - 1
  <2>1. n + 1 = q * OutputPixels + (r + 1) /\ r + 1 \in 0..(OutputPixels - 1)
    BY <1>1, <1>4, ReaderSizes
  <2>2. (q * OutputPixels + (r + 1)) \div OutputPixels = q
    BY <1>1, <2>1, ReaderSizes, Divides
  <2> QED BY <2>1, <2>2, <1>2 DEF q
<1> QED BY <1>3, <1>4

(* the first one is at the first port and the last two are at the last. *)
LEMMA PortOfEnds ==
  /\ OutputOf(0) = 0
  /\ \A n \in {RowPixels - 2, RowPixels - 1} : OutputOf(n) = Outputs - 1
<1>1. OutputOf(0) = 0
  <2>1. (0 * OutputPixels + 0) \div OutputPixels = 0
    BY Divides, ReaderSizes
  <2>2. 0 * OutputPixels + 0 = 0
    BY ReaderSizes
  <2> QED BY <2>1, <2>2 DEF OutputOf
<1>2. ASSUME NEW n \in {RowPixels - 2, RowPixels - 1} PROVE OutputOf(n) = Outputs - 1
  <2> DEFINE r == n - (RowPixels - OutputPixels)
  <2>1. r \in 0..(OutputPixels - 1)
    BY ReaderSizes
  <2>2. (Outputs - 1) * OutputPixels = RowPixels - OutputPixels
    BY ReaderSizes
  <2>3. n = (Outputs - 1) * OutputPixels + r
    BY <2>2, ReaderSizes
  <2> HIDE DEF r
  <2>4. ((Outputs - 1) * OutputPixels + r) \div OutputPixels = Outputs - 1
    BY <2>1, Divides, ReaderSizes
  <2> QED BY <2>3, <2>4 DEF OutputOf
<1> QED BY <1>1, <1>2

(* The parts of a place are the digits of its number: *)
LEMMA PlaceDigits ==
  ASSUME NEW n \in Address
  PROVE  /\ Place(n).panel \in Nat /\ Place(n).half \in {0, 1} /\ Place(n).column \in 0..(Columns - 1)
         /\ n = Place(n).panel * (2 * Columns) + (Place(n).half * Columns + Place(n).column)
         /\ BufferAddress(n) = Place(n).panel * (2 * Columns) + (Place(n).column * 2 + Place(n).half)
<1> DEFINE c == 2 * Columns
           p == n \div c
           h == (n \div Columns) % 2
           k == n % Columns
           q == n \div Columns
<1>1. n \in Nat /\ c \in Nat /\ c > 0 /\ Columns \in Nat /\ Columns > 0 /\ c = 2 * Columns
  BY ReaderSizes DEF Address
<1> HIDE DEF c
<1>2. q \in Nat /\ k \in 0..(Columns - 1) /\ n = q * Columns + k
  BY <1>1, Quotient
<1>3. h = q % 2
  OBVIOUS
<1> HIDE DEF q, k, h
<1>4. h \in {0, 1} /\ q \div 2 \in Nat /\ q = (q \div 2) * 2 + h
  BY <1>2, <1>3
<1> DEFINE t == q \div 2
<1>5. t \in Nat /\ q = t * 2 + h
  BY <1>4
<1> HIDE DEF t
<1>6. (t * 2) * Columns = t * c
  BY <1>5, <1>1
<1>7. q * Columns = t * c + h * Columns
  BY <1>4, <1>5, <1>6, <1>1
<1>8. h * Columns + k \in 0..(c - 1) /\ n = t * c + (h * Columns + k)
  BY <1>1, <1>2, <1>4, <1>5, <1>7
<1>9. (t * c + (h * Columns + k)) \div c = t
  BY <1>1, <1>5, <1>8, Divides
<1>10. p = t
  BY <1>8, <1>9
<1>11. Place(n) = [panel |-> p, half |-> h, column |-> k]
  BY <1>1 DEF Place, p, q, h, k, c
<1> HIDE DEF p
<1>12. Place(n).panel = p /\ Place(n).half = h /\ Place(n).column = k
  BY <1>11
<1>13. BufferAddress(n) = p * 2 * Columns + k * 2 + h
  BY <1>12 DEF BufferAddress
<1>14. p * 2 * Columns = p * c
  BY <1>1, <1>5, <1>10
<1>15. /\ p \in Nat /\ h \in {0, 1} /\ k \in 0..(Columns - 1)
       /\ n = p * c + (h * Columns + k) /\ p * 2 * Columns + k * 2 + h = p * c + (k * 2 + h)
  BY <1>1, <1>2, <1>4, <1>5, <1>8, <1>10, <1>14
<1> QED BY <1>1, <1>12, <1>13, <1>15

(* the places in a buffer are addresses of it, each of one pixel. *)
LEMMA BufferAddresses ==
  /\ \A n \in Address : BufferAddress(n) \in Address
  /\ \A n, m \in Address : BufferAddress(n) = BufferAddress(m) => n = m
<1> DEFINE c == 2 * Columns
<1>1. c \in Nat /\ c > 0 /\ c = 2 * Columns /\ Columns \in Nat /\ Columns > 0
  BY ReaderSizes
<1>2. OutputPixels = Chain * c
  BY GeometryAssumption DEF OutputPixels
<1>3. Chain \in Nat
  BY GeometryAssumption
<1> HIDE DEF c
<1>4. ASSUME NEW n \in Address PROVE BufferAddress(n) \in Address
  <2> DEFINE p == Place(n).panel
             h == Place(n).half
             k == Place(n).column
  <2>1. /\ p \in Nat /\ h \in {0, 1} /\ k \in 0..(Columns - 1)
        /\ n = p * c + (h * Columns + k) /\ BufferAddress(n) = p * c + (k * 2 + h)
    BY PlaceDigits, <1>1
  <2>2. n \in Nat /\ n < Chain * c
    BY <1>2, ReaderSizes DEF Address
  <2> HIDE DEF p, h, k
  <2>3. p * c \in Nat /\ h * Columns + k \in Nat
    BY <2>1, <1>1
  <2>4. p < Chain
    <3>1. SUFFICES ASSUME p >= Chain PROVE FALSE
      BY <2>1, <1>3
    <3>2. p * c >= Chain * c
      BY <3>1, <2>1, <1>1, <1>3
    <3> QED BY <3>2, <2>1, <2>2, <2>3, <1>1, <1>3
  <2>5. p * c + c <= Chain * c
    <3>1. p * c + c = (p + 1) * c
      BY <2>1, <1>1
    <3>2. (p + 1) * c <= Chain * c
      BY <2>1, <2>4, <1>1, <1>3
    <3> QED BY <3>1, <3>2
  <2>6. k * 2 + h \in 0..(c - 1)
    BY <2>1, <1>1
  <2>7. Chain * c \in Nat
    BY <1>1, <1>3
  <2> QED BY <2>1, <2>3, <2>5, <2>6, <2>7, <1>1, <1>2 DEF Address
<1>5. ASSUME NEW n \in Address, NEW m \in Address, BufferAddress(n) = BufferAddress(m)
      PROVE  n = m
  <2> DEFINE p == Place(n).panel
             h == Place(n).half
             k == Place(n).column
             r == k * 2 + h
             pm == Place(m).panel
             hm == Place(m).half
             km == Place(m).column
             rm == km * 2 + hm
  <2>1. /\ p \in Nat /\ h \in {0, 1} /\ k \in 0..(Columns - 1)
        /\ n = p * c + (h * Columns + k) /\ BufferAddress(n) = p * c + r
    BY PlaceDigits, <1>1
  <2>2. /\ pm \in Nat /\ hm \in {0, 1} /\ km \in 0..(Columns - 1)
        /\ m = pm * c + (hm * Columns + km) /\ BufferAddress(m) = pm * c + rm
    BY PlaceDigits, <1>1
  <2>3. r = k * 2 + h /\ rm = km * 2 + hm
    OBVIOUS
  <2> HIDE DEF p, h, k, r, pm, hm, km, rm
  <2>4. r \in 0..(c - 1) /\ rm \in 0..(c - 1)
    BY <2>1, <2>2, <2>3, <1>1
  <2>5. (p * c + r) \div c = p /\ (p * c + r) % c = r
    BY <2>1, <2>4, <1>1, Divides
  <2>6. (pm * c + rm) \div c = pm /\ (pm * c + rm) % c = rm
    BY <2>2, <2>4, <1>1, Divides
  <2>7. p = pm /\ r = rm
    BY <1>5, <2>1, <2>2, <2>5, <2>6
  <2>8. k = km /\ h = hm
    BY <2>1, <2>2, <2>3, <2>7
  <2> QED BY <2>1, <2>2, <2>7, <2>8
<1> QED BY <1>4, <1>5

(* So two pixels of a row are never written to the same place. *)
LEMMA PixelsApart ==
  ASSUME NEW n \in 0..(RowPixels - 1), NEW m \in 0..(RowPixels - 1), n # m,
         OutputOf(n) = OutputOf(m)
  PROVE  BufferAddress(NumberIn(n)) # BufferAddress(NumberIn(m))
<1>1. NumberIn(n) \in Address /\ NumberIn(m) \in Address
  BY PortOfPixel
<1>2. NumberIn(n) # NumberIn(m)
  BY PortOfPixel
<1> QED BY <1>1, <1>2, BufferAddresses

(***************************************************************************)
(* The invariant.                                                          *)
(***************************************************************************)

LEMMA InvInit == ReaderInit => ReaderInv
<1> SUFFICES ASSUME ReaderInit PROVE ReaderInv
  OBVIOUS
<1> USE ReaderSizes DEF ReaderInit, GeneratorInit
<1>1. ReaderTypeOK
  <2>1. 1 % RowCount \in 0..(RowCount - 1)
    BY ReaderAssumption
  <2>2. NoPixel \in Tag /\ 0 \in Address /\ <<>> \in Seq(Tag) /\ Len(<<>>) = 0
    BY DEF Tag, Address
  <2>3. ports \in [{0, 1} -> [Output -> [we : BOOLEAN, adr : Address, dat_w : Tag]]]
    BY <2>2
  <2>4. /\ 0 \in 0..(RowPixels - 1) /\ RowPixels \in Nat /\ last_fetched \in -1..(RowPixels - 1)
        /\ in_flight \in Seq(Tag) /\ returned \in 0..Len(in_flight)
    BY <2>2
  <2>5. row \in 0..(RowCount - 1)
    BY <2>1
  <2> QED BY <2>2, <2>3, <2>4, <2>5 DEF ReaderTypeOK
<1>2. SourceNeverHeld /\ ReservationsExact /\ StagesInv /\ DoneInv
  BY DEF SourceNeverHeld, ReservationsExact, StagesInv, DoneInv, SourceValid
<1>3. CountInv
  BY DEF CountInv, Lost, Count, Dropped
<1>4. PortsInv
  <2>1. memory = [b \in {0, 1} |-> [o \in Output |-> [a \in Address |-> memory[b][o][a]]]]
    BY DEF EmptyBuffer
  <2> QED BY <2>1 DEF PortsInv, Settled
<1>5. OrderInv
  BY DEF OrderInv, LastInTurn
<1>6. WrittenInv
  BY DEF WrittenInv, OnlyLast, NothingYet, Buffer
<1> QED BY <1>1, <1>2, <1>3, <1>4, <1>5, <1>6 DEF ReaderInv

(* What done tells: nothing is under way, and hardly a pixel was dropped.  *)
LEMMA Drained ==
  ASSUME ReaderInv, done
  PROVE  /\ ~started /\ ~config_lookup_valid /\ ~adr_valid /\ address_counter = 0
         /\ Len(in_flight) = 0 /\ returned = 0 /\ rsv_level = 0 /\ RamDone
         /\ ~palette_data_valid /\ ~gamma_data_valid
         /\ palette_data_done /\ gamma_data_done /\ buffer_done
         /\ fetched \in (RowPixels - 2)..RowPixels
<1>1. RamDone /\ palette_data_done /\ gamma_data_done /\ buffer_done /\ ~started
  BY DEF ReaderInv, DoneInv
<1>2. ~config_lookup_valid /\ ~adr_valid /\ address_counter = 0
  BY <1>1 DEF ReaderInv, StagesInv
<1>3. rsv_level = 0 /\ returned = 0 /\ Len(in_flight) = 0
  BY <1>1 DEF ReaderInv, ReaderTypeOK, ReservationsExact, RamDone, Empty, SourceValid
<1>4. ~palette_data_valid /\ ~gamma_data_valid
  BY <1>1 DEF ReaderInv, DoneInv
<1>5. RowPixels - fetched \in 0..2
  BY <1>2, <1>3, <1>4, ReaderSizes DEF ReaderInv, ReaderTypeOK, CountInv, Lost, Count, Dropped
<1>6. fetched \in (RowPixels - 2)..RowPixels
  BY <1>5, ReaderSizes DEF ReaderInv, ReaderTypeOK
<1> QED BY <1>1, <1>2, <1>3, <1>4, <1>6

(* A pixel that comes out of the gamma table is one of the row's. *)
LEMMA Arriving ==
  ASSUME ReaderInv, gamma_data_valid
  PROVE  ~done /\ fetched \in 0..(RowPixels - 1)
<1>1. ~done
  BY Drained
<1>2. fetched \in Nat /\ Len(in_flight) \in Nat /\ address_counter \in 0..(RowPixels - 1)
  BY DEF ReaderInv, ReaderTypeOK
<1>3. RowPixels - fetched >= 1
  BY <1>2, ReaderSizes DEF ReaderInv, CountInv, Lost, Count, Dropped
<1> QED BY <1>1, <1>2, <1>3, ReaderSizes

(* The queue of the DMA reader and the count of it move together. *)
LEMMA QueueStep ==
  ASSUME ReaderInv, NEW start \in BOOLEAN, NEW sink_ready \in BOOLEAN, NEW prevent_read \in BOOLEAN,
         ReaderClock(start, sink_ready, prevent_read)
  PROVE  LET sent == adr_valid /\ ~prevent_read /\ sink_ready
             taken == IF returned > 0 THEN 1 ELSE 0
             added == IF sent THEN 1 ELSE 0
         IN
         /\ in_flight' \in Seq(Tag) /\ returned' \in 0..Len(in_flight') /\ rsv_level' \in Nat
         /\ (SourceTaken <=> returned > 0) /\ (SourceTaken => Len(in_flight) > 0)
         /\ Len(in_flight') = Len(in_flight) - taken + added
         /\ \A i \in 1..(Len(in_flight) - taken) :
              in_flight'[i] = in_flight[i + taken]
         /\ sent => in_flight'[Len(in_flight')] = adr
         /\ SourceNeverHeld' /\ ReservationsExact'
<1> DEFINE sent == adr_valid /\ ~prevent_read /\ sink_ready
           taken == IF returned > 0 THEN 1 ELSE 0
           added == IF sent THEN 1 ELSE 0
           left == IF SourceTaken THEN Tail(in_flight) ELSE in_flight
           at_output == IF SourceTaken THEN returned - 1 ELSE returned
<1>1. /\ in_flight \in Seq(Tag) /\ returned \in 0..Len(in_flight) /\ adr \in Tag
      /\ Len(in_flight) \in Nat /\ rsv_level = Len(in_flight) /\ (returned > 0 => source_ready)
  BY DEF ReaderInv, ReaderTypeOK, ReservationsExact, SourceNeverHeld, SourceValid
<1>2. (SourceTaken <=> returned > 0) /\ (SourceTaken => Len(in_flight) > 0)
  BY <1>1 DEF SourceTaken, SourceValid
<1>3. /\ left \in Seq(Tag) /\ Len(left) = Len(in_flight) - taken
      /\ \A i \in 1..Len(left) : left[i] = in_flight[i + taken]
  <2>1. CASE SourceTaken
    BY <1>1, <1>2, <2>1
  <2>2. CASE ~SourceTaken
    BY <1>1, <1>2, <2>2
  <2> QED BY <2>1, <2>2
<1>4. /\ in_flight' = IF sent THEN Append(left, adr) ELSE left
      /\ returned' \in {at_output} \cup (IF at_output < Len(left) THEN {at_output + 1} ELSE {})
  BY DEF ReaderClock, Dma
<1>5. at_output \in 0..Len(left)
  BY <1>1, <1>2, <1>3
<1>6. rsv_level' = CASE sent /\ ~SourceTaken -> rsv_level + 1
                     [] ~sent /\ SourceTaken -> rsv_level - 1
                     [] OTHER -> rsv_level
  BY DEF ReaderClock, CountReservations
<1>7. source_ready' = (returned > 0 \/ ~(~started /\ rsv_level = 0))
  BY DEF ReaderClock, TakeSource, SourceValid, Empty
<1> HIDE DEF left, at_output, sent
<1>8. /\ in_flight' \in Seq(Tag) /\ Len(in_flight') = Len(left) + added
      /\ \A i \in 1..Len(left) : in_flight'[i] = left[i]
      /\ sent => in_flight'[Len(in_flight')] = adr
  <2>1. CASE sent
    <3>1. in_flight' = Append(left, adr) /\ left \in Seq(Tag) /\ adr \in Tag /\ added = 1
      BY <1>1, <1>3, <1>4, <2>1
    <3>2. /\ in_flight' \in Seq(Tag) /\ Len(in_flight') = Len(left) + 1
          /\ in_flight'[Len(left) + 1] = adr
          /\ \A i \in 1..Len(left) : in_flight'[i] = left[i]
      BY <3>1, AppendProperties
    <3> QED BY <3>1, <3>2
  <2>2. CASE ~sent
    <3>1. in_flight' = left /\ added = 0 /\ Len(left) \in Nat
      BY <1>3, <1>4, <2>2
    <3> QED BY <1>3, <2>2, <3>1
  <2> QED BY <2>1, <2>2
<1>9. Len(left) \in Nat /\ returned' \in 0..Len(left) /\ added \in {0, 1}
  BY <1>3, <1>4, <1>5
<1>10. returned' \in 0..Len(in_flight')
  BY <1>8, <1>9
<1>11. SourceNeverHeld'
  <2>1. returned' > 0 => returned > 0 \/ rsv_level # 0
    BY <1>1, <1>2, <1>4, <1>5, <1>9, <1>3
  <2> QED BY <2>1, <1>7 DEF SourceNeverHeld, SourceValid
<1>12. rsv_level' = Len(in_flight')
  <2>1. CASE sent /\ SourceTaken
    BY <1>1, <1>2, <1>3, <1>6, <1>8, <2>1
  <2>2. CASE sent /\ ~SourceTaken
    BY <1>1, <1>2, <1>3, <1>6, <1>8, <2>2
  <2>3. CASE ~sent /\ SourceTaken
    BY <1>1, <1>2, <1>3, <1>6, <1>8, <2>3
  <2>4. CASE ~sent /\ ~SourceTaken
    BY <1>1, <1>2, <1>3, <1>6, <1>8, <2>4
  <2> QED BY <2>1, <2>2, <2>3, <2>4
<1>13. rsv_level' \in Nat
  BY <1>12, <1>8, <1>9
<1> QED BY <1>2, <1>3, <1>8, <1>10, <1>11, <1>12, <1>13 DEF ReservationsExact, sent

(* What a clock does to the counter of the generator. *)
LEMMA CounterValue ==
  ASSUME ReaderInv, NEW start \in BOOLEAN, NEW move \in BOOLEAN, CountPixels(start, move)
  PROVE  address_counter' = IF address_counter = 0
                              THEN IF start THEN 1 ELSE 0
                              ELSE IF ~move THEN address_counter
                              ELSE IF address_counter = RowPixels - 1 THEN 0 ELSE address_counter + 1
<1>1. address_counter \in 0..(RowPixels - 1) /\ RowPixels \in Nat /\ RowPixels > 0
  BY ReaderSizes DEF ReaderInv, ReaderTypeOK
<1>2. (address_counter + 1) % RowPixels =
        IF address_counter = RowPixels - 1 THEN 0 ELSE address_counter + 1
  BY <1>1, Wrap
<1> QED BY <1>1, <1>2 DEF CountPixels

(* A start finds the pipeline of the generator empty; afterwards it moves  *)
(* if its address is taken, and at the beginning and the end of the row.   *)
LEMMA GeneratorStep ==
  ASSUME ReaderInv, NEW start \in BOOLEAN, start => MayStart,
         NEW enable \in BOOLEAN, GeneratorTick(start, enable)
  PROVE  /\ address_counter' \in 0..(RowPixels - 1) /\ counter_previous' \in 0..(RowPixels - 1)
         /\ started' \in BOOLEAN /\ config_lookup_valid' \in BOOLEAN
         /\ adr' \in Tag /\ adr_valid' \in BOOLEAN
         /\ StagesInv'
<1> DEFINE move == address_counter < 2 \/ enable
<1>1. /\ address_counter \in 0..(RowPixels - 1) /\ counter_previous \in 0..(RowPixels - 1)
      /\ started \in BOOLEAN /\ config_lookup_valid \in BOOLEAN
      /\ adr \in Tag /\ adr_valid \in BOOLEAN /\ row \in 0..(RowCount - 1)
  BY DEF ReaderInv, ReaderTypeOK
<1>2. /\ CountPixels(start, move) /\ Stages(start, move) /\ Started(start, move)
  BY DEF GeneratorTick, Move, Delay
<1>3. address_counter' = IF address_counter = 0
                              THEN IF start THEN 1 ELSE 0
                              ELSE IF ~move THEN address_counter
                              ELSE IF address_counter = RowPixels - 1 THEN 0 ELSE address_counter + 1
  BY <1>1, <1>2, CounterValue
<1>4. start => ~started
  BY Drained DEF MayStart
<1>5. move \in BOOLEAN /\ (address_counter < 2 => move)
  BY <1>1
<1> HIDE DEF move
<1>6. address_counter' \in 0..(RowPixels - 1)
  BY <1>1, <1>3, ReaderSizes
<1>7. CASE move
  <2>1. /\ config_lookup_valid' = (start \/ address_counter # 0)
        /\ counter_previous' = address_counter /\ adr_valid' = config_lookup_valid
        /\ adr' = [number |-> counter_previous, row |-> row]
    BY <1>2, <1>7 DEF Stages, Running
  <2>2. adr' \in Tag
    BY <1>1, <2>1 DEF Tag
  <2>3. started' = IF adr_valid /\ ~config_lookup_valid THEN FALSE ELSE started \/ start
    BY <1>2, <1>7 DEF Started
  <2>4. StagesInv'
    BY <1>1, <1>3, <1>4, <1>7, <2>1, <2>3, ReaderSizes DEF ReaderInv, StagesInv
  <2> QED BY <1>1, <1>6, <2>1, <2>2, <2>3, <2>4
<1>8. CASE ~move
  <2>1. UNCHANGED <<config_lookup_valid, counter_previous, adr_valid, adr>>
    BY <1>2, <1>8 DEF Stages
  <2>2. started' = (started \/ start)
    BY <1>2, <1>8 DEF Started
  <2>3. address_counter' = address_counter /\ address_counter # 0
    BY <1>1, <1>3, <1>5, <1>8
  <2>4. ~start
    BY <1>4, <2>3 DEF ReaderInv, StagesInv
  <2>5. StagesInv'
    BY <1>1, <2>1, <2>2, <2>3, <2>4 DEF ReaderInv, StagesInv
  <2> QED BY <1>1, <1>6, <2>1, <2>2, <2>5
<1> QED BY <1>5, <1>7, <1>8

(* The flags behind the end of the pipeline. *)
LEMMA DoneStep ==
  ASSUME ReaderInv, NEW start \in BOOLEAN, start => MayStart,
         NEW sink_ready \in BOOLEAN, NEW prevent_read \in BOOLEAN,
         ReaderClock(start, sink_ready, prevent_read)
  PROVE  DoneInv'
<1> DEFINE move == address_counter < 2 \/ (sink_ready /\ ~prevent_read)
           sent == adr_valid /\ ~prevent_read /\ sink_ready
<1>1. /\ address_counter \in 0..(RowPixels - 1)
      /\ started \in BOOLEAN /\ config_lookup_valid \in BOOLEAN /\ adr_valid \in BOOLEAN
      /\ palette_data_valid \in BOOLEAN /\ palette_data_done \in BOOLEAN
      /\ gamma_data_valid \in BOOLEAN /\ gamma_data_done \in BOOLEAN
      /\ buffer_done \in BOOLEAN /\ done \in BOOLEAN /\ returned \in Nat /\ rsv_level \in Nat
  BY DEF ReaderInv, ReaderTypeOK
<1>2. /\ palette_data_valid' = (returned > 0) /\ palette_data_done' = RamDone
      /\ gamma_data_valid' = palette_data_valid /\ gamma_data_done' = palette_data_done
      /\ buffer_done' = gamma_data_done /\ done' = (RowDone \/ (done /\ ~start))
  BY DEF ReaderClock, Lookup, Writer, SourceValid
<1>3. RamDone <=> ~started /\ rsv_level = 0 /\ returned = 0
  BY <1>1 DEF RamDone, Empty, SourceValid
<1>4. RowDone <=> ~gamma_data_valid /\ gamma_data_done /\ ~buffer_done
  BY DEF RowDone
<1>5. /\ DoneInv /\ StagesInv
  BY DEF ReaderInv
<1>6. /\ start => done /\ ~started /\ address_counter = 0 /\ buffer_done
      /\ done => RamDone /\ gamma_data_done /\ palette_data_done /\ buffer_done
  BY Drained DEF MayStart
<1>7. /\ CountPixels(start, move) /\ Stages(start, move) /\ Started(start, move)
  BY DEF ReaderClock, GeneratorTick, Move, Delay
<1>8. address_counter' = IF address_counter = 0
                              THEN IF start THEN 1 ELSE 0
                              ELSE IF ~move THEN address_counter
                              ELSE IF address_counter = RowPixels - 1 THEN 0 ELSE address_counter + 1
  BY <1>1, <1>7, CounterValue
<1>9. move \in BOOLEAN /\ (address_counter < 2 => move)
  BY <1>1
<1> HIDE DEF move
<1>10. started' = IF move /\ adr_valid /\ ~config_lookup_valid THEN FALSE ELSE started \/ start
  BY <1>7 DEF Started
<1>11. config_lookup_valid' = IF move THEN start \/ address_counter # 0 ELSE config_lookup_valid
  BY <1>7 DEF Stages, Running
<1>12. (palette_data_done' => ~palette_data_valid') /\ (gamma_data_done' => ~gamma_data_valid')
  BY <1>1, <1>2, <1>3, <1>5 DEF DoneInv
<1>13. CASE start
  <2>1. started' /\ address_counter' = 1
    BY <1>5, <1>6, <1>8, <1>10, <1>13 DEF StagesInv
  <2>2. palette_data_done' /\ gamma_data_done' /\ buffer_done' /\ ~done'
    BY <1>2, <1>4, <1>6, <1>13
  <2> QED BY <1>12, <2>1, <2>2 DEF DoneInv
<1>14. CASE ~start /\ started
  <2>1. ~palette_data_done' /\ ~RowDone /\ ~done
    BY <1>2, <1>3, <1>4, <1>5, <1>6, <1>14 DEF DoneInv
  <2>2. ~done'
    BY <1>2, <2>1
  <2>3. CASE started'
    <3>1. gamma_data_done' => buffer_done' /\ address_counter' \in {1, 2}
      BY <1>1, <1>2, <1>5, <1>8, <2>3, <1>14, ReaderSizes DEF DoneInv
    <3>2. buffer_done' => address_counter' # 0 \/ config_lookup_valid'
      <4>1. SUFFICES ASSUME gamma_data_done PROVE address_counter' # 0 \/ config_lookup_valid'
        BY <1>2
      <4>2. address_counter \in {1, 2} /\ config_lookup_valid
        BY <1>5, <1>14, <4>1 DEF DoneInv, StagesInv
      <4>3. move => (config_lookup_valid' <=> (start \/ address_counter # 0))
        BY <1>11
      <4>4. ~move => (config_lookup_valid' <=> config_lookup_valid)
        BY <1>11
      <4>5. address_counter # 0
        BY <4>2
      <4> QED BY <4>2, <4>3, <4>4, <4>5
    <3> QED BY <1>12, <2>1, <2>2, <2>3, <3>1, <3>2 DEF DoneInv
  <2>4. CASE ~started'
    <3>1. move /\ adr_valid /\ ~config_lookup_valid
      BY <1>10, <1>14, <2>4
    <3>2. ~gamma_data_done /\ ~palette_data_done
      BY <1>5, <1>14, <3>1 DEF DoneInv, StagesInv
    <3> QED BY <1>2, <1>12, <2>1, <2>2, <2>4, <3>2 DEF DoneInv
  <2> QED BY <2>3, <2>4
<1>15. CASE ~start /\ ~started
  <2>1. ~started' /\ ~adr_valid
    BY <1>5, <1>10, <1>15 DEF StagesInv
  <2>2. RamDone => RamDone'
    <3>1. SUFFICES ASSUME RamDone PROVE RamDone'
      OBVIOUS
    <3>2. rsv_level = Len(in_flight) /\ rsv_level = 0 /\ returned = 0
      BY <3>1, <1>3 DEF ReaderInv, ReservationsExact
    <3>3. rsv_level' = Len(in_flight') /\ returned' \in 0..Len(in_flight')
      BY QueueStep DEF ReservationsExact
    <3>4. Len(in_flight') = Len(in_flight) - (IF returned > 0 THEN 1 ELSE 0) + (IF sent THEN 1 ELSE 0)
      BY QueueStep
    <3>5. (IF returned > 0 THEN 1 ELSE 0) = 0 /\ (IF sent THEN 1 ELSE 0) = 0
      BY <2>1, <3>2
    <3>6. Len(in_flight') = 0 - 0 + 0
      BY <3>2, <3>4, <3>5, Zenon
    <3>7. rsv_level' = 0 /\ returned' = 0
      BY <3>3, <3>6
    <3> QED BY <2>1, <3>7 DEF RamDone, Empty, SourceValid
  <2>3. /\ buffer_done' => gamma_data_done'
        /\ gamma_data_done' => palette_data_done'
        /\ palette_data_done' => RamDone'
    BY <1>2, <1>5, <1>15, <2>2 DEF DoneInv
  <2>4. done' => buffer_done'
    BY <1>2, <1>4, <1>6
  <2> QED BY <1>12, <2>1, <2>3, <2>4 DEF DoneInv
<1> QED BY <1>13, <1>14, <1>15

(* No pixel is lost but the last ones, and none is doubled: the losses of  *)
(* a read only grow, by an address that moves on without being taken.      *)
LEMMA CountStep ==
  ASSUME ReaderInv, NEW start \in BOOLEAN, start => MayStart,
         NEW sink_ready \in BOOLEAN, NEW prevent_read \in BOOLEAN,
         ReaderClock(start, sink_ready, prevent_read)
  PROVE  /\ CountInv' /\ fetched' \in Nat /\ Lost \in Nat /\ Lost' \in Nat
         /\ ~start => Lost' >= Lost
         /\ ~start /\ adr_valid /\ address_counter < 2 /\ ~(sink_ready /\ ~prevent_read) =>
              Lost' > 0
<1> DEFINE dropped == adr_valid /\ address_counter < 2 /\ ~(sink_ready /\ ~prevent_read)
           enable == sink_ready /\ ~prevent_read
           move == address_counter < 2 \/ enable
           sent == adr_valid /\ ~prevent_read /\ sink_ready
           coming == IF address_counter = 0 THEN 0 ELSE RowPixels - address_counter
           cl == Count(config_lookup_valid)
           ad == Count(adr_valid)
           pa == Count(palette_data_valid)
           ga == Count(gamma_data_valid)
           queue == Len(in_flight)
           taken == IF returned > 0 THEN 1 ELSE 0
           added == IF sent THEN 1 ELSE 0
<1>1. /\ address_counter \in 0..(RowPixels - 1)
      /\ started \in BOOLEAN /\ config_lookup_valid \in BOOLEAN /\ adr_valid \in BOOLEAN
      /\ palette_data_valid \in BOOLEAN /\ gamma_data_valid \in BOOLEAN
      /\ returned \in Nat /\ fetched \in Nat /\ queue \in Nat
  BY DEF ReaderInv, ReaderTypeOK
<1>2. /\ Lost = RowPixels - (coming + (cl + ad + queue + pa + ga) + fetched)
      /\ Lost \in 0..(IF config_lookup_valid THEN 0 ELSE 2 - ad)
  BY ReaderSizes DEF ReaderInv, CountInv, Lost, Dropped
<1>3. queue' = queue - taken + added
  BY QueueStep
<1>4. /\ palette_data_valid' = (returned > 0) /\ gamma_data_valid' = palette_data_valid
      /\ fetched' = IF start THEN 0 ELSE IF gamma_data_valid THEN fetched + 1 ELSE fetched
  BY DEF ReaderClock, Lookup, SourceValid, CountFetched
<1>5. /\ pa' = taken /\ ga' = pa /\ fetched' = IF start THEN 0 ELSE fetched + ga
      /\ taken \in {0, 1} /\ pa \in {0, 1} /\ ga \in {0, 1} /\ cl \in {0, 1} /\ ad \in {0, 1}
  <2>1. pa' = taken
    BY <1>4 DEF Count
  <2>2. ga' = pa
    BY <1>4 DEF Count
  <2>3. fetched' = IF start THEN 0 ELSE fetched + ga
    BY <1>1, <1>4 DEF Count
  <2>4. taken \in {0, 1}
    OBVIOUS
  <2>5. pa \in {0, 1} /\ ga \in {0, 1} /\ cl \in {0, 1} /\ ad \in {0, 1}
    BY DEF Count
  <2> QED BY <2>1, <2>2, <2>3, <2>4, <2>5
<1>6. /\ CountPixels(start, move) /\ Stages(start, move)
  BY DEF ReaderClock, GeneratorTick, Move, Delay
<1>7. address_counter' = IF address_counter = 0
                              THEN IF start THEN 1 ELSE 0
                              ELSE IF ~move THEN address_counter
                              ELSE IF address_counter = RowPixels - 1 THEN 0 ELSE address_counter + 1
  BY <1>1, <1>6, CounterValue
<1>8. coming \in Nat /\ (address_counter # 0 => coming > 0) /\ fetched' \in Nat
  BY <1>1, <1>5, ReaderSizes
<1>9. added = IF adr_valid /\ enable THEN 1 ELSE 0
  OBVIOUS
<1>10. /\ move \in BOOLEAN /\ (address_counter < 2 => move) /\ (enable => move)
       /\ (move /\ ~enable => address_counter < 2)
  BY <1>1
<1>11. /\ Lost' = RowPixels - (coming' + (cl' + ad' + queue' + pa' + ga') + fetched')
       /\ CountInv' <=> Lost' \in 0..(IF config_lookup_valid' THEN 0 ELSE 2 - ad')
  BY ReaderSizes DEF CountInv, Lost, Dropped
<1>12. StagesInv
  BY DEF ReaderInv
<1> DEFINE front == coming + cl + ad
           back == queue + pa + ga + fetched
           most == IF config_lookup_valid THEN 0 ELSE 2 - ad
<1>13. /\ Lost = RowPixels - (front + back) /\ Lost \in 0..most
       /\ front \in Nat /\ back \in Nat
  <2>1. /\ coming \in Nat /\ cl \in Nat /\ ad \in Nat /\ queue \in Nat
        /\ pa \in Nat /\ ga \in Nat /\ fetched \in Nat
    BY <1>1, <1>5, <1>8
  <2> HIDE DEF coming, cl, ad, pa, ga, queue
  <2>2. coming + (cl + ad + queue + pa + ga) + fetched = front + back
    BY <2>1
  <2> QED BY <1>2, <2>1, <2>2
<1>14. /\ Lost' = RowPixels - (front' + back')
       /\ CountInv' <=> Lost' \in 0..most'
  <2>1. coming' \in Int
    BY <1>1, <1>7, ReaderSizes
  <2>2. cl' \in Int /\ ad' \in Int /\ pa' \in Int /\ ga' \in Int
    BY DEF Count
  <2>3. queue' \in Int /\ fetched' \in Int
    BY <1>1, <1>3, <1>8
  <2> HIDE DEF coming, cl, ad, pa, ga, queue
  <2>4. coming' + (cl' + ad' + queue' + pa' + ga') + fetched' = (coming' + cl' + ad') + (queue' + pa' + ga' + fetched')
    BY <2>1, <2>2, <2>3
  <2> QED BY <1>11, <2>4
<1>18. CountInv' => Lost' \in Nat
  <2>1. most' \in Int
    BY DEF Count
  <2> HIDE DEF most
  <2> QED BY <1>14, <2>1
<1>19. dropped => move /\ added # ad
  BY <1>9 DEF Count
<1>15. most \in {0, 1, 2} /\ RowPixels \in Nat
  BY <1>5, ReaderSizes
<1>16. CASE start
  <2>1. /\ ~config_lookup_valid /\ address_counter = 0 /\ queue = 0 /\ ~adr_valid
        /\ returned = 0 /\ ~palette_data_valid
    BY <1>16, Drained DEF MayStart
  <2>2. address_counter' = 1
    BY <1>7, <1>16, <2>1
  <2>3. move
    BY <1>10, <2>1
  <2>4. config_lookup_valid' = TRUE /\ adr_valid' = config_lookup_valid
    BY <1>6, <1>16, <2>3 DEF Stages, Running
  <2>5. coming' = RowPixels - 1
    BY <2>2
  <2>6. cl' = 1
    BY <2>4 DEF Count
  <2>7. ad' = 0
    BY <2>1, <2>4 DEF Count
  <2>8. queue' = 0
    BY <1>3, <1>9, <2>1
  <2>9. taken = 0 /\ pa = 0
    BY <2>1 DEF Count
  <2>10. pa' = 0 /\ ga' = 0 /\ fetched' = 0
    BY <1>5, <1>16, <2>9
  <2>11. most' = 0
    BY <2>4
  <2> HIDE DEF coming, cl, ad, pa, ga, queue, taken, most
  <2>12. RowPixels - (front' + back') = 0
    BY <2>5, <2>6, <2>7, <2>8, <2>10, <1>15
  <2>13. CountInv'
    BY <1>14, <2>11, <2>12
  <2> QED BY <1>8, <1>13, <1>15, <1>16, <1>18, <2>13
<1>17. CASE ~start
  <2>1. back' = back + added
    BY <1>1, <1>3, <1>5, <1>17
  <2>2. CASE move
    <3>1. /\ config_lookup_valid' = (address_counter # 0) /\ adr_valid' = config_lookup_valid
      BY <1>6, <1>17, <2>2 DEF Stages, Running
    <3>2. cl' = (IF address_counter # 0 THEN 1 ELSE 0) /\ ad' = cl
      BY <3>1, <1>1 DEF Count
    <3>3. coming' = coming - (IF address_counter # 0 THEN 1 ELSE 0)
      BY <1>1, <1>7, <1>17, <2>2, ReaderSizes
    <3>4. front' = front - ad
      BY <1>1, <1>5, <1>8, <3>2, <3>3
    <3>5. most' = IF address_counter # 0 THEN 0 ELSE 2 - cl
      BY <3>1, <3>2
    <3>6. (address_counter # 0 => most = 0) /\ most = 2 * (1 - cl) - (1 - cl) * ad
      BY <1>1, <1>12 DEF StagesInv, Count
    <3>7. adr_valid /\ ~enable => address_counter = 0
      BY <1>1, <1>10, <1>12, <2>2 DEF StagesInv
    <3>8. added # ad => added = 0 /\ ad = 1 /\ address_counter = 0
      BY <1>1, <1>9, <3>7 DEF Count
    <3>9. address_counter = 0 /\ cl = 1 => ad = 1
      BY <1>1, <1>12 DEF StagesInv, Count
    <3> HIDE DEF coming, cl, ad, pa, ga, queue, added, taken, front, back, most, enable, move, sent
    <3>10. CASE added = ad
      <4>1. Lost' = Lost
        BY <1>5, <1>13, <1>14, <1>15, <2>1, <3>4, <3>10
      <4>2. most <= most'
        <5>1. CASE address_counter # 0
          BY <3>5, <3>6, <5>1
        <5>2. CASE address_counter = 0
          BY <1>5, <3>5, <3>6, <5>2
        <5> QED BY <5>1, <5>2
      <4>3. CountInv'
        BY <1>13, <1>14, <1>15, <4>1, <4>2, <3>5, <1>5
      <4> QED BY <1>8, <1>13, <1>15, <1>18, <1>19, <3>10, <4>1, <4>3
    <3>11. CASE added # ad
      <4>1. Lost' = Lost + 1
        BY <1>5, <1>13, <1>14, <1>15, <2>1, <3>4, <3>8, <3>11
      <4>2. most + 1 <= most'
        <5>1. CASE cl = 0
          BY <3>5, <3>6, <3>8, <3>11, <5>1
        <5>2. CASE cl = 1
          BY <3>5, <3>6, <3>8, <3>11, <5>2
        <5> QED BY <1>5, <5>1, <5>2
      <4>3. CountInv'
        BY <1>13, <1>14, <1>15, <4>1, <4>2, <3>5, <1>5
      <4> QED BY <1>8, <1>13, <1>15, <1>18, <4>1, <4>3
    <3> QED BY <3>10, <3>11
  <2>3. CASE ~move
    <3>1. /\ config_lookup_valid' = config_lookup_valid /\ adr_valid' = adr_valid
          /\ address_counter' = address_counter /\ address_counter # 0
      BY <1>1, <1>6, <1>7, <1>10, <2>3 DEF Stages
    <3>2. added = 0
      BY <1>9, <1>10, <2>3
    <3>3. coming' = coming /\ cl' = cl /\ ad' = ad
      BY <3>1 DEF Count
    <3>4. front' = front /\ most' = most
      BY <3>1, <3>3
    <3>6. ~dropped
      BY <1>19, <2>3
    <3> HIDE DEF coming, cl, ad, pa, ga, queue, added, taken, front, back, most, enable, move, sent
    <3>5. back' = back
      BY <1>13, <2>1, <3>2
    <3>7. Lost' = Lost /\ CountInv'
      BY <1>13, <1>14, <3>4, <3>5
    <3> QED BY <1>8, <1>13, <1>15, <1>18, <3>6, <3>7
  <2> QED BY <2>2, <2>3
<1> QED BY <1>16, <1>17

(***************************************************************************)
(* The write ports.                                                        *)
(***************************************************************************)

Port == [we : BOOLEAN, adr : Address, dat_w : Tag]
Value(port) == Pixel(port.dat_w.row, Place(NumberIn(port.dat_w.number)))
Before(o) == (o - 1) % Outputs

LEMMA BeforeOutput ==
  ASSUME NEW o \in Output
  PROVE  Before(o) = IF o = 0 THEN Outputs - 1 ELSE o - 1
<1>1. Outputs \in Nat /\ Outputs > 0 /\ o \in 0..(Outputs - 1)
  BY ReaderSizes DEF Output
<1>2. CASE o = 0
  <2>1. ((-1) * Outputs + (Outputs - 1)) % Outputs = Outputs - 1
    BY <1>1, Divides
  <2>2. (-1) * Outputs + (Outputs - 1) = o - 1
    BY <1>1, <1>2
  <2> QED BY <2>1, <2>2, <1>2 DEF Before
<1>3. CASE o # 0
  <2>1. (0 * Outputs + (o - 1)) % Outputs = o - 1
    BY <1>1, <1>3, Divides
  <2>2. 0 * Outputs + (o - 1) = o - 1
    BY <1>1
  <2> QED BY <2>1, <2>2, <1>3 DEF Before
<1> QED BY <1>2, <1>3

(* The state the ports are in before a clock. *)
LEMMA PortTypes ==
  ASSUME ReaderInv
  PROVE  /\ ports \in [{0, 1} -> [Output -> Port]] /\ Buffer \in {0, 1} /\ shifting_buffer \in {0, 1}
         /\ Buffer # shifting_buffer
         /\ buffer_counter \in 0..(RowPixels - 1) /\ BufferSelect \in Output
         /\ BufferAddress(NumberIn(buffer_counter)) \in Address
<1>1. /\ ports \in [{0, 1} -> [Output -> Port]] /\ shifting_buffer \in {0, 1}
      /\ buffer_counter \in 0..(RowPixels - 1)
  BY DEF ReaderInv, ReaderTypeOK, Port
<1>2. Buffer \in {0, 1} /\ Buffer # shifting_buffer
  BY <1>1 DEF Buffer
<1>3. BufferSelect \in Output /\ NumberIn(buffer_counter) \in Address
  BY <1>1, PortOfPixel DEF BufferSelect
<1>4. BufferAddress(NumberIn(buffer_counter)) \in Address
  BY <1>3, BufferAddresses
<1> QED BY <1>1, <1>2, <1>3, <1>4

(* What a pixel does to the ports. *)
LEMMA PixelToPorts ==
  ASSUME ReaderInv, gamma_data_valid, Writer(TRUE) \/ Writer(FALSE)
  PROVE  /\ ports' \in [{0, 1} -> [Output -> Port]]
         /\ buffer_counter' = IF buffer_counter = RowPixels - 1 THEN 0 ELSE buffer_counter + 1
         /\ \A b \in {0, 1} : b # Buffer => ports'[b] = ports[b]
         /\ \A o \in Output :
              /\ ports'[Buffer][o].adr = BufferAddress(NumberIn(buffer_counter))
              /\ ports'[Buffer][o].dat_w = gamma_data
              /\ ports'[Buffer][o].we <=>
                   o = BufferSelect \/ (o # Before(BufferSelect) /\ ports[Buffer][o].we)
<1> DEFINE we(o) == CASE o = BufferSelect -> TRUE
                      [] o # BufferSelect /\ o = (BufferSelect - 1) % Outputs -> FALSE
                      [] OTHER -> ports[Buffer][o].we
           new == [o \in Output |-> [we |-> we(o), adr |-> BufferAddress(NumberIn(buffer_counter)),
                                     dat_w |-> gamma_data]]
<1>1. ports' = [ports EXCEPT ![Buffer] = new] /\ buffer_counter' = (buffer_counter + 1) % RowPixels
  BY DEF Writer, WritePixel, FinishRow, WriteNothing, RowDone
<1>2. gamma_data \in Tag
  BY DEF ReaderInv, ReaderTypeOK
<1>3. \A o \in Output : we(o) \in BOOLEAN /\ (we(o) <=>
        o = BufferSelect \/ (o # Before(BufferSelect) /\ ports[Buffer][o].we))
  BY PortTypes DEF Before, Port
<1> HIDE DEF we
<1>4. new \in [Output -> Port]
  BY <1>2, <1>3, PortTypes DEF Port
<1>5. \A o \in Output : new[o].we = we(o) /\ new[o].dat_w = gamma_data
                        /\ new[o].adr = BufferAddress(NumberIn(buffer_counter))
  OBVIOUS
<1> HIDE DEF new
<1>6. /\ ports' \in [{0, 1} -> [Output -> Port]] /\ ports'[Buffer] = new
      /\ \A b \in {0, 1} : b # Buffer => ports'[b] = ports[b]
  BY <1>1, <1>4, PortTypes
<1>7. buffer_counter' = IF buffer_counter = RowPixels - 1 THEN 0 ELSE buffer_counter + 1
  BY <1>1, PortTypes, Wrap, ReaderSizes
<1> QED BY <1>3, <1>5, <1>6, <1>7

(* Without a pixel, no port is enabled, and the enabled ones keep what     *)
(* they write; at the end of the row one is disabled.                      *)
LEMMA NoPixelToPorts ==
  ASSUME ReaderInv, ~gamma_data_valid, Writer(TRUE) \/ Writer(FALSE)
  PROVE  /\ ports' \in [{0, 1} -> [Output -> Port]]
         /\ buffer_counter' = IF RowDone THEN 0 ELSE buffer_counter
         /\ \A b \in {0, 1} : b # Buffer => ports'[b] = ports[b]
         /\ \A o \in Output :
              /\ ports'[Buffer][o].adr = ports[Buffer][o].adr
              /\ ports'[Buffer][o].dat_w = ports[Buffer][o].dat_w
              /\ ports'[Buffer][o].we <=>
                   ports[Buffer][o].we /\ ~(RowDone /\ o = Before(BufferSelect))
<1>1. CASE RowDone
  <2>1. /\ ports' = [ports EXCEPT ![Buffer][Before(BufferSelect)].we = FALSE] /\ buffer_counter' = 0
    BY <1>1 DEF Writer, WritePixel, FinishRow, WriteNothing, RowDone, Before
  <2>2. Before(BufferSelect) \in Output
    BY PortTypes, BeforeOutput, ReaderSizes DEF Output
  <2>3. ports \in [{0, 1} -> [Output -> Port]] /\ Buffer \in {0, 1}
    BY PortTypes
  <2> DEFINE p == Before(BufferSelect)
             new == [ports[Buffer] EXCEPT ![p] = [ports[Buffer][p] EXCEPT !.we = FALSE]]
  <2> HIDE DEF p
  <2>4. ports' = [ports EXCEPT ![Buffer] = new]
    BY <2>1 DEF p
  <2>5. /\ new \in [Output -> Port] /\ ~new[p].we
        /\ new[p].adr = ports[Buffer][p].adr /\ new[p].dat_w = ports[Buffer][p].dat_w
        /\ \A o \in Output : o # p => new[o] = ports[Buffer][o]
    <3> DEFINE port == [ports[Buffer][p] EXCEPT !.we = FALSE]
    <3>1. ports[Buffer] \in [Output -> Port] /\ p \in Output
      BY <2>2, <2>3 DEF p
    <3>2. ports[Buffer][p] \in Port
      BY <3>1
    <3>3. /\ port \in Port /\ ~port.we /\ port.adr = ports[Buffer][p].adr
          /\ port.dat_w = ports[Buffer][p].dat_w
      BY <3>2 DEF Port
    <3>4. new = [ports[Buffer] EXCEPT ![p] = port]
      OBVIOUS
    <3> HIDE DEF new, port
    <3>5. new \in [Output -> Port] /\ new[p] = port
      BY <3>1, <3>3, <3>4
    <3>6. \A o \in Output : o # p => new[o] = ports[Buffer][o]
      BY <3>1, <3>4
    <3> QED BY <3>3, <3>5, <3>6
  <2> HIDE DEF new
  <2>6. /\ ports' \in [{0, 1} -> [Output -> Port]] /\ ports'[Buffer] = new
        /\ \A b \in {0, 1} : b # Buffer => ports'[b] = ports[b]
    BY <2>3, <2>4, <2>5
  <2> QED BY <1>1, <2>1, <2>2, <2>5, <2>6 DEF p
<1>2. CASE ~RowDone
  <2>1. ports' = ports /\ buffer_counter' = buffer_counter
    BY <1>2 DEF Writer, WritePixel, FinishRow, WriteNothing
  <2> QED BY <1>2, <2>1, PortTypes
<1> QED BY <1>1, <1>2

(* What the ports do to the memory. *)
LEMMA PortsToMemory ==
  ASSUME ReaderInv, CommitPorts
  PROVE  /\ memory' = [b \in {0, 1} |-> [o \in Output |-> [a \in Address |-> memory'[b][o][a]]]]
         /\ \A b \in {0, 1}, o \in Output, a \in Address :
              memory'[b][o][a] = IF ports[b][o].we /\ a = ports[b][o].adr
                                   THEN Value(ports[b][o]) ELSE memory[b][o][a]
<1>1. memory' = [b \in {0, 1} |-> [o \in Output |->
                  IF ports[b][o].we
                    THEN [memory[b][o] EXCEPT ![ports[b][o].adr] = Value(ports[b][o])]
                    ELSE memory[b][o]]]
  BY DEF CommitPorts, Value
<1>2. memory = [b \in {0, 1} |-> [o \in Output |-> [a \in Address |-> memory[b][o][a]]]]
  BY DEF ReaderInv, PortsInv
<1>3. ASSUME NEW b \in {0, 1}, NEW o \in Output
      PROVE  memory[b][o] = [a \in Address |-> memory[b][o][a]]
  <2>1. memory[b] = [p \in Output |-> [a \in Address |-> memory[b][p][a]]]
    BY <1>2
  <2> QED BY <2>1
<1>4. ASSUME NEW b \in {0, 1}, NEW o \in Output
      PROVE  /\ memory'[b][o] = [a \in Address |-> memory'[b][o][a]]
             /\ \A a \in Address :
                  memory'[b][o][a] = IF ports[b][o].we /\ a = ports[b][o].adr
                                       THEN Value(ports[b][o]) ELSE memory[b][o][a]
  <2>1. memory'[b][o] = IF ports[b][o].we
                          THEN [memory[b][o] EXCEPT ![ports[b][o].adr] = Value(ports[b][o])]
                          ELSE memory[b][o]
    BY <1>1
  <2> DEFINE m == memory[b][o]
             n == memory'[b][o]
             p == ports[b][o]
             v == Value(ports[b][o])
  <2>2. n = IF p.we THEN [m EXCEPT ![p.adr] = v] ELSE m
    BY <2>1
  <2>3. m = [a \in Address |-> m[a]]
    BY <1>3
  <2> HIDE DEF m, n, p, v
  <2>4. /\ n = [a \in Address |-> n[a]]
        /\ \A a \in Address : n[a] = IF p.we /\ a = p.adr THEN v ELSE m[a]
    BY <2>2, <2>3
  <2> QED BY <2>4 DEF m, n, p, v
<1>5. memory' = [b \in {0, 1} |-> [o \in Output |-> memory'[b][o]]]
  BY <1>1
<1>6. memory' = [b \in {0, 1} |-> [o \in Output |-> [a \in Address |-> memory'[b][o][a]]]]
  <2> DEFINE m == memory'
  <2>1. \A b \in {0, 1}, o \in Output : m[b][o] = [a \in Address |-> m[b][o][a]]
    BY <1>4
  <2>2. m = [b \in {0, 1} |-> [o \in Output |-> m[b][o]]]
    BY <1>5
  <2> HIDE DEF m
  <2>3. \A b \in {0, 1} : [o \in Output |-> m[b][o]] = [o \in Output |-> [a \in Address |-> m[b][o][a]]]
    BY <2>1
  <2>4. m = [b \in {0, 1} |-> [o \in Output |-> [a \in Address |-> m[b][o][a]]]]
    BY <2>2, <2>3
  <2> QED BY <2>4 DEF m
<1> QED BY <1>4, <1>6

LEMMA MemoryKept ==
  ASSUME ReaderInv, CommitPorts, NEW s \in {0, 1}, Settled(s)
  PROVE  memory'[s] = memory[s]
<1> DEFINE m == memory
           n == memory'
<1>1. \A o \in Output, a \in Address : n[s][o][a] = m[s][o][a]
  <2>1. \A o \in Output : ports[s][o].we => m[s][o][ports[s][o].adr] = Value(ports[s][o])
    BY DEF Settled, Value
  <2>2. \A o \in Output, a \in Address :
          n[s][o][a] = IF ports[s][o].we /\ a = ports[s][o].adr
                         THEN Value(ports[s][o]) ELSE m[s][o][a]
    BY PortsToMemory
  <2> HIDE DEF Value
  <2> QED BY <2>1, <2>2
<1>2. /\ n = [b \in {0, 1} |-> [o \in Output |-> [a \in Address |-> n[b][o][a]]]]
      /\ m = [b \in {0, 1} |-> [o \in Output |-> [a \in Address |-> m[b][o][a]]]]
  BY PortsToMemory DEF ReaderInv, PortsInv
<1> HIDE DEF m, n
<1>3. /\ n[s] = [o \in Output |-> [a \in Address |-> n[s][o][a]]]
      /\ m[s] = [o \in Output |-> [a \in Address |-> m[s][o][a]]]
  BY <1>2
<1>4. \A o \in Output : [a \in Address |-> n[s][o][a]] = [a \in Address |-> m[s][o][a]]
  BY <1>1
<1>5. [o \in Output |-> [a \in Address |-> n[s][o][a]]] = [o \in Output |-> [a \in Address |-> m[s][o][a]]]
  BY <1>4
<1>6. n[s] = m[s]
  BY <1>3, <1>5
<1> QED BY <1>6 DEF n, m

(* The buffers, and the ports that have nothing left to write. *)
LEMMA PortsStep ==
  ASSUME ReaderInv, NEW start \in BOOLEAN, start => MayStart,
         NEW sink_ready \in BOOLEAN, NEW prevent_read \in BOOLEAN,
         ReaderClock(start, sink_ready, prevent_read)
  PROVE  PortsInv' /\ memory'[shifting_buffer] = memory[shifting_buffer]
<1>1. Writer(start) /\ CommitPorts /\ Client(start)
  BY DEF ReaderClock, Writer
<1>2. Writer(TRUE) \/ Writer(FALSE)
  BY <1>1
<1>3. /\ memory' = [b \in {0, 1} |-> [o \in Output |-> [a \in Address |-> memory'[b][o][a]]]]
      /\ \A b \in {0, 1}, o \in Output, a \in Address :
           memory'[b][o][a] = IF ports[b][o].we /\ a = ports[b][o].adr
                                THEN Value(ports[b][o]) ELSE memory[b][o][a]
  BY <1>1, PortsToMemory
<1>4. /\ ports \in [{0, 1} -> [Output -> Port]] /\ Buffer \in {0, 1} /\ shifting_buffer \in {0, 1}
      /\ Buffer # shifting_buffer /\ Buffer = 1 - shifting_buffer
  BY PortTypes DEF Buffer
<1>5. ASSUME NEW b \in {0, 1}, NEW o \in Output, b # Buffer \/ ~gamma_data_valid, ports'[b][o].we
      PROVE  memory'[b][o][ports'[b][o].adr] = Value(ports'[b][o])
  <2>1. ports[b][o].we /\ ports'[b][o].adr = ports[b][o].adr /\ ports'[b][o].dat_w = ports[b][o].dat_w
    BY <1>2, <1>4, <1>5, PixelToPorts, NoPixelToPorts
  <2>2. ports[b][o].adr \in Address
    BY <1>4 DEF Port
  <2>3. memory'[b][o][ports[b][o].adr] = Value(ports[b][o])
    BY <1>3, <2>1, <2>2
  <2> QED BY <2>1, <2>3 DEF Value
<1>6. ASSUME NEW b \in {0, 1}, b # Buffer \/ ~gamma_data_valid
      PROVE  \A o \in Output : ports'[b][o].we => memory'[b][o][ports'[b][o].adr] = Value(ports'[b][o])
  BY <1>5, <1>6
<1>7. /\ done => ~gamma_data_valid
      /\ shifting_buffer' = shifting_buffer \/ (done /\ shifting_buffer' = 1 - shifting_buffer)
      /\ done' => ~gamma_data_valid
  BY <1>1, Drained DEF Client, Writer, RowDone
<1>8. Settled(shifting_buffer)'
  BY <1>4, <1>6, <1>7 DEF Settled, Value
<1>9. done' => Settled(Buffer)'
  <2>1. SUFFICES ASSUME done' PROVE Settled(Buffer)'
    OBVIOUS
  <2>2. Buffer' \in {0, 1}
    BY <1>4, <1>7 DEF Buffer
  <2> QED BY <1>6, <1>7, <2>1, <2>2 DEF Settled, Value
<1>10. memory'[shifting_buffer] = memory[shifting_buffer]
  <2>1. Settled(shifting_buffer)
    BY DEF ReaderInv, PortsInv
  <2> QED BY <1>1, <1>4, <2>1, MemoryKept
<1> QED BY <1>3, <1>8, <1>9, <1>10 DEF PortsInv

(* Every register keeps to its range. *)
LEMMA TypeStep ==
  ASSUME ReaderInv, NEW start \in BOOLEAN, start => MayStart,
         NEW sink_ready \in BOOLEAN, NEW prevent_read \in BOOLEAN,
         ReaderClock(start, sink_ready, prevent_read)
  PROVE  ReaderTypeOK'
<1>1. /\ address_counter' \in 0..(RowPixels - 1) /\ counter_previous' \in 0..(RowPixels - 1)
      /\ started' \in BOOLEAN /\ config_lookup_valid' \in BOOLEAN
      /\ adr' \in Tag /\ adr_valid' \in BOOLEAN
  BY GeneratorStep DEF ReaderClock
<1>2. in_flight' \in Seq(Tag) /\ returned' \in 0..Len(in_flight') /\ rsv_level' \in Nat
  BY QueueStep
<1>3. source_ready' \in BOOLEAN
  BY DEF ReaderClock, TakeSource
<1>4. palette_data' \in Tag
  <2>1. returned > 0 => in_flight # <<>> /\ in_flight \in Seq(Tag)
    BY DEF ReaderInv, ReaderTypeOK
  <2>2. NoPixel \in Tag
    BY DEF Tag
  <2> QED BY <2>1, <2>2, HeadTailProperties DEF ReaderClock, Lookup, SourceValid
<1>5. /\ palette_data_valid' \in BOOLEAN /\ palette_data_done' \in BOOLEAN
      /\ gamma_data' \in Tag /\ gamma_data_valid' \in BOOLEAN /\ gamma_data_done' \in BOOLEAN
      /\ buffer_done' \in BOOLEAN
  BY DEF ReaderInv, ReaderTypeOK, ReaderClock, Lookup, Writer, SourceValid, RamDone, Empty
<1>6. done' \in BOOLEAN
  BY DEF ReaderClock, Writer, RowDone
<1>7. /\ swapped' \in BOOLEAN /\ row' \in 0..(RowCount - 1) /\ shifting_buffer' \in {0, 1}
  <2>1. row \in 0..(RowCount - 1) /\ shifting_buffer \in {0, 1}
    BY DEF ReaderInv, ReaderTypeOK
  <2>2. (row + 1) % RowCount \in 0..(RowCount - 1)
    BY <2>1, ReaderAssumption
  <2>3. swapped' \in BOOLEAN
    BY DEF ReaderClock, Client
  <2>4. /\ row' \in {row, (row + 1) % RowCount}
        /\ shifting_buffer' \in {shifting_buffer, 1 - shifting_buffer}
    BY DEF ReaderClock, Client
  <2>5. row' \in 0..(RowCount - 1)
    BY <2>1, <2>2, <2>4
  <2>6. shifting_buffer' \in {0, 1}
    BY <2>1, <2>4
  <2> QED BY <2>3, <2>5, <2>6
<1>8. fetched' \in Nat
  BY CountStep
<1>11. last_fetched' \in -1..(RowPixels - 1)
  <2>1. last_fetched \in -1..(RowPixels - 1) /\ gamma_data \in Tag
    BY DEF ReaderInv, ReaderTypeOK
  <2>2. gamma_data.number \in -1..(RowPixels - 1)
    BY <2>1, ReaderSizes DEF Tag, NoPixel
  <2> QED BY <2>1, <2>2, ReaderSizes DEF ReaderClock, CountFetched
<1>9. Writer(TRUE) \/ Writer(FALSE)
  BY DEF ReaderClock
<1>10. /\ ports' \in [{0, 1} -> [Output -> [we : BOOLEAN, adr : Address, dat_w : Tag]]]
       /\ buffer_counter' \in 0..(RowPixels - 1)
  <2>1. ports' \in [{0, 1} -> [Output -> [we : BOOLEAN, adr : Address, dat_w : Tag]]]
    BY <1>9, PixelToPorts, NoPixelToPorts DEF Port
  <2>2. ASSUME gamma_data_valid PROVE buffer_counter' \in 0..(RowPixels - 1)
    <3>1. buffer_counter' = IF buffer_counter = RowPixels - 1 THEN 0 ELSE buffer_counter + 1
      BY <1>9, <2>2, PixelToPorts
    <3>2. buffer_counter \in 0..(RowPixels - 1)
      BY PortTypes
    <3> QED BY <3>1, <3>2, ReaderSizes
  <2>3. ASSUME ~gamma_data_valid PROVE buffer_counter' \in 0..(RowPixels - 1)
    <3>1. buffer_counter' = IF RowDone THEN 0 ELSE buffer_counter
      BY <1>9, <2>3, NoPixelToPorts
    <3>2. buffer_counter \in 0..(RowPixels - 1)
      BY PortTypes
    <3> QED BY <3>1, <3>2, ReaderSizes
  <2> QED BY <2>1, <2>2, <2>3
<1> QED BY <1>1, <1>2, <1>3, <1>4, <1>5, <1>6, <1>7, <1>8, <1>10, <1>11 DEF ReaderTypeOK

(* The pixels stay in order. *)
LEMMA OrderStep ==
  ASSUME ReaderInv, NEW start \in BOOLEAN, start => MayStart,
         NEW sink_ready \in BOOLEAN, NEW prevent_read \in BOOLEAN,
         ReaderClock(start, sink_ready, prevent_read)
  PROVE  OrderInv'
<1> DEFINE enable == sink_ready /\ ~prevent_read
           move == address_counter < 2 \/ enable
           sent == adr_valid /\ ~prevent_read /\ sink_ready
           taken == IF returned > 0 THEN 1 ELSE 0
           added == IF sent THEN 1 ELSE 0
           coming == IF address_counter = 0 THEN 0 ELSE RowPixels - address_counter
           cl == Count(config_lookup_valid)
           ad == Count(adr_valid)
           pa == Count(palette_data_valid)
           ga == Count(gamma_data_valid)
           queue == Len(in_flight)
           in_palette == fetched + ga
           in_queue == in_palette + pa
<1>1. /\ address_counter \in 0..(RowPixels - 1) /\ started \in BOOLEAN
      /\ config_lookup_valid \in BOOLEAN /\ adr_valid \in BOOLEAN
      /\ palette_data_valid \in BOOLEAN /\ gamma_data_valid \in BOOLEAN
      /\ returned \in Nat /\ fetched \in Nat /\ queue \in Nat /\ done \in BOOLEAN
      /\ buffer_counter \in 0..(RowPixels - 1)
  BY DEF ReaderInv, ReaderTypeOK
<1>2. /\ palette_data' = (IF returned > 0 THEN Head(in_flight) ELSE NoPixel)
      /\ palette_data_valid' = (returned > 0)
      /\ gamma_data' = palette_data /\ gamma_data_valid' = palette_data_valid
      /\ fetched' = (IF start THEN 0 ELSE IF gamma_data_valid THEN fetched + 1 ELSE fetched)
      /\ done' = (RowDone \/ (done /\ ~start))
  BY DEF ReaderClock, Lookup, Writer, CountFetched, SourceValid
<1>3. /\ Len(in_flight') = queue - taken + added /\ (returned > 0 => queue > 0)
      /\ \A i \in 1..(queue - taken) : in_flight'[i] = in_flight[i + taken]
      /\ sent => in_flight'[Len(in_flight')] = adr
  BY QueueStep
<1>4. /\ CountPixels(start, move) /\ Stages(start, move)
  BY DEF ReaderClock, GeneratorTick, Move, Delay
<1>5. address_counter' = IF address_counter = 0
                              THEN IF start THEN 1 ELSE 0
                              ELSE IF ~move THEN address_counter
                              ELSE IF address_counter = RowPixels - 1 THEN 0 ELSE address_counter + 1
  BY <1>1, <1>4, CounterValue
<1>6. /\ move \in BOOLEAN /\ (address_counter < 2 => move)
      /\ (move /\ ~enable => address_counter < 2) /\ (sent => enable /\ adr_valid /\ move)
      /\ (adr_valid /\ enable => sent)
  BY <1>1
<1>7. OrderInv /\ StagesInv
  BY DEF ReaderInv
<1>8. buffer_counter = (IF done \/ fetched = RowPixels THEN 0 ELSE fetched)
  BY <1>7 DEF OrderInv
<1>9. Writer(TRUE) \/ Writer(FALSE)
  BY DEF ReaderClock
<1>13. /\ Lost \in Nat /\ Lost' \in Nat
       /\ ~start => /\ Lost' = 0 => Lost = 0
                    /\ adr_valid /\ address_counter < 2 /\ ~enable => Lost' # 0
  <2>1. /\ Lost \in Nat /\ Lost' \in Nat
        /\ ~start => Lost' >= Lost
        /\ ~start /\ adr_valid /\ address_counter < 2 /\ ~enable => Lost' > 0
    BY CountStep
  <2> HIDE DEF enable
  <2> QED BY <2>1
<1>14. LastInTurn'
  <2>1. /\ LastInTurn /\ last_fetched \in Int
        /\ gamma_data_valid => InTurn(gamma_data, fetched)
    BY <1>7 DEF OrderInv, ReaderInv, ReaderTypeOK
  <2>2. CASE start
    <3>1. fetched' = 0 /\ last_fetched' = -1
      BY <2>2 DEF ReaderClock, CountFetched
    <3> QED BY <3>1 DEF LastInTurn
  <2>3. CASE ~start /\ gamma_data_valid
    <3>1. ~done /\ fetched \in 0..(RowPixels - 1)
      BY <2>3, Arriving
    <3>2. buffer_counter = fetched
      BY <1>8, <3>1, ReaderSizes
    <3>3. gamma_data.row = row
      BY <2>1, <2>3 DEF InTurn, InRow
    <3>4. last_fetched' = gamma_data.number /\ fetched' = fetched + 1
      BY <2>3, <3>2, <3>3 DEF ReaderClock, CountFetched
    <3>5. /\ gamma_data.number >= fetched /\ (Lost = 0 => gamma_data.number = fetched)
          /\ fetched < RowPixels - Delay => gamma_data.number = fetched
      BY <2>1, <2>3 DEF InTurn, InRow
    <3>6. fetched' - 1 = fetched /\ (fetched' <= RowPixels - Delay => fetched < RowPixels - Delay)
      BY <3>1, <3>4, ReaderSizes
    <3> QED BY <1>13, <2>3, <3>4, <3>5, <3>6 DEF LastInTurn
  <2>4. CASE ~start /\ ~gamma_data_valid
    <3>1. last_fetched' = last_fetched /\ fetched' = fetched
      BY <2>4 DEF ReaderClock, CountFetched
    <3> QED BY <1>13, <2>1, <2>4, <3>1 DEF LastInTurn
  <2> QED BY <2>2, <2>3, <2>4
<1>10. buffer_counter' = IF done' \/ fetched' = RowPixels THEN 0 ELSE fetched'
  <2>1. CASE gamma_data_valid
    <3>1. ~done /\ fetched \in 0..(RowPixels - 1) /\ ~RowDone /\ ~start
      BY <2>1, Arriving DEF RowDone, MayStart
    <3>2. buffer_counter' = IF buffer_counter = RowPixels - 1 THEN 0 ELSE buffer_counter + 1
      BY <1>9, <2>1, PixelToPorts
    <3>3. fetched' = fetched + 1 /\ ~done' /\ buffer_counter = fetched
      BY <1>2, <1>8, <2>1, <3>1
    <3> QED BY <3>1, <3>2, <3>3, ReaderSizes
  <2>2. CASE ~gamma_data_valid
    <3>1. buffer_counter' = IF RowDone THEN 0 ELSE buffer_counter
      BY <1>9, <2>2, NoPixelToPorts
    <3>2. CASE start
      <4>1. done /\ ~RowDone
        BY <3>2, Drained DEF MayStart, RowDone
      <4>2. buffer_counter' = 0 /\ fetched' = 0
        BY <1>2, <1>8, <3>1, <3>2, <4>1
      <4> QED BY <4>2, ReaderSizes
    <3>3. CASE ~start
      <4>1. fetched' = fetched /\ done' = (RowDone \/ done)
        BY <1>2, <2>2, <3>3
      <4> QED BY <1>8, <3>1, <4>1
    <3> QED BY <3>2, <3>3
  <2> QED BY <2>1, <2>2
<1>11. CASE done
  <2>1. /\ ~config_lookup_valid /\ ~adr_valid /\ address_counter = 0
        /\ queue = 0 /\ returned = 0 /\ ~palette_data_valid
    BY <1>11, Drained
  <2>2. taken = 0 /\ added = 0
    BY <2>1
  <2>3. Len(in_flight') = 0
    BY <1>3, <2>1, <2>2
  <2>4. ~gamma_data_valid' /\ ~palette_data_valid'
    <3>1. ~palette_data_valid'
      <4>1. palette_data_valid' = (returned > 0)
        BY <1>2
      <4>2. ~(returned > 0)
        BY <2>1
      <4> QED BY <4>1, <4>2
    <3>2. gamma_data_valid' = FALSE
      BY <1>2, <2>1
    <3> QED BY <3>1, <3>2
  <2>5. move
    BY <1>6, <2>1
  <2>6. ~adr_valid' /\ (config_lookup_valid' <=> start) /\ counter_previous' = 0
    BY <1>4, <2>1, <2>5 DEF Stages, Running
  <2>7. start => address_counter' = 1
    BY <1>5, <2>1
  <2> QED BY <1>10, <1>14, <2>3, <2>4, <2>6, <2>7 DEF OrderInv
<1>12. CASE ~done
  <2>1. ~start
    BY <1>12 DEF MayStart
  <2>2. row' = row
    BY <1>12 DEF ReaderClock, Client
  <2>3. /\ ga' = pa /\ pa' = taken /\ fetched' = in_palette
        /\ ga \in {0, 1} /\ pa \in {0, 1} /\ ad \in {0, 1} /\ taken \in {0, 1} /\ added \in {0, 1}
    <3>1. ga' = pa
      BY <1>2 DEF Count
    <3>2. pa' = taken
      BY <1>2 DEF Count
    <3>3. fetched' = fetched + ga
      BY <1>1, <1>2, <2>1 DEF Count
    <3>4. ga \in {0, 1} /\ pa \in {0, 1} /\ ad \in {0, 1}
      BY DEF Count
    <3> QED BY <3>1, <3>2, <3>3, <3>4
  <2>4. in_palette \in Nat /\ in_queue \in Nat /\ in_palette' = in_queue /\ in_queue' = in_queue + taken
    BY <1>1, <2>3
  <2>13. ASSUME NEW pixel, NEW n, InTurn(pixel, n)
         PROVE  /\ pixel.row = row' /\ (n < RowPixels - Delay => pixel.number = n)
                /\ pixel.number >= n /\ (Lost' = 0 => pixel.number = n)
    BY <1>13, <2>1, <2>2, <2>13 DEF InTurn, InRow
  <2>5. gamma_data_valid' => InTurn(gamma_data, fetched)'
    <3>1. SUFFICES ASSUME palette_data_valid PROVE InTurn(gamma_data, fetched)'
      BY <1>2
    <3>2. InTurn(palette_data, in_palette)
      BY <1>7, <3>1 DEF OrderInv
    <3>3. gamma_data' = palette_data /\ fetched' = in_palette
      BY <1>2, <2>3
    <3> HIDE DEF in_palette
    <3> QED BY <2>13, <3>2, <3>3 DEF InTurn, InRow
  <2>6. ASSUME NEW i \in 1..queue PROVE InTurn(in_flight[i], in_queue + i - 1)
    BY <1>7, <2>6 DEF OrderInv
  <2>7. palette_data_valid' => InTurn(palette_data, in_palette)'
    <3>1. SUFFICES ASSUME returned > 0 PROVE InTurn(palette_data, in_palette)'
      BY <1>2
    <3>2. InTurn(in_flight[1], in_queue + 1 - 1) /\ in_queue + 1 - 1 = in_queue
      BY <1>1, <1>3, <2>4, <2>6, <3>1
    <3>3. palette_data' = in_flight[1]
      BY <1>1, <1>2, <1>3, <3>1
    <3>4. InTurn(palette_data', in_palette')
      <4> HIDE DEF in_palette, in_queue
      <4> QED BY <2>4, <3>2, <3>3
    <3> HIDE DEF in_palette
    <3> QED BY <2>13, <3>4 DEF InTurn, InRow
  <2>8. adr_valid => InTurn(adr, in_queue + queue)
    BY <1>7 DEF OrderInv
  <2>9. ASSUME NEW i \in 1..Len(in_flight') PROVE InTurn(in_flight[i], in_queue + i - 1)'
    <3>1. CASE i <= queue - taken
      <4>1. in_flight'[i] = in_flight[i + taken] /\ i + taken \in 1..queue
        BY <1>1, <1>3, <2>3, <2>9, <3>1
      <4>2. InTurn(in_flight[i + taken], in_queue + (i + taken) - 1)
        BY <2>6, <4>1
      <4>3. in_queue + (i + taken) - 1 = in_queue' + i - 1
        BY <2>3, <2>4, <2>9
      <4> HIDE DEF in_queue
      <4>4. InTurn(in_flight'[i], in_queue' + i - 1)
        BY <4>1, <4>2, <4>3
      <4> QED BY <2>13, <4>4 DEF InTurn, InRow
    <3>2. CASE i > queue - taken
      <4>1. sent /\ added = 1 /\ i = queue - taken + 1 /\ i = Len(in_flight')
        <5>1. added = 1
          <6>1. added \in {0, 1} /\ taken \in {0, 1} /\ queue \in Nat
            OBVIOUS
          <6>2. Len(in_flight') = queue - taken + added
            BY <1>3
          <6> HIDE DEF queue, taken, added, sent
          <6> QED BY <6>1, <6>2, <2>9, <3>2
        <5>2. sent
          BY <5>1
        <5>3. /\ queue \in Nat /\ taken \in {0, 1} /\ i \in 1..Len(in_flight')
              /\ Len(in_flight') = queue - taken + 1 /\ i > queue - taken
          BY <5>1, <1>1, <1>3, <2>3, <2>9, <3>2
        <5> HIDE DEF queue, taken, added, sent
        <5> QED BY <5>1, <5>2, <5>3
      <4>2. in_flight'[i] = adr /\ adr_valid
        BY <1>3, <1>6, <4>1
      <4>3. in_queue' + i - 1 = in_queue + queue
        <5> HIDE DEF in_queue, queue, taken, added, sent
        <5> QED BY <1>1, <2>3, <2>4, <4>1
      <4> HIDE DEF in_queue, queue
      <4>4. InTurn(in_flight'[i], in_queue' + i - 1)
        BY <2>8, <4>2, <4>3
      <4> QED BY <2>13, <4>4 DEF InTurn, InRow
    <3> QED BY <1>1, <2>3, <2>9, <3>1, <3>2
  <2>10. in_queue' + queue' = in_queue + queue + added
    <3>1. queue' = queue - taken + added
      BY <1>3
    <3> HIDE DEF in_queue, queue, taken, added
    <3> QED BY <3>1, <1>1, <2>3, <2>4
  <2>11. CASE move
    <3>1. /\ config_lookup_valid' = (address_counter # 0) /\ adr_valid' = config_lookup_valid
          /\ counter_previous' = address_counter /\ adr' = [number |-> counter_previous, row |-> row]
      BY <1>4, <2>1, <2>11 DEF Stages, Running
    <3>2. adr_valid' => InTurn(adr, in_queue + queue)'
      <4>1. SUFFICES ASSUME config_lookup_valid PROVE InTurn(adr, in_queue + queue)'
        BY <3>1
      <4>2. RowPixels - (coming + (1 + ad + queue + pa + ga) + fetched) = 0
        <5>1. Count(config_lookup_valid) = 1
          BY <4>1 DEF Count
        <5>2. RowPixels - (coming + (cl + ad + queue + pa + ga) + fetched) \in 0..Dropped
          BY DEF ReaderInv, CountInv, Lost
        <5>3. Dropped = 0
          BY <4>1 DEF Dropped
        <5>4. cl = 1
          BY <5>1
        <5> HIDE DEF coming, cl, ad, queue, pa, ga
        <5>5. RowPixels - (coming + (1 + ad + queue + pa + ga) + fetched) \in 0..0
          BY <5>2, <5>3, <5>4, Zenon
        <5> QED BY <5>5
      <4>3. counter_previous = (IF address_counter = 0 THEN RowPixels ELSE address_counter) - 1
        BY <1>7, <4>1 DEF OrderInv
      <4>4. coming \in Int /\ counter_previous = RowPixels - coming - 1
        BY <1>1, <4>3, ReaderSizes
      <4>5. in_queue + queue = counter_previous - ad
        <5>1. in_queue = fetched + ga + pa
          OBVIOUS
        <5> HIDE DEF in_queue, coming, queue, ad, pa, ga
        <5> QED BY <4>2, <4>4, <5>1, <1>1, <2>3, ReaderSizes
      <4>6. added = ad \/ (added = 0 /\ ad = 1 /\ address_counter = 0 /\ Lost' # 0)
        <5>1. CASE sent
          BY <5>1, <1>6 DEF Count
        <5>2. CASE ~sent /\ ~adr_valid
          BY <5>2 DEF Count
        <5>3. CASE ~sent /\ adr_valid
          <6>1. address_counter < 2 /\ address_counter # 1
            BY <1>6, <1>7, <2>11, <4>1, <5>3 DEF StagesInv
          <6>2. Lost' # 0
            BY <1>6, <1>13, <2>1, <5>3, <6>1
          <6> QED BY <1>1, <5>3, <6>1, <6>2 DEF Count
        <5> QED BY <5>1, <5>2, <5>3
      <4>7. counter_previous \in Int
        BY <4>4, ReaderSizes
      <4>8. adr'.row = row' /\ adr'.number = counter_previous
        BY <2>2, <3>1
      <4>9. /\ in_queue' + queue' < RowPixels - Delay => counter_previous = in_queue' + queue'
            /\ counter_previous >= in_queue' + queue'
            /\ Lost' = 0 => counter_previous = in_queue' + queue'
        <5>1. in_queue' + queue' = counter_previous - ad + added
          BY <2>10, <4>5
        <5>2. address_counter = 0 => counter_previous = RowPixels - 1
          BY <4>3
        <5> HIDE DEF in_queue, queue, ad, added
        <5> QED BY <5>1, <5>2, <4>6, <4>7, <2>3, ReaderSizes
      <4> HIDE DEF in_queue, queue
      <4> QED BY <4>8, <4>9 DEF InTurn, InRow
    <3>3. config_lookup_valid' =>
            counter_previous' = (IF address_counter' = 0 THEN RowPixels ELSE address_counter') - 1
      BY <1>1, <1>5, <2>11, <3>1, ReaderSizes
    <3> QED BY <1>10, <1>14, <2>5, <2>7, <2>9, <3>2, <3>3 DEF OrderInv
  <2>12. CASE ~move
    <3>1. /\ UNCHANGED <<config_lookup_valid, counter_previous, adr_valid, adr>>
          /\ address_counter' = address_counter /\ added = 0
      BY <1>1, <1>4, <1>5, <1>6, <2>12 DEF Stages
    <3>2. in_queue' + queue' = in_queue + queue
      BY <2>10, <3>1, <1>1, <2>4
    <3>3. adr_valid' => InTurn(adr, in_queue + queue)'
      <4>1. adr_valid => InTurn(adr', in_queue' + queue')
        <5> HIDE DEF in_queue, queue
        <5> QED BY <2>8, <3>1, <3>2
      <4> HIDE DEF in_queue, queue
      <4> QED BY <2>13, <3>1, <4>1 DEF InTurn, InRow
    <3>4. config_lookup_valid' =>
            counter_previous' = (IF address_counter' = 0 THEN RowPixels ELSE address_counter') - 1
      BY <1>7, <3>1 DEF OrderInv
    <3> QED BY <1>10, <1>14, <2>5, <2>7, <2>9, <3>3, <3>4 DEF OrderInv
  <2> QED BY <1>6, <2>11, <2>12
<1> QED BY <1>1, <1>11, <1>12

(* The pixel that arrives is one behind the pixel written last, and if it  *)
(* is not one of the last, exactly the next.                               *)
LEMMA NextIsBehind ==
  ASSUME ReaderInv, gamma_data_valid
  PROVE  /\ gamma_data.row = row /\ buffer_counter = fetched
         /\ gamma_data.number \in (last_fetched + 1)..(RowPixels - 1)
         /\ fetched < RowPixels - Delay => gamma_data.number = fetched
<1>1. ~done /\ fetched \in 0..(RowPixels - 1)
  BY Arriving
<1>2. /\ LastInTurn /\ InTurn(gamma_data, fetched) /\ buffer_counter = fetched
  BY <1>1, ReaderSizes DEF ReaderInv, OrderInv
<1>3. /\ last_fetched \in -1..(RowPixels - 1) /\ gamma_data \in Tag
      /\ Len(in_flight) \in Nat /\ address_counter \in 0..(RowPixels - 1)
  BY DEF ReaderInv, ReaderTypeOK
<1>4. fetched = RowPixels - 1 => Lost = 0
  <2>1. Lost \in Nat
    <3>1. Dropped \in Nat
      BY ReaderSizes DEF Dropped, Count
    <3> QED BY <3>1 DEF ReaderInv, CountInv
  <2>2. fetched = RowPixels - 1 => Lost <= 0
    BY <1>3, ReaderSizes DEF Lost, Count
  <2> QED BY <2>1, <2>2
<1>5. /\ gamma_data.number >= fetched /\ gamma_data.row = row
      /\ fetched < RowPixels - Delay => gamma_data.number = fetched
      /\ Lost = 0 => gamma_data.number = fetched
  BY <1>2 DEF InTurn, InRow
<1>6. gamma_data.number \in -1..(RowPixels - 1)
  BY <1>3, ReaderSizes DEF Tag, NoPixel
<1>7. /\ fetched <= RowPixels - Delay => last_fetched = fetched - 1
      /\ Lost = 0 => last_fetched = fetched - 1
  BY <1>2 DEF LastInTurn
<1>8. last_fetched < gamma_data.number
  <2>1. CASE fetched = RowPixels - 1
    BY <1>1, <1>4, <1>5, <1>7, <2>1
  <2>2. CASE fetched # RowPixels - 1
    <3>1. fetched <= RowPixels - Delay
      BY <1>1, <2>2, ReaderSizes
    <3> QED BY <1>1, <1>5, <1>6, <1>7, <3>1, ReaderSizes
  <2> QED BY <2>1, <2>2
<1> QED BY <1>2, <1>3, <1>5, <1>6, <1>8, ReaderSizes

(* The end of a row is seen when nothing of it is under way. *)
LEMMA Finished ==
  ASSUME ReaderInv, RowDone
  PROVE  /\ ~started /\ ~done /\ ~gamma_data_valid /\ fetched \in (RowPixels - 2)..RowPixels
<1>1. ~gamma_data_valid /\ gamma_data_done /\ ~buffer_done
  BY DEF RowDone
<1>2. ~done /\ ~started
  BY <1>1 DEF ReaderInv, DoneInv
<1>3. palette_data_done /\ ~palette_data_valid /\ RamDone
  BY <1>1, <1>2 DEF ReaderInv, DoneInv
<1>4. ~config_lookup_valid /\ ~adr_valid /\ address_counter = 0
  BY <1>2 DEF ReaderInv, StagesInv
<1>5. Len(in_flight) = 0
  BY <1>3 DEF ReaderInv, ReservationsExact, RamDone, Empty
<1>6. RowPixels - fetched \in 0..2
  BY <1>1, <1>3, <1>4, <1>5, ReaderSizes
     DEF ReaderInv, ReaderTypeOK, CountInv, Lost, Count, Dropped
<1>7. fetched \in (RowPixels - 2)..RowPixels
  BY <1>6, ReaderSizes DEF ReaderInv, ReaderTypeOK
<1> QED BY <1>1, <1>2, <1>7

(* What is in the buffer stays there until the buffers are swapped, and    *)
(* the pixel at the port joins it.                                         *)
LEMMA WrittenKept ==
  ASSUME ReaderInv, CommitPorts, NEW n \in 0..(RowPixels - 1 - Delay),
         fetched \in 1..RowPixels, AtPort(fetched - 1), n < fetched - 1 => Written(n), n < fetched
  PROVE  memory'[Buffer][OutputOf(n)][BufferAddress(NumberIn(n))] = Pixel(row, Place(NumberIn(n)))
<1> DEFINE o == OutputOf(n)
           a == BufferAddress(NumberIn(n))
           last == fetched - 1
<1>1. /\ n \in 0..(RowPixels - 1) /\ last \in 0..(RowPixels - 1) /\ n < RowPixels - Delay
  BY ReaderSizes
<1>2. o \in Output /\ a \in Address
  BY <1>1, PortOfPixel, BufferAddresses
<1>3. memory'[Buffer][o][a] = IF ports[Buffer][o].we /\ a = ports[Buffer][o].adr
                                THEN Value(ports[Buffer][o]) ELSE memory[Buffer][o][a]
  BY <1>2, PortsToMemory, PortTypes
<1>4. /\ \A p \in Output : ports[Buffer][p].we <=> p = OutputOf(last)
      /\ ports[Buffer][OutputOf(last)].adr = BufferAddress(NumberIn(last))
      /\ InRow(ports[Buffer][OutputOf(last)].dat_w, last)
  BY DEF AtPort
<1>5. CASE n = last
  <2>1. ports[Buffer][o].we /\ a = ports[Buffer][o].adr
    BY <1>2, <1>4, <1>5
  <2>2. ports[Buffer][o].dat_w.row = row /\ ports[Buffer][o].dat_w.number = n
    BY <1>1, <1>4, <1>5 DEF InRow
  <2>3. Value(ports[Buffer][o]) = Pixel(row, Place(NumberIn(n)))
    BY <2>2 DEF Value
  <2> QED BY <1>3, <2>1, <2>3
<1>6. CASE n # last
  <2>1. Written(n)
    BY <1>1, <1>6
  <2>2. ~(ports[Buffer][o].we /\ a = ports[Buffer][o].adr)
    <3>1. SUFFICES ASSUME ports[Buffer][o].we, a = ports[Buffer][o].adr PROVE FALSE
      OBVIOUS
    <3>2. o = OutputOf(last)
      BY <1>2, <1>4, <3>1
    <3>3. BufferAddress(NumberIn(n)) = BufferAddress(NumberIn(last))
      BY <1>4, <3>1, <3>2
    <3> HIDE DEF last
    <3> QED BY <1>1, <1>6, <3>2, <3>3, PixelsApart DEF o
  <2> QED BY <1>3, <2>1, <2>2 DEF Written
<1> QED BY <1>5, <1>6

(* The pixel that arrives takes the port over from the one before it. *)
LEMMA PortsTaken ==
  ASSUME ReaderInv, gamma_data_valid, Writer(TRUE) \/ Writer(FALSE),
         fetched > 0 => AtPort(fetched - 1)
  PROVE  /\ \A o \in Output : ports'[Buffer][o].we <=> o = OutputOf(fetched)
         /\ ports'[Buffer][OutputOf(fetched)].adr = BufferAddress(NumberIn(fetched))
         /\ InRow(ports'[Buffer][OutputOf(fetched)].dat_w, fetched)
<1> DEFINE f == OutputOf(fetched)
<1>1. ~done /\ fetched \in 0..(RowPixels - 1)
  BY Arriving
<1>2. buffer_counter = fetched /\ InRow(gamma_data, fetched)
  BY <1>1 DEF ReaderInv, OrderInv, InTurn
<1>3. f \in Output /\ BufferSelect = f
  BY <1>1, <1>2, PortOfPixel DEF BufferSelect
<1>4. \A o \in Output :
              /\ ports'[Buffer][o].adr = BufferAddress(NumberIn(fetched))
              /\ ports'[Buffer][o].dat_w = gamma_data
              /\ ports'[Buffer][o].we <=> o = f \/ (o # Before(f) /\ ports[Buffer][o].we)
  BY <1>2, <1>3, PixelToPorts
<1>5. ASSUME NEW o \in Output, o # f, ports[Buffer][o].we PROVE o = Before(f)
  <2>1. CASE fetched = 0
    <3>1. f = 0 /\ Before(f) = Outputs - 1
      BY <1>3, <2>1, PortOfEnds, BeforeOutput
    <3>2. o = Outputs - 1
      BY <1>5, <2>1 DEF ReaderInv, WrittenInv, OnlyLast
    <3> QED BY <3>1, <3>2
  <2>2. CASE fetched # 0
    <3>1. o = OutputOf(fetched - 1)
      BY <1>1, <1>5, <2>2 DEF AtPort
    <3>2. OutputOf((fetched - 1) + 1) \in {OutputOf(fetched - 1), OutputOf(fetched - 1) + 1}
      <4>1. fetched - 1 \in 0..(RowPixels - 2)
        BY <1>1, <2>2, ReaderSizes
      <4> QED BY <4>1, PortOfNext
    <3>3. (fetched - 1) + 1 = fetched
      BY <1>1
    <3>4. f = o + 1
      BY <1>5, <3>1, <3>2, <3>3
    <3>5. o \in Nat
      BY DEF Output
    <3>6. Before(f) = o
      BY <1>3, <3>4, <3>5, BeforeOutput
    <3> QED BY <3>6
  <2> QED BY <2>1, <2>2
<1>6. \A o \in Output : ports'[Buffer][o].we <=> o = f
  BY <1>4, <1>5
<1> QED BY <1>2, <1>3, <1>4, <1>6
(* What is written, from one clock to the next. *)
LEMMA WrittenStep ==
  ASSUME ReaderInv, NEW start \in BOOLEAN, start => MayStart,
         NEW sink_ready \in BOOLEAN, NEW prevent_read \in BOOLEAN,
         ReaderClock(start, sink_ready, prevent_read)
  PROVE  WrittenInv'
<1>1. Writer(start) /\ CommitPorts /\ Client(start) /\ (Writer(TRUE) \/ Writer(FALSE))
  BY DEF ReaderClock, Writer
<1>2. /\ fetched' = (IF start THEN 0 ELSE IF gamma_data_valid THEN fetched + 1 ELSE fetched)
      /\ done' = (RowDone \/ (done /\ ~start))
  BY DEF ReaderClock, CountFetched, Writer
<1>3. /\ ports \in [{0, 1} -> [Output -> Port]] /\ Buffer \in {0, 1} /\ shifting_buffer \in {0, 1}
      /\ Buffer = 1 - shifting_buffer /\ Buffer # shifting_buffer
  BY PortTypes DEF Buffer
<1>4. fetched \in Nat /\ fetched <= RowPixels
  <2>1. /\ fetched \in Nat /\ Len(in_flight) \in Nat /\ address_counter \in 0..(RowPixels - 1)
    BY DEF ReaderInv, ReaderTypeOK
  <2> QED BY <2>1, ReaderSizes DEF ReaderInv, CountInv, Lost, Count, Dropped
<1>5. WrittenInv
  BY DEF ReaderInv
<1>6. CASE done
  <2>1. ~gamma_data_valid /\ buffer_done /\ fetched > 0
    BY <1>6, Drained, ReaderSizes
  <2>2. ~RowDone
    BY <2>1 DEF RowDone
  <2>3. ports' = ports
    BY <1>1, <2>1, <2>2 DEF Writer, WritePixel, FinishRow, WriteNothing
  <2>4. memory'[Buffer] = memory[Buffer]
    BY <1>1, <1>3, <1>6, MemoryKept DEF ReaderInv, PortsInv
  <2>5. OnlyLast(shifting_buffer) /\ OnlyLast(Buffer)
    BY <1>5, <1>6 DEF WrittenInv
  <2>6. \A b \in {0, 1} : OnlyLast(b)'
    BY <1>3, <2>3, <2>5 DEF OnlyLast
  <2>7. Buffer' \in {0, 1} /\ shifting_buffer' \in {0, 1}
    BY <1>1, <1>3 DEF Client, Buffer
  <2>8. OnlyLast(shifting_buffer)' /\ OnlyLast(Buffer)'
    BY <2>6, <2>7 DEF OnlyLast
  <2>9. done' = ~start
    BY <1>2, <1>6, <2>2
  <2>10. CASE start
    <3>1. fetched' = 0 /\ ~done'
      BY <1>2, <2>9, <2>10
    <3>2. \A n \in 0..(RowPixels - 1 - Delay) : ~(n < fetched' - 1)
      BY <3>1, ReaderSizes
    <3> QED BY <2>8, <3>1, <3>2 DEF WrittenInv
  <2>11. CASE ~start /\ swapped'
    BY <2>8, <2>9, <2>11 DEF WrittenInv
  <2>12. CASE ~start /\ ~swapped'
    <3>1. /\ ~swapped /\ row' = row /\ shifting_buffer' = shifting_buffer
      BY <1>1, <2>12 DEF Client
    <3>2. fetched' = fetched /\ done' /\ Buffer' = Buffer
      BY <1>2, <2>1, <2>9, <2>12, <3>1 DEF Buffer
    <3>3. CASE NothingYet
      <4>1. NothingYet'
        BY <2>3, <2>4, <3>2, <3>3 DEF NothingYet
      <4> QED BY <2>8, <4>1 DEF WrittenInv
    <3>4. CASE ~NothingYet
      <4>1. ASSUME NEW n \in 0..(RowPixels - 1 - Delay), n < fetched
            PROVE  Written(n)'
        <5>1. n < fetched - 1 \/ (done /\ n < fetched)
          BY <1>6, <4>1
        <5>2. Written(n)
          BY <1>5, <3>1, <3>4, <5>1 DEF WrittenInv
        <5> QED BY <2>4, <3>1, <3>2, <5>2 DEF Written
      <4>2. \A n \in 0..(RowPixels - 1 - Delay) : n < fetched - 1 \/ n < fetched => Written(n)'
        BY <1>4, <4>1
      <4> QED BY <2>8, <3>2, <4>2 DEF WrittenInv
    <3> QED BY <3>3, <3>4
  <2> QED BY <2>10, <2>11, <2>12
<1>7. CASE ~done
  <2>1. ~start /\ shifting_buffer' = shifting_buffer /\ row' = row /\ Buffer' = Buffer
    BY <1>1, <1>7 DEF Client, MayStart, Buffer
  <2>2. ports'[shifting_buffer] = ports[shifting_buffer]
    BY <1>1, <1>3, PixelToPorts, NoPixelToPorts
  <2>3. OnlyLast(shifting_buffer)'
    BY <1>5, <2>1, <2>2 DEF OnlyLast, WrittenInv
  <2>4. ASSUME fetched \in 1..RowPixels, ~NothingYet,
               NEW n \in 0..(RowPixels - 1 - Delay), n < fetched
        PROVE  Written(n)'
    <3>1. AtPort(fetched - 1) /\ (n < fetched - 1 => Written(n))
      BY <1>5, <1>7, <2>4 DEF WrittenInv
    <3>2. memory'[Buffer][OutputOf(n)][BufferAddress(NumberIn(n))] = Pixel(row, Place(NumberIn(n)))
      BY <1>1, <2>4, <3>1, WrittenKept
    <3> QED BY <2>1, <3>2 DEF Written
  <2>5. CASE gamma_data_valid
    <3>1. fetched \in 0..(RowPixels - 1) /\ ~RowDone
      BY <2>5, Arriving DEF RowDone
    <3>2. fetched' = fetched + 1 /\ ~done'
      BY <1>2, <1>7, <2>1, <2>5, <3>1
    <3>3. ~NothingYet
      BY <3>1, ReaderSizes DEF NothingYet
    <3>4. fetched > 0 => AtPort(fetched - 1)
      BY <1>5, <1>7, <3>3 DEF WrittenInv
    <3>5. fetched' - 1 = fetched
      BY <3>1, <3>2
    <3>6. AtPort(fetched - 1)'
      <4>1. /\ \A o \in Output : ports'[Buffer][o].we <=> o = OutputOf(fetched)
            /\ ports'[Buffer][OutputOf(fetched)].adr = BufferAddress(NumberIn(fetched))
            /\ InRow(ports'[Buffer][OutputOf(fetched)].dat_w, fetched)
        BY <1>1, <2>5, <3>4, PortsTaken
      <4> QED BY <2>1, <3>5, <4>1 DEF AtPort, InRow
    <3>7. ASSUME NEW n \in 0..(RowPixels - 1 - Delay), n < fetched' - 1 PROVE Written(n)'
      <4>1. n < fetched /\ fetched \in 1..RowPixels
        BY <3>1, <3>5, <3>7, ReaderSizes
      <4> QED BY <2>4, <3>3, <4>1
    <3>8. fetched' # 0
      BY <3>1, <3>2
    <3> QED BY <2>3, <3>2, <3>6, <3>7, <3>8 DEF WrittenInv
  <2>6. CASE ~gamma_data_valid
    <3>1. fetched' = fetched /\ (done' <=> RowDone)
      <4>1. fetched' = fetched
        BY <1>2, <2>1, <2>6
      <4>2. done' <=> RowDone
        BY <1>2, <1>7, Zenon
      <4> QED BY <4>1, <4>2
    <3>2. \A o \in Output :
              /\ ports'[Buffer][o].adr = ports[Buffer][o].adr
              /\ ports'[Buffer][o].dat_w = ports[Buffer][o].dat_w
              /\ ports'[Buffer][o].we <=>
                   ports[Buffer][o].we /\ ~(RowDone /\ o = Before(BufferSelect))
      BY <1>1, <2>6, NoPixelToPorts
    <3>3. CASE NothingYet
      <4>1. \A o \in Output : ~ports[Buffer][o].we
        BY <3>3 DEF NothingYet
      <4>2. memory'[Buffer] = memory[Buffer]
        BY <1>1, <1>3, <4>1, MemoryKept DEF Settled
      <4>3. \A o \in Output : ~ports'[Buffer][o].we
        BY <3>2, <4>1
      <4>4. NothingYet' /\ OnlyLast(Buffer)'
        BY <2>1, <3>1, <3>3, <4>2, <4>3 DEF NothingYet, OnlyLast
      <4> QED BY <2>3, <4>4 DEF WrittenInv
    <3>4. CASE ~NothingYet /\ RowDone
      <4>1. done' /\ fetched \in (RowPixels - 2)..RowPixels /\ fetched \in 1..RowPixels
        BY <3>1, <3>4, Finished, ReaderSizes
      <4>2. AtPort(fetched - 1)
        BY <1>5, <1>7, <3>4, <4>1 DEF WrittenInv
      <4>3. buffer_counter = IF fetched = RowPixels THEN 0 ELSE fetched
        BY <1>7 DEF ReaderInv, OrderInv
      <4>4. ASSUME NEW o \in Output, ports[Buffer][o].we, o # Before(BufferSelect)
            PROVE  o = Outputs - 1
        <5>1. o = OutputOf(fetched - 1)
          BY <4>2, <4>4 DEF AtPort
        <5>2. CASE fetched \in {RowPixels - 1, RowPixels}
          <6>1. fetched - 1 \in {RowPixels - 2, RowPixels - 1}
            BY <5>2, ReaderSizes
          <6> QED BY <5>1, <6>1, PortOfEnds
        <5>3. CASE fetched = RowPixels - 2
          <6>1. BufferSelect = Outputs - 1
            BY <4>3, <5>3, PortOfEnds, ReaderSizes DEF BufferSelect
          <6>2. fetched - 1 \in 0..(RowPixels - 2) /\ (fetched - 1) + 1 = RowPixels - 2
            BY <5>3, ReaderSizes
          <6>3. OutputOf((fetched - 1) + 1) \in {OutputOf(fetched - 1), OutputOf(fetched - 1) + 1}
            BY <6>2, PortOfNext
          <6>4. Outputs - 1 \in {o, o + 1}
            BY <5>1, <6>2, <6>3, PortOfEnds
          <6>5. Outputs - 1 # o + 1
            <7>1. SUFFICES ASSUME Outputs - 1 = o + 1 PROVE FALSE
              OBVIOUS
            <7>2. o \in Nat /\ Outputs - 1 \in Output
              BY ReaderSizes DEF Output
            <7>3. Before(BufferSelect) = o
              BY <6>1, <7>1, <7>2, BeforeOutput
            <7> QED BY <4>4, <7>3
          <6> QED BY <6>4, <6>5
        <5> QED BY <4>1, <5>2, <5>3, ReaderSizes
      <4>5. OnlyLast(Buffer)'
        BY <2>1, <3>2, <3>4, <4>4 DEF OnlyLast
      <4>6. \A n \in 0..(RowPixels - 1 - Delay) : n < fetched' - 1 \/ n < fetched' => Written(n)'
        <5>1. \A n \in 0..(RowPixels - 1 - Delay) : n < fetched - 1 => n < fetched
          BY <1>4, ReaderSizes
        <5> QED BY <2>4, <3>1, <3>4, <4>1, <5>1
      <4> QED BY <2>3, <4>1, <4>5, <4>6 DEF WrittenInv
    <3>5. CASE ~NothingYet /\ ~RowDone
      <4>1. ~done'
        BY <3>1, <3>5
      <4>2. fetched' = 0 => OnlyLast(Buffer)'
        BY <1>5, <2>1, <3>1, <3>2, <3>5 DEF WrittenInv, OnlyLast
      <4>3. fetched' > 0 => AtPort(fetched - 1)'
        <5>1. SUFFICES ASSUME fetched > 0 PROVE AtPort(fetched - 1)'
          BY <3>1
        <5>2. AtPort(fetched - 1)
          BY <1>5, <1>7, <3>5, <5>1 DEF WrittenInv
        <5>3. OutputOf(fetched - 1) \in Output
          <6>1. fetched - 1 \in 0..(RowPixels - 1)
            BY <1>4, <5>1, ReaderSizes
          <6> QED BY <6>1, PortOfPixel
        <5> QED BY <2>1, <3>1, <3>2, <3>5, <5>2, <5>3 DEF AtPort, InRow
      <4>4. ASSUME NEW n \in 0..(RowPixels - 1 - Delay), n < fetched' - 1 PROVE Written(n)'
        <5>1. n < fetched /\ fetched \in 1..RowPixels
          BY <1>4, <3>1, <4>4, ReaderSizes
        <5> QED BY <2>4, <3>5, <5>1
      <4> QED BY <2>3, <4>1, <4>2, <4>3, <4>4 DEF WrittenInv
    <3> QED BY <3>3, <3>4, <3>5
  <2> QED BY <2>5, <2>6
<1> QED BY <1>6, <1>7
(* What a clock takes from outside. *)
LEMMA Inputs ==
  ASSUME ReaderInv, ReaderTick
  PROVE  \E start \in BOOLEAN, sink_ready \in BOOLEAN, prevent_read \in BOOLEAN :
           (start => MayStart) /\ ReaderClock(start, sink_ready, prevent_read)
<1>1. PICK start \in {FALSE, MayStart}, sink_ready \in {FALSE, Len(in_flight) < FifoDepth},
           prevent_read \in BOOLEAN : ReaderClock(start, sink_ready, prevent_read)
  BY DEF ReaderTick
<1>2. MayStart \in BOOLEAN /\ (Len(in_flight) < FifoDepth) \in BOOLEAN
  BY DEF MayStart
<1>3. start \in BOOLEAN /\ sink_ready \in BOOLEAN
  <2>1. start = FALSE \/ start = MayStart
    OBVIOUS
  <2>2. sink_ready = FALSE \/ sink_ready = (Len(in_flight) < FifoDepth)
    OBVIOUS
  <2>3. start \in BOOLEAN
    BY <2>1, <1>2, Zenon
  <2>4. sink_ready \in BOOLEAN
    BY <2>2, <1>2, Zenon
  <2> QED BY <2>3, <2>4
<1>4. start => MayStart
  <2>1. start = FALSE \/ start = MayStart
    OBVIOUS
  <2> QED BY <2>1, Zenon
<1> QED BY <1>1, <1>3, <1>4

LEMMA InvStep == ReaderInv /\ [ReaderTick]_reader_vars => ReaderInv'
<1> SUFFICES ASSUME ReaderInv, [ReaderTick]_reader_vars PROVE ReaderInv'
  OBVIOUS
<1>1. CASE ReaderTick
  <2>1. PICK start \in BOOLEAN, sink_ready \in BOOLEAN, prevent_read \in BOOLEAN :
               (start => MayStart) /\ ReaderClock(start, sink_ready, prevent_read)
    BY <1>1, Inputs
  <2>2. ReaderTypeOK' /\ SourceNeverHeld' /\ ReservationsExact'
    BY <2>1, TypeStep, QueueStep
  <2>3. StagesInv'
    BY <2>1, GeneratorStep DEF ReaderClock
  <2>4. DoneInv' /\ CountInv'
    BY <2>1, DoneStep, CountStep
  <2>5. PortsInv'
    BY <2>1, PortsStep
  <2>6. OrderInv' /\ WrittenInv'
    BY <2>1, OrderStep, WrittenStep
  <2> QED BY <2>2, <2>3, <2>4, <2>5, <2>6 DEF ReaderInv
<1>2. CASE UNCHANGED reader_vars
  <2>1. ReaderTypeOK' /\ SourceNeverHeld' /\ ReservationsExact' /\ StagesInv' /\ DoneInv'
    BY <1>2 DEF reader_vars, generator_vars, dma_vars, data_vars, writer_vars, client_vars,
                ReaderInv, ReaderTypeOK, SourceNeverHeld, SourceValid, ReservationsExact,
                StagesInv, DoneInv, RamDone, Empty
  <2>2. CountInv'
    BY <1>2 DEF reader_vars, generator_vars, dma_vars, data_vars, writer_vars, client_vars,
                ReaderInv, CountInv, Lost, Count, Dropped
  <2>3. PortsInv'
    BY <1>2 DEF reader_vars, writer_vars, client_vars, ReaderInv, PortsInv, Settled, Buffer
  <2>4. OrderInv'
    BY <1>2 DEF reader_vars, generator_vars, dma_vars, data_vars, writer_vars, client_vars,
                ReaderInv, OrderInv, LastInTurn, InTurn, InRow, Lost, Count
  <2>5. WrittenInv'
    BY <1>2 DEF reader_vars, writer_vars, client_vars, ReaderInv, WrittenInv, OnlyLast,
                NothingYet, AtPort, InRow, Written, Buffer
  <2> QED BY <2>1, <2>2, <2>3, <2>4, <2>5 DEF ReaderInv
<1> QED BY <1>1, <1>2

(***************************************************************************)
(* The theorems.                                                           *)
(***************************************************************************)

(* The invariant holds: every pixel of a row is in one place of the        *)
(* pipeline of RamToBufferReader and in order, from the address counter to *)
(* the row buffer, but for the last ones that its end may drop.            *)
THEOREM ReaderInvariant == ReaderSpec => []ReaderInv
<1>1. ReaderInit => ReaderInv
  BY InvInit
<1>2. ReaderInv /\ [ReaderTick]_reader_vars => ReaderInv'
  BY InvStep
<1> QED BY <1>1, <1>2, PTL DEF ReaderSpec

(* A pixel that the pipeline counts is taken from the DMA reader in the    *)
(* same clock, whatever the memory does: none is written twice.            *)
THEOREM SourceIsNeverHeld == ReaderSpec => []SourceNeverHeld
<1>1. ReaderInv => SourceNeverHeld
  BY DEF ReaderInv
<1> QED BY <1>1, ReaderInvariant, PTL

(* The reader's count of the pixels in flight is exact: the end of a row   *)
(* is seen neither early nor never.                                        *)
THEOREM ReservationsAreExact == ReaderSpec => []ReservationsExact
<1>1. ReaderInv => ReservationsExact
  BY DEF ReaderInv
<1> QED BY <1>1, ReaderInvariant, PTL

(* When done rises, every pixel of the row but the last two is in the row  *)
(* buffer, at the place the shifter reads it from.                         *)
THEOREM RowIsWritten == ReaderSpec => []RowWritten
<1>1. ReaderInv => RowWritten
  <2> SUFFICES ASSUME ReaderInv, RowIsRead, NEW n \in 0..(RowPixels - 1 - Delay) PROVE Written(n)
    BY DEF RowWritten
  <2>1. done /\ ~swapped /\ memory[Buffer] # EmptyBuffer
    BY DEF RowIsRead
  <2>2. n < fetched
    BY <2>1, Drained, ReaderSizes
  <2> QED BY <2>1, <2>2 DEF ReaderInv, WrittenInv, NothingYet
<1> QED BY <1>1, ReaderInvariant, PTL

(* The reader leaves the buffer alone that the shifter shows, though a     *)
(* write port may still be enabled when its buffer is swapped away.        *)
THEOREM ShownBufferIsUntouched == ReaderSpec => ShownBufferUntouched
<1>1. ReaderInv /\ [ReaderTick]_reader_vars =>
        [memory'[shifting_buffer] = memory[shifting_buffer]]_reader_vars
  <2> SUFFICES ASSUME ReaderInv, ReaderTick PROVE memory'[shifting_buffer] = memory[shifting_buffer]
    OBVIOUS
  <2>1. PICK start \in BOOLEAN, sink_ready \in BOOLEAN, prevent_read \in BOOLEAN :
               (start => MayStart) /\ ReaderClock(start, sink_ready, prevent_read)
    BY Inputs
  <2> QED BY <2>1, PortsStep
<1> QED BY <1>1, ReaderInvariant, PTL DEF ReaderSpec, ShownBufferUntouched

(* The reader is what the row controller and the panel driver take it for: *)
(* it writes after a start only, each pixel of the row it was asked for to *)
(* its place, and is done when at most Delay of them are missing.  A pixel *)
(* of the last Delay may come to the place before its own.                 *)
THEOREM ReaderImplementsRowFetch == ReaderSpec => ImplementsRowFetch
<1>1. ReaderInit => Fetch!FetchInit
  BY DEF ReaderInit, Fetch!FetchInit
<1>2. ReaderInv /\ [ReaderTick]_reader_vars =>
        [\E start \in BOOLEAN : (start => done) /\ Fetch!FetchTick(start)]_Fetch!fetch_vars
  <2> SUFFICES ASSUME ReaderInv, [ReaderTick]_reader_vars
               PROVE  [\E start \in BOOLEAN : (start => done) /\ Fetch!FetchTick(start)]_Fetch!fetch_vars
    OBVIOUS
  <2>1. CASE UNCHANGED reader_vars
    BY <2>1 DEF reader_vars, writer_vars, client_vars, Fetch!fetch_vars
  <2>2. CASE ReaderTick
    <3>1. PICK start \in BOOLEAN, sink_ready \in BOOLEAN, prevent_read \in BOOLEAN :
                 (start => MayStart) /\ ReaderClock(start, sink_ready, prevent_read)
      BY <2>2, Inputs
    <3>2. (start => done) /\ done \in BOOLEAN
      BY <3>1 DEF MayStart, ReaderInv, ReaderTypeOK
    <3>3. /\ fetched' = (IF start THEN 0 ELSE IF gamma_data_valid THEN fetched + 1 ELSE fetched)
          /\ done' = (RowDone \/ (done /\ ~start))
          /\ start => last_fetched' = -1
          /\ ~start /\ ~gamma_data_valid => last_fetched' = last_fetched
          /\ ~start /\ gamma_data_valid /\ gamma_data.row = row /\ buffer_counter = fetched =>
               last_fetched' = gamma_data.number
      BY <3>1 DEF ReaderClock, CountFetched, Writer
    <3>4. CASE start
      <4>1. ~RowDone
        BY <3>2, <3>4, Finished
      <4>2. done' = FALSE /\ fetched' = 0 /\ last_fetched' = -1
        BY <3>3, <3>4, <4>1
      <4> QED BY <3>2, <3>4, <4>2 DEF Fetch!FetchTick, Fetch!FetchStart
    <3>5. CASE ~start /\ gamma_data_valid
      <4>1. ~done /\ fetched < RowPixels /\ ~RowDone
        BY <3>5, Arriving, ReaderSizes DEF RowDone
      <4>2. done' = done /\ fetched' = fetched + 1
        BY <3>2, <3>3, <3>5, <4>1
      <4>3. last_fetched' \in (last_fetched + 1)..(RowPixels - 1)
            /\ (fetched < RowPixels - Delay => last_fetched' = fetched)
        BY <3>3, <3>5, NextIsBehind
      <4> QED BY <3>5, <4>1, <4>2, <4>3 DEF Fetch!FetchTick, Fetch!FetchPixel
    <3>6. CASE ~start /\ RowDone
      <4>1. ~done /\ ~gamma_data_valid /\ fetched >= RowPixels - Delay
        BY <3>6, Finished, ReaderSizes
      <4>2. done' = TRUE /\ fetched' = fetched /\ last_fetched' = last_fetched
        BY <3>3, <3>6, <4>1
      <4> QED BY <3>6, <4>1, <4>2 DEF Fetch!FetchTick, Fetch!FetchFinish
    <3>7. CASE ~start /\ ~gamma_data_valid /\ ~RowDone
      <4>1. done' = done
        BY <3>2, <3>3, <3>7
      <4>2. fetched' = fetched /\ last_fetched' = last_fetched
        BY <3>3, <3>7
      <4> QED BY <4>1, <4>2 DEF Fetch!fetch_vars
    <3> QED BY <3>2, <3>4, <3>5, <3>6, <3>7
  <2> QED BY <2>1, <2>2
<1> QED BY <1>1, <1>2, ReaderInvariant, PTL DEF ReaderSpec, ImplementsRowFetch, Fetch!FetchSpec

(***************************************************************************)
(* The addresses: arithmetic.                                              *)
(***************************************************************************)

(* Panels and rows are not empty. *)
LEMMA PanelSizes ==
  /\ Columns \in Nat \ {0} /\ Lines \in Nat \ {0} /\ RowCount \in Nat \ {0}
  /\ OutputPixels \in Nat \ {0} /\ RowPixels \in Nat \ {0}
<1>1. Columns \in Nat \ {0} /\ Chain \in Nat \ {0} /\ Outputs \in Nat \ {0} /\ RowCount \in Nat \ {0}
  BY GeometryAssumption, AddressAssumption
<1>2. Lines \in Nat \ {0}
  BY <1>1 DEF Lines
<1>3. 2 * Chain \in Nat \ {0}
  BY <1>1
<1>4. OutputPixels \in Nat \ {0}
  BY <1>1, <1>3 DEF OutputPixels
<1>5. RowPixels \in Nat \ {0}
  BY <1>1, <1>4 DEF RowPixels
<1> QED BY <1>1, <1>2, <1>4, <1>5

(* The offset of an LED lies in the rectangle of its turned panel. *)
LEMMA OffsetInside ==
  ASSUME NEW config \in [x : Nat, y : Nat, rot : 0..3], NEW led \in Led
  PROVE  /\ Offset(config.rot, led).x \in 0..(WidthOf(config) - 1)
         /\ Offset(config.rot, led).y \in 0..(HeightOf(config) - 1)
<1>1. /\ Columns \in Nat \ {0} /\ Lines \in Nat \ {0}
      /\ led.column \in 0..(Columns - 1) /\ led.line \in 0..(Lines - 1)
  BY PanelSizes DEF Led
<1>2. CASE config.rot = 0
  BY <1>1, <1>2 DEF Offset, WidthOf, HeightOf
<1>3. CASE config.rot = 1
  BY <1>1, <1>3 DEF Offset, WidthOf, HeightOf
<1>4. CASE config.rot = 2
  BY <1>1, <1>4 DEF Offset, WidthOf, HeightOf
<1>5. CASE config.rot = 3
  BY <1>1, <1>5 DEF Offset, WidthOf, HeightOf
<1> QED BY <1>2, <1>3, <1>4, <1>5

(* Two LEDs of a panel have different offsets. *)
LEMMA OffsetInjective ==
  ASSUME NEW rot \in 0..3, NEW a \in Led, NEW b \in Led,
         Offset(rot, a).x = Offset(rot, b).x, Offset(rot, a).y = Offset(rot, b).y
  PROVE  a = b
<1>1. /\ Columns \in Nat /\ Lines \in Nat
      /\ a.column \in Nat /\ a.line \in Nat /\ b.column \in Nat /\ b.line \in Nat
  BY PanelSizes DEF Led
<1>2. a.column = b.column /\ a.line = b.line
  <2>1. CASE rot = 0
    BY <1>1, <2>1 DEF Offset
  <2>2. CASE rot = 1
    BY <1>1, <2>2 DEF Offset
  <2>3. CASE rot = 2
    BY <1>1, <2>3 DEF Offset
  <2>4. CASE rot = 3
    BY <1>1, <2>4 DEF Offset
  <2> QED BY <2>1, <2>2, <2>3, <2>4
<1> QED BY <1>2 DEF Led

(* The code's four cases are the quarter turns of a panel. *)
LEMMA OffsetIsTurn ==
  ASSUME NEW rot \in 0..3, NEW led \in Led
  PROVE  /\ Turned(rot, OnPanel(led)).x = Offset(rot, led).x
         /\ Turned(rot, OnPanel(led)).y = Offset(rot, led).y
<1>1. /\ Columns \in Nat /\ Lines \in Nat /\ led.column \in Nat /\ led.line \in Nat
  BY PanelSizes DEF Led
<1>2. CASE rot = 0
  BY <1>1, <1>2 DEF Offset, Turned, OnPanel
<1>3. CASE rot = 1
  BY <1>1, <1>3 DEF Offset, Turned, TurnOnce, OnPanel
<1>4. CASE rot = 2
  BY <1>1, <1>4 DEF Offset, Turned, TurnOnce, OnPanel
<1>5. CASE rot = 3
  BY <1>1, <1>5 DEF Offset, Turned, TurnOnce, OnPanel
<1> QED BY <1>2, <1>3, <1>4, <1>5

(* A line of an image ends before any later one begins. *)
LEMMA LineBelow ==
  ASSUME NEW width \in Nat, NEW y \in Nat, NEW z \in Nat, y < z
  PROVE  y * width + width <= z * width
<1>1. PICK d \in Nat : z = y + 1 + d
  <2>1. z - y - 1 \in Nat /\ z = y + 1 + (z - y - 1)
    OBVIOUS
  <2> QED BY <2>1
<1>2. z * width = y * width + width + d * width
  BY <1>1
<1>3. d * width \in Nat /\ y * width \in Nat /\ z * width \in Nat
  BY <1>1
<1> QED BY <1>2, <1>3

(* Points of an image have different addresses. *)
LEMMA RowMajor ==
  ASSUME NEW width \in Nat,
         NEW x1 \in 0..(width - 1), NEW x2 \in 0..(width - 1), NEW y1 \in Nat, NEW y2 \in Nat,
         y1 * width + x1 = y2 * width + x2
  PROVE  x1 = x2 /\ y1 = y2
<1>1. ASSUME NEW y \in Nat, NEW z \in Nat, y < z
      PROVE  y * width + width <= z * width
  BY <1>1, LineBelow
<1>2. y1 * width \in Nat /\ y2 * width \in Nat
  OBVIOUS
<1>3. ~(y1 < y2)
  BY <1>1, <1>2
<1>4. ~(y2 < y1)
  BY <1>1, <1>2
<1>5. y1 = y2
  BY <1>3, <1>4
<1> QED BY <1>2, <1>5

(* The address without its base, in rows and columns. *)
LEMMA Regroup ==
  ASSUME NEW base \in Nat, NEW m1 \in Nat, NEW m2 \in Nat,
         NEW o1 \in Nat, NEW o2 \in Nat, NEW p1 \in Nat, NEW p2 \in Nat,
         base + m1 + o1 + p1 = base + m2 + o2 + p2
  PROVE  m1 + (o1 + p1) = m2 + (o2 + p2)
OBVIOUS

(* Side by side panels do not share a pixel. *)
LEMMA PanelsShareNothing ==
  ASSUME NEW width \in Nat, NEW c \in [x : Nat, y : Nat, rot : 0..3],
         NEW d \in [x : Nat, y : Nat, rot : 0..3], NEW a \in Led, NEW b \in Led,
         c.x * Lines + WidthOf(c) <= width, d.x * Lines + WidthOf(d) <= width,
         AddressOf(c, width, a) = AddressOf(d, width, b)
  PROVE  /\ ~Apart(c, d)
         /\ c = d => a = b
<1> DEFINE oc == Offset(c.rot, a)
           od == Offset(d.rot, b)
<1>1. /\ Columns \in Nat \ {0} /\ Lines \in Nat \ {0} /\ sdram_offset \in Nat
      /\ c.x \in Nat /\ c.y \in Nat /\ c.rot \in 0..3 /\ d.x \in Nat /\ d.y \in Nat
  BY PanelSizes, AddressAssumption
<1>2. /\ oc.x \in 0..(WidthOf(c) - 1) /\ oc.y \in 0..(HeightOf(c) - 1)
      /\ od.x \in 0..(WidthOf(d) - 1) /\ od.y \in 0..(HeightOf(d) - 1)
  BY OffsetInside
<1>3. /\ WidthOf(c) \in Nat /\ WidthOf(d) \in Nat /\ HeightOf(c) \in Nat /\ HeightOf(d) \in Nat
  BY <1>1 DEF WidthOf, HeightOf
<1>4. c.x * Lines \in Nat /\ d.x * Lines \in Nat /\ c.y * Lines \in Nat /\ d.y * Lines \in Nat
  BY <1>1
<1> DEFINE x1 == oc.x + c.x * Lines
           x2 == od.x + d.x * Lines
           y1 == oc.y + c.y * Lines
           y2 == od.y + d.y * Lines
<1>5. x1 \in 0..(width - 1) /\ x2 \in 0..(width - 1) /\ y1 \in Nat /\ y2 \in Nat
  BY <1>2, <1>3, <1>4
<1>6. y1 * width + x1 = y2 * width + x2
  <2>1. AddressOf(c, width, a) = sdram_offset + y1 * width + oc.x + c.x * Lines
    BY DEF AddressOf
  <2>2. AddressOf(d, width, b) = sdram_offset + y2 * width + od.x + d.x * Lines
    BY DEF AddressOf
  <2> DEFINE m1 == y1 * width
             m2 == y2 * width
             o1 == oc.x
             o2 == od.x
             p1 == c.x * Lines
             p2 == d.x * Lines
  <2>3. /\ m1 \in Nat /\ m2 \in Nat /\ p1 \in Nat /\ p2 \in Nat
        /\ o1 \in Nat /\ o2 \in Nat
    BY <1>2, <1>3, <1>4, <1>5
  <2>4. sdram_offset + m1 + o1 + p1 = sdram_offset + m2 + o2 + p2
    BY <2>1, <2>2
  <2>5. m1 + (o1 + p1) = m2 + (o2 + p2)
    <3> HIDE DEF m1, m2, o1, o2, p1, p2
    <3> QED BY <2>3, <2>4, <1>1, Regroup
  <2> QED BY <2>5
<1>7. x1 = x2 /\ y1 = y2
  <2> HIDE DEF x1, x2, y1, y2
  <2> QED BY <1>5, <1>6, RowMajor
<1>8. ~Apart(c, d)
  <2> HIDE DEF oc, od
  <2> QED BY <1>2, <1>3, <1>4, <1>7 DEF Apart
<1>9. ASSUME c = d PROVE a = b
  <2>1. oc.x = od.x /\ oc.y = od.y
    <3> HIDE DEF oc, od
    <3> QED BY <1>2, <1>3, <1>4, <1>7, <1>9
  <2> QED BY <1>1, <1>9, <2>1, OffsetInjective
<1> QED BY <1>8, <1>9

(* A panel whose lines end within the memory is addressed there, and the   *)
(* port cuts nothing off.                                                  *)
LEMMA PortKeeps ==
  ASSUME NEW c \in [x : Nat, y : Nat, rot : 0..3], NEW led \in Led, image_width \in Nat,
         Inside(c), InMemory(c)
  PROVE  PortAddress(AddressOf(c, image_width, led)) = AddressOf(c, image_width, led)
<1> DEFINE o == Offset(c.rot, led)
           x == o.x + c.x * Lines
           y == o.y + c.y * Lines
           z == c.y * Lines + HeightOf(c)
           address_of == AddressOf(c, image_width, led)
<1>1. Lines \in Nat /\ sdram_offset \in Nat /\ c.x \in Nat /\ c.y \in Nat /\ MemoryWords \in Nat
  BY PanelSizes, AddressAssumption
<1>2. o.x \in 0..(WidthOf(c) - 1) /\ o.y \in 0..(HeightOf(c) - 1)
  BY OffsetInside
<1>3. WidthOf(c) \in Nat /\ HeightOf(c) \in Nat
  BY PanelSizes DEF WidthOf, HeightOf
<1>4. c.x * Lines \in Nat /\ c.y * Lines \in Nat
  BY <1>1
<1>5. x \in 0..(image_width - 1) /\ y \in Nat /\ z \in Nat /\ y < z
  BY <1>2, <1>3, <1>4 DEF Inside
<1>6. address_of = sdram_offset + y * image_width + x
  <2>1. address_of = sdram_offset + y * image_width + o.x + c.x * Lines
    BY DEF AddressOf
  <2>2. y * image_width \in Nat /\ o.x \in Nat
    BY <1>2, <1>3, <1>5
  <2> QED BY <1>1, <1>4, <2>1, <2>2
<1>7. sdram_offset + z * image_width <= MemoryWords
  BY DEF InMemory
<1> HIDE DEF x, y, z, address_of
<1>8. y * image_width + image_width <= z * image_width
  BY <1>5, LineBelow
<1>9. y * image_width \in Nat /\ z * image_width \in Nat
  BY <1>5
<1>10. address_of \in 0..(MemoryWords - 1)
  BY <1>1, <1>5, <1>6, <1>7, <1>8, <1>9
<1>11. PortAddress(address_of) = address_of
  BY <1>1, <1>10 DEF PortAddress
<1> QED BY <1>11 DEF address_of

(***************************************************************************)
(* The pipeline.  Its lemmas are about a step of the generator alone, with *)
(* the conditions of the step as Booleans.                                 *)
(***************************************************************************)

LEMMA AddressInitInv == AddressInit => AddressInv
<1> SUFFICES ASSUME AddressInit PROVE AddressInv
  OBVIOUS
<1>1. 0 \in 0..(RowPixels - 1) /\ 0 \in Nat
  BY PanelSizes
<1>2. AddressTypeOK
  BY <1>1 DEF AddressTypeOK, AddressInit, GeneratorInit
<1>3. PipelineInv
  BY DEF PipelineInv, AddressInit, GeneratorInit
<1>4. AddressRight
  BY DEF AddressRight, AddressInit, GeneratorInit
<1> QED BY <1>2, <1>3, <1>4 DEF AddressInv

(* The addresses the code computes are the ones of the turned panels. *)
LEMMA AddressIsImage ==
  ASSUME NEW config \in [x : Nat, y : Nat, rot : 0..3], NEW led \in Led, image_width \in Nat
  PROVE  /\ AddressOf(config, image_width, led) = ImageAddress(config, led)
         /\ AddressOf(config, image_width, led) \in Nat
<1> DEFINE offset == Offset(config.rot, led)
           point == Turned(config.rot, OnPanel(led))
           p == config.x * Lines
           q == config.y * Lines
<1>1. point.x = offset.x /\ point.y = offset.y
  BY OffsetIsTurn
<1>2. /\ p \in Nat /\ q \in Nat /\ sdram_offset \in Nat
      /\ offset.x \in Nat /\ offset.y \in Nat
  <2>1. Lines \in Nat /\ WidthOf(config) \in Nat /\ HeightOf(config) \in Nat
    BY PanelSizes DEF WidthOf, HeightOf
  <2> QED BY <2>1, OffsetInside, AddressAssumption
<1> DEFINE o1 == offset.x
           o2 == offset.y
           m == (o2 + q) * image_width
<1>3. m \in Nat /\ o1 \in Nat /\ o2 \in Nat
  BY <1>2
<1>4. AddressOf(config, image_width, led) = sdram_offset + m + o1 + p
  BY DEF AddressOf
<1>5. ImageAddress(config, led) = sdram_offset + m + p + o1
  <2>1. ImageAddress(config, led) = sdram_offset + (q + point.y) * image_width + p + point.x
    BY DEF ImageAddress
  <2>2. q + point.y = o2 + q
    <3> HIDE DEF q
    <3> QED BY <1>1, <1>2
  <2> HIDE DEF p, q, point
  <2> QED BY <1>1, <2>1, <2>2
<1> HIDE DEF m, o1, p
<1> QED BY <1>2, <1>3, <1>4, <1>5

(* Every pixel of a row is on a panel. *)
LEMMA PanelOfPixel ==
  ASSUME NEW n \in 0..(RowPixels - 1)
  PROVE  PanelOf(n) \in Panel
<1> DEFINE k == 2 * Columns
           panels == Outputs * Chain
           q == PanelOf(n)
<1>1. /\ k \in Nat \ {0} /\ Outputs \in Nat \ {0} /\ Chain \in Nat \ {0} /\ Columns \in Nat \ {0}
      /\ n \in Nat /\ RowPixels \in Nat
  BY PanelSizes, GeometryAssumption
<1>2. panels \in Nat
  BY <1>1
<1>3. RowPixels = panels * k
  BY <1>1 DEF RowPixels, OutputPixels
<1>4. q \in Nat /\ q * k <= n
  <2> HIDE DEF k
  <2>1. q = n \div k
    BY DEF PanelOf, k
  <2> HIDE DEF q
  <2> QED BY <1>1, <2>1
<1>5. ASSUME q >= panels PROVE FALSE
  <2> HIDE DEF k, panels, q
  <2>1. PICK d \in Nat : q = panels + d
    BY <1>2, <1>4, <1>5
  <2>2. q * k = panels * k + d * k /\ d * k \in Nat /\ panels * k \in Nat
    BY <1>1, <1>2, <2>1
  <2> QED BY <1>1, <1>3, <1>4, <2>2
<1>6. q < panels
  <2> HIDE DEF panels, q
  <2> QED BY <1>2, <1>4, <1>5
<1> HIDE DEF q, panels
<1>7. q \in 0..(panels - 1)
  BY <1>2, <1>4, <1>6
<1> QED BY <1>7 DEF q, panels, Panel

(* Every pixel of a row is an LED of its panel. *)
LEMMA LedOfPixel ==
  ASSUME NEW n \in 0..(RowPixels - 1), NEW r \in 0..(RowCount - 1)
  PROVE  LedOf(n, r) \in Led
<1> DEFINE h == (n \div Columns) % 2
<1>1. Columns \in Nat \ {0} /\ RowCount \in Nat \ {0} /\ n \in Nat /\ Lines = 2 * RowCount
  BY PanelSizes DEF Lines
<1>2. n \div Columns \in Nat /\ n % Columns \in 0..(Columns - 1)
  BY <1>1
<1>3. h \in {0, 1}
  BY <1>2
<1> HIDE DEF h
<1>4. h * RowCount + r \in 0..(Lines - 1)
  <2>1. CASE h = 0
    BY <1>1, <2>1
  <2>2. CASE h = 1
    BY <1>1, <2>2
  <2> QED BY <1>3, <2>1, <2>2
<1> QED BY <1>2, <1>4 DEF LedOf, Led, h

(* The counter stays in its range. *)
LEMMA CounterInRange ==
  ASSUME address_counter \in 0..(RowPixels - 1), NEW start, NEW move, CountPixels(start, move),
         RowPixels > 1
  PROVE  /\ address_counter' \in 0..(RowPixels - 1)
         /\ address_counter # 0 /\ ~move => address_counter' = address_counter
         /\ address_counter = 0 /\ ~start => address_counter' = 0
<1>1. RowPixels \in Nat
  BY PanelSizes
<1>2. (address_counter + 1) % RowPixels \in 0..(RowPixels - 1)
  BY <1>1
<1> QED BY <1>1, <1>2 DEF CountPixels

LEMMA RowsLong == RowPixels > 1
<1>1. /\ 2 * Chain \in Nat /\ 2 * Chain > 1 /\ Columns \in Nat \ {0} /\ Outputs \in Nat \ {0}
  BY GeometryAssumption
<1>2. 2 * Chain * Columns \in Nat /\ 2 * Chain * Columns > 1
  BY <1>1
<1>3. OutputPixels \in Nat /\ OutputPixels > 1
  BY <1>2 DEF OutputPixels
<1> QED BY <1>1, <1>3 DEF RowPixels

(* A clock of the generator and its registers keeps the invariant. *)
LEMMA AddressTickInv == AddressInv /\ AddressTick => AddressInv'
<1> SUFFICES ASSUME AddressInv, AddressTick PROVE AddressInv'
  OBVIOUS
<1> USE DEF AddressInv
<1>1. PICK start \in {FALSE, ~started}, enable \in BOOLEAN :
        /\ GeneratorTick(start, enable)
        /\ LookUpConfig(Move(enable))
        /\ Compute(Move(enable))
        /\ WriteConfig
        /\ ChangeRow(start)
        /\ rewritten' = (config_vars' # config_vars \/ (rewritten /\ ~start))
  BY DEF AddressTick
<1> DEFINE move == Move(enable)
<1>2. /\ CountPixels(start, move)
      /\ Stages(start, move)
      /\ Started(start, move)
  BY <1>1 DEF GeneratorTick
<1>3. /\ start => ~started
      /\ start \in BOOLEAN
      /\ address_counter = 0 => move
  <2>1. start \in BOOLEAN /\ (start => ~started)
    BY <1>1, Zenon DEF AddressTypeOK
  <2>2. address_counter = 0 => move
    BY DEF Move, Delay
  <2> QED BY <2>1, <2>2, Zenon
<1>4. address_counter' \in 0..(RowPixels - 1)
  <2> HIDE DEF move
  <2> QED BY <1>2, CounterInRange, RowsLong DEF AddressTypeOK
<1>5. row \in 0..(RowCount - 1) /\ row' \in 0..(RowCount - 1)
  BY <1>1 DEF ChangeRow, AddressTypeOK
<1>6. panel_config' \in [Panel -> PanelConfig] /\ image_width' \in Widths
  BY <1>1 DEF WriteConfig, config_vars, AddressTypeOK
<1>7. LedOf(counter_previous, row) \in Led /\ PanelOf(address_counter) \in Panel
  BY <1>5, LedOfPixel, PanelOfPixel DEF AddressTypeOK
<1>8. cur_panel_config \in [x : Nat, y : Nat, rot : 0..3] /\ image_width \in Nat
  BY AddressAssumption DEF AddressTypeOK, NoConfig
<1>9. AddressTypeOK'
  <2>1. cur_panel_config' \in PanelConfig \cup {NoConfig}
    BY <1>1, <1>7 DEF LookUpConfig, AddressTypeOK
  <2>2. address' \in Nat
    BY <1>1, <1>7, <1>8, AddressIsImage DEF Compute, AddressTypeOK
  <2>3. /\ counter_previous' \in 0..(RowPixels - 1)
        /\ adr' \in {NoPixel} \cup [number : 0..(RowPixels - 1), row : 0..(RowCount - 1)]
    BY <1>2, <1>5 DEF Stages, AddressTypeOK
  <2>4. config_lookup_valid' \in BOOLEAN /\ adr_valid' \in BOOLEAN
    BY <1>2, <1>3, Zenon DEF Stages, Running, AddressTypeOK
  <2>5. started' \in BOOLEAN
    BY <1>2, <1>3, Zenon DEF Started, AddressTypeOK
  <2>6. rewritten' \in BOOLEAN
    BY <1>1, Zenon
  <2> QED BY <1>4, <1>5, <1>6, <2>1, <2>2, <2>3, <2>4, <2>5, <2>6 DEF AddressTypeOK
<1> HIDE DEF move
<1>10.
     /\ move => /\ config_lookup_valid' <=> (start \/ address_counter # 0)
                /\ adr_valid' <=> config_lookup_valid
                /\ counter_previous' = address_counter
                /\ adr' = [number |-> counter_previous, row |-> row]
                /\ cur_panel_config' = panel_config[PanelOf(address_counter)]
                /\ address' = AddressOf(cur_panel_config, image_width, LedOf(counter_previous, row))
     /\ ~move => /\ config_lookup_valid' <=> config_lookup_valid
                 /\ adr_valid' <=> adr_valid
                 /\ UNCHANGED <<counter_previous, adr, cur_panel_config, address>>
  <2>1. ASSUME move PROVE /\ config_lookup_valid' = Running(start)
                          /\ adr_valid' = config_lookup_valid
                          /\ counter_previous' = address_counter
                          /\ adr' = [number |-> counter_previous, row |-> row]
    BY <1>2, <2>1, Zenon DEF Stages
  <2>2. ASSUME ~move PROVE UNCHANGED <<config_lookup_valid, counter_previous, adr_valid, adr>>
    BY <1>2, <2>2, Zenon DEF Stages
  <2>3. ASSUME move PROVE /\ cur_panel_config' = panel_config[PanelOf(address_counter)]
                          /\ address' = AddressOf(cur_panel_config, image_width, LedOf(counter_previous, row))
    BY <1>1, <2>3 DEF LookUpConfig, Compute, move
  <2>4. ASSUME ~move PROVE UNCHANGED <<cur_panel_config, address>>
    BY <1>1, <2>4 DEF LookUpConfig, Compute, move
  <2>5. move => (config_lookup_valid' <=> start \/ address_counter # 0)
    BY <2>1, Zenon DEF Running
  <2>6. move => (adr_valid' <=> config_lookup_valid)
    BY <2>1, Zenon
  <2>7. ~move => (config_lookup_valid' <=> config_lookup_valid) /\ (adr_valid' <=> adr_valid)
    BY <2>2, Zenon
  <2> HIDE DEF move
  <2> QED BY <2>1, <2>2, <2>3, <2>4, <2>5, <2>6, <2>7
<1>11. started' <=> ~(move /\ adr_valid /\ ~config_lookup_valid) /\ (started \/ start)
  BY <1>2, Zenon DEF Started
<1>12. ~rewritten' => UNCHANGED <<panel_config, image_width>> /\ (~rewritten \/ start)
  BY <1>1, Zenon DEF config_vars
<1>13.
     /\ address_counter # 0 /\ ~move => address_counter' = address_counter
     /\ address_counter = 0 /\ ~start => address_counter' = 0
  BY <1>2, CounterInRange, RowsLong DEF AddressTypeOK
<1>14.
     /\ ~started => ~config_lookup_valid /\ ~adr_valid
     /\ address_counter # 0 => started /\ config_lookup_valid
     /\ config_lookup_valid /\ ~rewritten =>
          cur_panel_config = panel_config[PanelOf(counter_previous)]
     /\ adr_valid /\ ~rewritten =>
          address = ImageAddress(panel_config[PanelOf(adr.number)], LedOf(adr.number, adr.row))
  BY DEF PipelineInv, AddressRight
<1>15. PipelineInv'
  <2>1. ~started' => ~config_lookup_valid' /\ ~adr_valid'
    BY <1>3, <1>10, <1>11, <1>14, Zenon
  <2>2. address_counter' # 0 => started' /\ config_lookup_valid'
    BY <1>3, <1>10, <1>11, <1>13, <1>14, Zenon
  <2>3. config_lookup_valid' /\ ~rewritten' =>
          cur_panel_config' = panel_config'[PanelOf(counter_previous')]
    <3> SUFFICES ASSUME config_lookup_valid', ~rewritten'
                 PROVE  cur_panel_config' = panel_config'[PanelOf(counter_previous')]
      OBVIOUS
    <3>1. UNCHANGED panel_config
      BY <1>12
    <3>2. CASE move
      BY <1>10, <3>1, <3>2
    <3>3. CASE ~move
      <4>1. config_lookup_valid /\ ~rewritten
        BY <1>3, <1>10, <1>12, <1>14, <3>3, Zenon
      <4> QED BY <1>10, <1>14, <3>1, <3>3, <4>1
    <3> QED BY <3>2, <3>3
  <2> QED BY <2>1, <2>2, <2>3 DEF PipelineInv, PanelOf
<1>16. AddressRight'
  <2>1. ~rewritten' => UNCHANGED <<panel_config, image_width>>
    BY <1>12
  <2> SUFFICES ASSUME adr_valid', ~rewritten'
               PROVE  address' = ImageAddress(panel_config[PanelOf(adr'.number)],
                                              LedOf(adr'.number, adr'.row))
    BY <2>1 DEF AddressRight, ImageAddress, PanelOf, LedOf
  <2>2. CASE move
    <3>1. config_lookup_valid /\ ~rewritten
      BY <1>3, <1>10, <1>12, <1>14, <2>2, Zenon
    <3>2. cur_panel_config = panel_config[PanelOf(counter_previous)]
      BY <1>14, <3>1
    <3>3. adr'.number = counter_previous /\ adr'.row = row
      BY <1>10, <2>2
    <3> QED BY <1>7, <1>8, <1>10, <2>2, <3>2, <3>3, AddressIsImage
  <2>3. CASE ~move
    <3>1. adr_valid /\ ~rewritten
      BY <1>3, <1>10, <1>12, <1>14, <2>3, Zenon
    <3> QED BY <1>10, <1>14, <2>3, <3>1
  <2> QED BY <2>2, <2>3
<1> QED BY <1>9, <1>15, <1>16

LEMMA AddressStep == AddressInv /\ [AddressTick]_address_vars => AddressInv'
<1>1. CASE AddressTick
  BY <1>1, AddressTickInv
<1>2. CASE UNCHANGED address_vars
  BY <1>2 DEF AddressInv, AddressTypeOK, PipelineInv, AddressRight, ImageAddress,
              address_vars, generator_vars, config_vars
<1> QED BY <1>1, <1>2

(* The invariant of the pipeline holds for every number and size of panels *)
(* and whatever the CPU writes to the registers.                           *)
THEOREM AddressInvHolds == AddressSpec => []AddressInv
<1>1. AddressInit => AddressInv
  BY AddressInitInv
<1>2. AddressInv /\ [AddressTick]_address_vars => AddressInv'
  BY AddressStep
<1> QED BY <1>1, <1>2, PTL DEF AddressSpec

(* Every pixel of a row is addressed on its own panel, turned as often as  *)
(* the panel's register says.                                              *)
THEOREM AddressesRight == AddressSpec => []AddressRight
<1>1. AddressInv => AddressRight
  BY DEF AddressInv
<1> QED BY <1>1, AddressInvHolds, PTL

(* Panels side by side on the image never show the same word of the memory *)
(* twice, provided that the lines they show end within it.                 *)
THEOREM LedsStayApart == AddressSpec => []LedsApart
<1>1. AddressInv => LedsApart
  <2> SUFFICES ASSUME AddressInv, NEW p \in Panel, NEW q \in Panel, NEW a \in Led, NEW b \in Led,
                      \A c \in {panel_config[p], panel_config[q]} : Inside(c) /\ InMemory(c),
                      p = q \/ Apart(panel_config[p], panel_config[q]),
                      PortAddress(AddressOf(panel_config[p], image_width, a)) =
                        PortAddress(AddressOf(panel_config[q], image_width, b))
               PROVE  p = q /\ a = b
    BY DEF LedsApart
  <2>1. /\ image_width \in Nat
        /\ panel_config[p] \in [x : Nat, y : Nat, rot : 0..3]
        /\ panel_config[q] \in [x : Nat, y : Nat, rot : 0..3]
    BY AddressAssumption DEF AddressInv, AddressTypeOK
  <2>2. AddressOf(panel_config[p], image_width, a) = AddressOf(panel_config[q], image_width, b)
    BY <2>1, PortKeeps
  <2>3. /\ ~Apart(panel_config[p], panel_config[q])
        /\ panel_config[p] = panel_config[q] => a = b
    BY <2>1, <2>2, PanelsShareNothing DEF Inside
  <2> QED BY <2>3
<1> QED BY <1>1, AddressInvHolds, PTL
===============================================================================
