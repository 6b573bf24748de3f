---------------------------- MODULE ImageFlashProofs ----------------------------
(***************************************************************************)
(* Theorems about saving images, for flashes, pages, sectors and images of *)
(* all sizes: where a save writes, that it does what ImageStore promises   *)
(* even if it is interrupted, and which saves leave the image area.        *)
(***************************************************************************)
EXTENDS ImageFlash, TLAPS

(***************************************************************************)
(* Arithmetic of pages and sectors.                                        *)
(***************************************************************************)

(* Byte r of page k is in page k. *)
LEMMA DivOf ==
  ASSUME NEW n \in Nat \ {0}, NEW k \in Nat, NEW r \in 0..(n - 1)
  PROVE  (n * k + r) \div n = k /\ (n * k + r) % n = r
<1> DEFINE q == (n * k + r) \div n
<1>1. n * k \in Nat
  OBVIOUS
<1>2. q \in Int /\ (n * k + r) % n \in 0..(n - 1) /\ n * k + r = (n * q) + ((n * k + r) % n)
  BY <1>1, SMTT(30)
<1>3. q = k
  <2>1. CASE q >= k + 1
    <3>1. n * q >= n * (k + 1)
      BY <2>1, <1>2, SMTT(30)
    <3>2. n * (k + 1) = n * k + n
      OBVIOUS
    <3> QED BY <3>1, <3>2, <1>1, <1>2
  <2>2. CASE q <= k - 1
    <3>1. n * q <= n * (k - 1)
      BY <2>2, <1>2, SMTT(30)
    <3>2. n * (k - 1) = n * k - n
      OBVIOUS
    <3> QED BY <3>1, <3>2, <1>1, <1>2
  <2> QED BY <2>1, <2>2, <1>2
<1> QED BY <1>2, <1>3

(* A number is made of its quotient and its remainder. *)
LEMMA Split ==
  ASSUME NEW n \in Nat \ {0}, NEW a \in Nat
  PROVE  /\ a \div n \in Nat /\ a % n \in 0..(n - 1)
         /\ a = n * (a \div n) + (a % n)
  BY SMTT(30)

(* A sector begins where the remainder is 0: what is before is in another. *)
LEMMA SectorStart ==
  ASSUME NEW n \in Nat \ {0}, NEW c \in Nat, NEW a \in Nat, c % n = 0, a < c
  PROVE  a \div n # c \div n
<1>1. c = n * (c \div n) /\ c \div n \in Nat
  BY Split
<1>2. a \div n \in Nat /\ n * (a \div n) <= a
  BY Split
<1> QED BY <1>1, <1>2

(* And the next page is in the same sector if it does not begin one. *)
LEMMA SectorGoesOn ==
  ASSUME NEW n \in Nat \ {0}, NEW a \in Nat, (a + 1) % n # 0
  PROVE  (a + 1) \div n = a \div n
<1> DEFINE q == a \div n
           r == a % n
<1>1. q \in Nat /\ r \in 0..(n - 1) /\ a = n * q + r
  BY Split
<1>2. r # n - 1
  <2>1. ASSUME r = n - 1 PROVE FALSE
    <3>1. a + 1 = n * (q + 1) + 0
      BY <1>1, <2>1
    <3>2. (n * (q + 1) + 0) % n = 0
      BY <1>1, DivOf
    <3> QED BY <3>1, <3>2
  <2> QED BY <2>1
<1>3. r + 1 \in 0..(n - 1) /\ a + 1 = n * q + (r + 1)
  BY <1>1, <1>2
<1> HIDE DEF q, r
<1>4. (n * q + (r + 1)) \div n = q
  BY <1>1, <1>3, DivOf
<1> QED BY <1>3, <1>4 DEF q

(* Whole sectors in front do not matter for the remainder. *)
LEMMA SameRemainder ==
  ASSUME NEW n \in Nat \ {0}, NEW b \in Nat, NEW k \in Nat, b % n = 0
  PROVE  (b + k) % n = k % n
<1> DEFINE m == b \div n
           q == k \div n
           r == k % n
<1>1. m \in Nat /\ b = n * m
  BY Split
<1>2. q \in Nat /\ r \in 0..(n - 1) /\ k = n * q + r
  BY Split
<1> HIDE DEF m, q
<1>3. b + k = n * (m + q) + r
  BY <1>1, <1>2
<1>4. (n * (m + q) + r) % n = r
  <2> HIDE DEF r
  <2> QED BY <1>1, <1>2, DivOf
<1> QED BY <1>3, <1>4

LEMMA MulLess ==
  ASSUME NEW n \in Nat \ {0}, NEW a \in Nat, NEW b \in Nat
  PROVE  n * a < n * b <=> a < b
<1>1. CASE a < b
  BY <1>1, SMTT(30)
<1>2. CASE a = b
  BY <1>2
<1>3. CASE b < a
  <2>1. n * b < n * a
    BY <1>3, SMTT(30)
  <2> QED BY <2>1, <1>3
<1> QED BY <1>1, <1>2, <1>3

(***************************************************************************)
(* Where a save is.                                                        *)
(***************************************************************************)

LEMMA Sizes ==
  /\ PageSize \in Nat \ {0} /\ SectorPages \in Nat \ {0} /\ FlashPages \in Nat \ {0}
  /\ WordBytes \in Nat /\ ImagePage \in Nat /\ AreaPages \in Nat \ {0}
  /\ ImagePage + AreaPages = FlashPages
  /\ ImagePage % SectorPages = 0 /\ AreaPages % SectorPages = 0
<1>1. /\ PageSize \in Nat \ {0} /\ SectorPages \in Nat \ {0} /\ FlashPages \in Nat \ {0}
      /\ WordBytes \in Nat /\ ImagePage % SectorPages = 0 /\ AreaPages % SectorPages = 0
  BY FlashAssumption
<1>2. FlashPages \div 4 \in Nat /\ 4 * (FlashPages \div 4) <= FlashPages
  <2>1. 4 \in Nat \ {0} /\ FlashPages \in Nat
    BY <1>1
  <2>2. /\ FlashPages \div 4 \in Nat /\ FlashPages % 4 \in 0..(4 - 1)
        /\ FlashPages = 4 * (FlashPages \div 4) + (FlashPages % 4)
    BY <2>1, Split
  <2> QED BY <2>2, <1>1
<1>3. ImagePage \in Nat /\ AreaPages \in Nat \ {0} /\ ImagePage + AreaPages = FlashPages
  BY <1>1, <1>2 DEF ImagePage, AreaPages
<1> QED BY <1>1, <1>3

LEMMA BytesType ==
  ASSUME NEW length \in Lengths
  PROVE  /\ Bytes(length) \in Nat \ {0} /\ Bytes(length) >= PageSize
         /\ LastPage[length] \in Nat
<1>1. length \in Nat /\ WordBytes * length \in Nat
  BY Sizes, FlashAssumption
<1>2. Bytes(length) \in Nat \ {0} /\ Bytes(length) >= PageSize
  BY <1>1, Sizes DEF Bytes
<1>3. (Bytes(length) - 1) \div PageSize \in Nat
  BY <1>2, Sizes, Split
<1> QED BY <1>2, <1>3 DEF LastPage

(* The page that is written is a page of the chip. *)
LEMMA WriteType ==
  ASSUME FlashTypeOK
  PROVE  WritePage \in Pages /\ EraseSector \subseteq Pages
<1>1. ImagePage * PageSize \in Nat /\ count \in Nat
  BY Sizes DEF FlashTypeOK
<1>2. count % PageSize \in 0..(PageSize - 1) /\ count % PageSize <= count
  <2>1. /\ count \div PageSize \in Nat /\ count % PageSize \in 0..(PageSize - 1)
        /\ count = PageSize * (count \div PageSize) + (count % PageSize)
    BY <1>1, Sizes, Split
  <2>2. PageSize * (count \div PageSize) \in Nat
    BY <2>1, Sizes
  <2> QED BY <1>1, <2>1, <2>2, Sizes
<1>3. Offset \in Nat
  BY <1>1, <1>2 DEF Offset
<1>4. \A a \in Nat : PageAt(a) \in Pages
  BY Sizes, Split DEF PageAt, Pages
<1> QED BY <1>1, <1>3, <1>4 DEF WritePage, EraseSector, SectorOf

(* An image that fits is written page after page in the area. *)
LEMMA Places ==
  ASSUME FlashInv, pc \in {"erase", "program"}, image.length \in Fitting
  PROVE  /\ Current \in Nat /\ Current < AreaPages
         /\ WritePage = ImagePage + Current
         /\ EraseSector = SectorOf(ImagePage + Current)
<1> DEFINE k == Current
<1>1. count \in Nat /\ k \in Nat /\ k < AreaPages
  <2>1. k = count \div PageSize /\ count \in Nat
    BY DEF FlashInv, FlashTypeOK, Current
  <2> QED BY <2>1, Sizes, Split DEF FlashInv, PagesInv
<1>2. count = PageSize * k + (PageSize - 1)
  BY <1>1, Sizes DEF FlashInv, CountInv
<1> HIDE DEF k
<1>3. count % PageSize = PageSize - 1
  BY <1>1, <1>2, Sizes, DivOf
<1>4. Offset = PageSize * k
  BY <1>1, <1>2, <1>3, Sizes DEF Offset
<1>5. /\ ImagePage * PageSize + Offset = PageSize * (ImagePage + k) + 0
      /\ ImagePage * PageSize + count = PageSize * (ImagePage + k) + (PageSize - 1)
      /\ ImagePage + k \in Nat
  BY <1>1, <1>2, <1>4, Sizes
<1>6. /\ (ImagePage * PageSize + Offset) \div PageSize = ImagePage + k
      /\ (ImagePage * PageSize + count) \div PageSize = ImagePage + k
  <2>1. 0 \in 0..(PageSize - 1) /\ PageSize - 1 \in 0..(PageSize - 1) /\ PageSize \in Nat \ {0}
    BY Sizes
  <2>2. (PageSize * (ImagePage + k) + 0) \div PageSize = ImagePage + k
    BY <1>5, <2>1, DivOf
  <2>3. (PageSize * (ImagePage + k) + (PageSize - 1)) \div PageSize = ImagePage + k
    BY <1>5, <2>1, DivOf
  <2> QED BY <1>5, <2>2, <2>3
<1>7. (ImagePage + k) % FlashPages = ImagePage + k
  <2>1. ImagePage + k \in 0..(FlashPages - 1)
    BY <1>1, <1>5, Sizes
  <2>2. (FlashPages * 0 + (ImagePage + k)) % FlashPages = ImagePage + k
    BY <2>1, Sizes, DivOf
  <2> QED BY <2>1, <2>2, Sizes
<1> QED BY <1>1, <1>6, <1>7 DEF WritePage, EraseSector, PageAt, k

(* A page of the area is in a sector of the area. *)
LEMMA SectorInArea ==
  ASSUME NEW k \in Nat, k < AreaPages
  PROVE  SectorOf(ImagePage + k) \subseteq Area
<1> SUFFICES ASSUME NEW q \in Pages, q \div SectorPages = (ImagePage + k) \div SectorPages,
                    q < ImagePage
             PROVE  FALSE
  BY Sizes DEF SectorOf, Area, Pages
<1>1. q \in Nat /\ q \div SectorPages \in Nat /\ SectorPages * (q \div SectorPages) <= q
  BY Sizes, Split DEF Pages
<1>2. /\ ImagePage = SectorPages * (ImagePage \div SectorPages)
      /\ ImagePage \div SectorPages \in Nat
  BY Sizes, Split
<1>3. q \div SectorPages < ImagePage \div SectorPages
  BY <1>1, <1>2, Sizes, MulLess
<1>4. /\ ImagePage + k = SectorPages * ((ImagePage + k) \div SectorPages) + ((ImagePage + k) % SectorPages)
      /\ (ImagePage + k) % SectorPages \in 0..(SectorPages - 1)
  BY Sizes, Split
<1>5. ImagePage + k < SectorPages * ((q \div SectorPages) + 1)
  BY <1>1, <1>4, Sizes
<1>6. SectorPages * ((q \div SectorPages) + 1) <= SectorPages * (ImagePage \div SectorPages)
  <2>1. (q \div SectorPages) + 1 <= ImagePage \div SectorPages
    BY <1>1, <1>2, <1>3
  <2>2. ~(SectorPages * (ImagePage \div SectorPages) < SectorPages * ((q \div SectorPages) + 1))
    BY <2>1, <1>1, <1>2, Sizes, MulLess
  <2> QED BY <2>2, <1>1, <1>2, Sizes
<1> QED BY <1>2, <1>5, <1>6, Sizes

(* A page begins a sector if its first byte does. *)
LEMMA BeginsSector ==
  ASSUME NEW k \in Nat
  PROVE  (PageSize * k) % (SectorPages * PageSize) = 0 <=> k % SectorPages = 0
<1> DEFINE q == k \div SectorPages
           r == k % SectorPages
<1>1. q \in Nat /\ r \in 0..(SectorPages - 1) /\ k = SectorPages * q + r
  BY Sizes, Split
<1>2. SectorPages * PageSize \in Nat \ {0}
  BY Sizes
<1> HIDE DEF q, r
<1>3. PageSize * k = (SectorPages * PageSize) * q + PageSize * r
  BY <1>1, Sizes
<1>4. PageSize * r \in 0..(SectorPages * PageSize - 1)
  <2>1. PageSize * r < PageSize * SectorPages
    BY <1>1, Sizes, MulLess
  <2>2. PageSize * r \in Nat /\ PageSize * SectorPages = SectorPages * PageSize
    BY <1>1, Sizes
  <2> QED BY <2>1, <2>2, <1>2
<1>5. (PageSize * k) % (SectorPages * PageSize) = PageSize * r
  BY <1>1, <1>2, <1>3, <1>4, DivOf
<1>6. PageSize * r = 0 <=> r = 0
  BY <1>1, Sizes
<1> QED BY <1>5, <1>6 DEF r

(***************************************************************************)
(* The invariant.                                                          *)
(***************************************************************************)

LEMMA TypeInit == FlashInit => FlashInv
<1> SUFFICES ASSUME FlashInit PROVE FlashInv
  OBVIOUS
<1>1. FlashTypeOK
  BY DEF FlashInit, FlashTypeOK, Content
<1>2. CountInv /\ PagesInv
  BY DEF FlashInit, CountInv, PagesInv
<1> QED BY <1>1, <1>2 DEF FlashInv

(* What is in the memory of the chip after a page was programmed. *)
LEMMA ProgramWrites ==
  ASSUME FlashInv, ProgramPage, image.length \in Fitting
  PROVE  \A i \in 0..Current : IsPage(flash'[ImagePage + i], i, image)
<1> DEFINE k == Current
<1>1. /\ k \in Nat /\ k < AreaPages /\ WritePage = ImagePage + k
      /\ pc = "program" /\ image' = image
      /\ flash' = [flash EXCEPT ![ImagePage + k] = Programmed(flash[ImagePage + k], data)]
  BY Places DEF ProgramPage, save_vars
<1>2. ImagePage + k \in Pages /\ flash \in [Pages -> Content]
  BY <1>1, Sizes DEF FlashInv, FlashTypeOK, Pages
<1>3. data.page = k
  BY <1>1 DEF FlashInv, CountInv
<1>4. /\ \A i \in 0..(k - 1) : IsPage(flash[ImagePage + i], i, image)
      /\ \A p \in SectorOf(ImagePage + k) : p >= ImagePage + k => flash[p] = Erased
  BY <1>1 DEF FlashInv, PagesInv
<1> HIDE DEF k
<1>5. flash'[ImagePage + k] = data
  <2>1. ImagePage + k \in SectorOf(ImagePage + k)
    BY <1>2 DEF SectorOf
  <2>2. flash[ImagePage + k] = Erased
    BY <2>1, <1>1, <1>4, Sizes
  <2> QED BY <2>2, <1>1, <1>2 DEF Programmed
<1>6. IsPage(flash'[ImagePage + k], k, image)
  <2>1. /\ image.number = saves /\ image.length \in Lengths /\ image.since \in 0..picture /\ picture \in Nat
        /\ data.number = saves /\ data.length = image.length
        /\ data.picture \in image.since..picture
    BY <1>1 DEF FlashInv, FlashTypeOK
  <2> QED BY <2>1, <1>1, <1>3, <1>5 DEF IsPage
<1>7. ASSUME NEW i \in 0..(k - 1) PROVE IsPage(flash'[ImagePage + i], i, image)
  <2>1. ImagePage + i # ImagePage + k /\ ImagePage + i \in Pages
    BY <1>1, Sizes DEF Pages
  <2>2. flash'[ImagePage + i] = flash[ImagePage + i]
    BY <2>1, <1>1, <1>2
  <2> QED BY <2>2, <1>4
<1> SUFFICES ASSUME NEW i \in 0..k PROVE IsPage(flash'[ImagePage + i], i, image)
  BY DEF k
<1>8. CASE i = k
  BY <1>6, <1>8
<1>9. CASE i # k
  <2>1. i \in 0..(k - 1)
    BY <1>1, <1>9
  <2> QED BY <2>1, <1>7
<1> QED BY <1>8, <1>9

(* Erasing a sector leaves the pages before it, also if it is interrupted. *)
LEMMA EraseKeeps ==
  ASSUME FlashInv, pc = "erase", image.length \in Fitting,
         NEW i \in 0..(Current - 1)
  PROVE  ImagePage + i \in Pages \ EraseSector
<1>1. /\ Current \in Nat /\ Current < AreaPages
      /\ EraseSector = SectorOf(ImagePage + Current)
  BY Places
<1>2. Current % SectorPages = 0
  BY DEF FlashInv, CountInv
<1>3. (ImagePage + Current) % SectorPages = 0
  BY <1>1, <1>2, Sizes, SameRemainder
<1>4. ImagePage + i \in Nat /\ ImagePage + Current \in Nat /\ ImagePage + i < ImagePage + Current
  BY <1>1, Sizes
<1>5. (ImagePage + i) \div SectorPages # (ImagePage + Current) \div SectorPages
  BY <1>3, <1>4, Sizes, SectorStart
<1> QED BY <1>1, <1>4, <1>5, Sizes DEF SectorOf, Pages

LEMMA SaveKeepsInv ==
  ASSUME FlashInv, NEW length \in Lengths, Save(length)
  PROVE  FlashInv'
<1>1. FlashTypeOK'
  <2>1. /\ flash' = flash /\ picture' = picture /\ saves' = saves + 1 /\ pc' = "fill"
        /\ image' = [number |-> saves + 1, length |-> length, since |-> picture]
        /\ taken' = 0 /\ count' = 0
    BY DEF Save
  <2>6. done' \in BOOLEAN
    BY Zenon DEF Save
  <2>2. flash \in [Pages -> Content] /\ picture \in Nat /\ saves \in Nat
    BY DEF FlashInv, FlashTypeOK
  <2>3. Content \subseteq Content'
    BY <2>1, <2>2 DEF Content
  <2>4. flash' \in [Pages -> Content']
    BY <2>1, <2>2, <2>3
  <2>5. image' \in [number : {saves'}, length : Lengths, since : 0..picture']
    BY <2>1, <2>2
  <2> QED BY <2>1, <2>2, <2>4, <2>5, <2>6 DEF FlashTypeOK, Pages
<1>2. Current' = 0
  <2>1. (PageSize * 0 + 0) \div PageSize = 0
    BY Sizes, DivOf
  <2>2. 0 \div PageSize = 0
    BY <2>1, Sizes
  <2> QED BY <2>2 DEF Save, Current
<1>3. CountInv'
  <2>1. Bytes(length) >= PageSize
    BY BytesType
  <2>2. /\ pc' = "fill" /\ taken' = 0 /\ image'.length = length
        /\ PageSize * 0 = 0
    BY Sizes DEF Save
  <2>4. ~done'
    BY Zenon DEF Save
  <2>3. PageSize * Current' = 0 /\ Bytes(image'.length) >= 0
    <3>1. Current' = 0 => PageSize * Current' = 0
      BY <2>2
    <3>2. Bytes(image'.length) = Bytes(length)
      BY <2>2
    <3>3. Bytes(length) >= 0
      BY <2>1, Sizes, BytesType
    <3> QED BY <1>2, <3>1, <3>2, <3>3
  <2> QED BY <1>2, <2>2, <2>3, <2>4 DEF CountInv, Bytes
<1>4. PagesInv'
  <2>1. (SectorPages * 0 + 0) % SectorPages = 0
    BY Sizes, DivOf
  <2>2. 0 % SectorPages = 0
    BY <2>1, Sizes
  <2> QED BY <1>2, <2>2, Sizes DEF PagesInv, Save
<1> QED BY <1>1, <1>3, <1>4 DEF FlashInv

(* The page that FillPage puts together is the one it was at. *)
LEMMA FillCounts ==
  ASSUME FlashInv, FillPage
  PROVE  /\ count' = PageSize * Current + PageSize - 1 /\ count' \in Nat
         /\ Current' = Current /\ Current \in Nat
         /\ Offset' = PageSize * Current
         /\ done' <=> Bytes(image.length) < PageSize * (Current + 1)
         /\ PageSize * Current <= Bytes(image.length)
         /\ ~done' => taken' = PageSize * (Current + 1)
         /\ taken' \in Nat /\ done' \in BOOLEAN
<1> DEFINE k == Current
           all == Bytes(image.length)
           rest == all - taken
<1>1. /\ pc = "fill" /\ taken \in Nat /\ k = taken \div PageSize
      /\ taken = PageSize * k /\ taken <= all /\ (k > 0 => count = taken - 1)
      /\ count \in Nat /\ image.length \in Lengths
  BY DEF FillPage, FlashInv, FlashTypeOK, CountInv, Current
<1>2. k \in Nat /\ all \in Nat /\ all >= PageSize
  BY <1>1, Sizes, Split, BytesType
<1>3. /\ taken' = taken + (IF rest >= PageSize THEN PageSize ELSE rest)
      /\ count' = CountAfter(rest)
      /\ done' = ~(rest >= PageSize)
  BY DEF FillPage
<1> HIDE DEF k, all
<1>4. PageSize * (k + 1) = PageSize * k + PageSize
  BY <1>2, Sizes
<1>5. count' = PageSize * k + PageSize - 1
  <2>1. CASE rest >= PageSize
    BY <2>1, <1>1, <1>2, <1>3, Sizes DEF CountAfter
  <2>2. CASE rest < PageSize /\ rest > 0
    BY <2>2, <1>1, <1>2, <1>3, Sizes DEF CountAfter
  <2>3. CASE rest = 0
    <3>1. k > 0
      <4>1. taken >= PageSize
        BY <2>3, <1>1, <1>2
      <4>2. k = 0 => PageSize * k = 0
        BY Sizes
      <4> QED BY <4>1, <4>2, <1>1, <1>2, Sizes
    <3>2. count' = count + PageSize
      BY <2>3, <1>1, <1>2, <1>3, Sizes DEF CountAfter
    <3> QED BY <3>1, <3>2, <1>1, Sizes
  <2> QED BY <2>1, <2>2, <2>3, <1>1, <1>2, Sizes
<1>6. PageSize * k \in Nat /\ count' \in Nat /\ count' = PageSize * k + (PageSize - 1)
  BY <1>2, <1>5, Sizes
<1>7. count' \div PageSize = k /\ count' % PageSize = PageSize - 1
  <2>1. PageSize - 1 \in 0..(PageSize - 1)
    BY Sizes
  <2>2. /\ (PageSize * k + (PageSize - 1)) \div PageSize = k
        /\ (PageSize * k + (PageSize - 1)) % PageSize = PageSize - 1
    BY <2>1, <1>2, Sizes, DivOf
  <2> QED BY <2>2, <1>6
<1>8. Current' = k
  BY <1>7 DEF Current, FillPage
<1>9. Offset' = PageSize * k
  BY <1>6, <1>7, Sizes DEF Offset
<1>10. /\ done' <=> all < PageSize * (k + 1)
       /\ PageSize * k <= all
       /\ ~done' => taken' = PageSize * (k + 1)
       /\ taken' \in Nat /\ done' \in BOOLEAN
  <2>1. done' \in BOOLEAN /\ (done' <=> ~(rest >= PageSize))
    <3>1. done' = ~(rest >= PageSize)
      BY <1>3
    <3> HIDE DEF rest
    <3> QED BY <3>1, Zenon
  <2>2. CASE rest >= PageSize
    BY <2>1, <2>2, <1>1, <1>2, <1>3, <1>4, <1>6, Sizes
  <2>3. CASE rest < PageSize
    BY <2>1, <2>3, <1>1, <1>2, <1>3, <1>4, <1>6, Sizes
  <2> QED BY <2>2, <2>3, <1>1, <1>2, Sizes
<1> QED BY <1>2, <1>5, <1>6, <1>8, <1>9, <1>10 DEF k, all

LEMMA FillKeepsInv ==
  ASSUME FlashInv, FillPage
  PROVE  FlashInv'
<1>1. /\ pc = "fill" /\ pc' \in {"erase", "program"}
      /\ flash' = flash /\ picture' = picture /\ saves' = saves /\ image' = image
      /\ data' = [number |-> image.number, length |-> image.length, page |-> Current, picture |-> picture]
      /\ pc' = "program" <=> ~SectorBegins
  BY DEF FillPage, Current
<1>2. SectorBegins <=> Current % SectorPages = 0
  BY FillCounts, BeginsSector DEF SectorBegins
<1>3. FlashTypeOK'
  BY <1>1, FillCounts DEF FlashInv, FlashTypeOK, Content
<1>4. CountInv'
  BY <1>1, <1>2, FillCounts DEF CountInv, Bytes
<1>5. PagesInv'
  <2> SUFFICES ASSUME image.length \in Fitting PROVE PagesInv'
    BY <1>1 DEF PagesInv, Fitting, Bytes
  <2>1. /\ Current < AreaPages
        /\ \A i \in 0..(Current - 1) : IsPage(flash[ImagePage + i], i, image)
        /\ Current % SectorPages # 0 =>
             \A p \in SectorOf(ImagePage + Current) : p >= ImagePage + Current => flash[p] = Erased
    BY <1>1 DEF FlashInv, PagesInv
  <2> QED BY <2>1, <1>1, <1>2, FillCounts DEF PagesInv, SectorOf
<1> QED BY <1>3, <1>4, <1>5 DEF FlashInv

LEMMA EraseKeepsInv ==
  ASSUME FlashInv, Erase
  PROVE  FlashInv'
<1>1. /\ pc = "erase" /\ pc' = "program" /\ Current' = Current
      /\ flash' = [p \in Pages |-> IF p \in EraseSector THEN Erased ELSE flash[p]]
      /\ picture' = picture /\ saves' = saves /\ image' = image /\ taken' = taken
      /\ count' = count /\ done' = done /\ data' = data
  BY DEF Erase, save_vars, Current
<1>2. FlashTypeOK'
  <2>1. flash' \in [Pages -> Content]
    BY <1>1 DEF FlashInv, FlashTypeOK, Content
  <2> QED BY <1>1, <2>1 DEF FlashInv, FlashTypeOK, Content
<1>3. CountInv'
  BY <1>1 DEF FlashInv, CountInv, Bytes
<1>4. PagesInv'
  <2> SUFFICES ASSUME image.length \in Fitting PROVE PagesInv'
    BY <1>1 DEF PagesInv, Fitting, Bytes
  <2>1. /\ Current \in Nat /\ Current < AreaPages
        /\ EraseSector = SectorOf(ImagePage + Current)
    BY <1>1, Places
  <2>2. ASSUME NEW i \in 0..(Current - 1) PROVE IsPage(flash'[ImagePage + i], i, image)
    <3>1. IsPage(flash[ImagePage + i], i, image)
      BY <1>1 DEF FlashInv, PagesInv
    <3>2. flash'[ImagePage + i] = flash[ImagePage + i]
      BY <1>1, EraseKeeps
    <3> QED BY <3>1, <3>2
  <2>3. \A p \in SectorOf(ImagePage + Current) : flash'[p] = Erased
    BY <1>1, <2>1 DEF SectorOf
  <2> QED BY <1>1, <2>1, <2>2, <2>3 DEF PagesInv, SectorOf
<1> QED BY <1>2, <1>3, <1>4 DEF FlashInv

LEMMA ProgramType ==
  ASSUME FlashInv, ProgramPage
  PROVE  FlashTypeOK'
<1>1. /\ pc = "program" /\ pc' \in {"idle", "fill"}
      /\ flash' = [flash EXCEPT ![WritePage] = Programmed(flash[WritePage], data)]
      /\ picture' = picture /\ saves' = saves /\ image' = image /\ taken' = taken
      /\ count' = count /\ done' = done /\ data' = data
  BY DEF ProgramPage, save_vars
<1>2. data \in Content
  <2>1. /\ data \in [number : {saves}, length : {image.length}, page : Nat, picture : image.since..picture]
        /\ saves \in 1..saves /\ image.length \in Lengths /\ image.since \in 0..picture /\ picture \in Nat
    BY <1>1 DEF FlashInv, FlashTypeOK
  <2> QED BY <2>1 DEF Content
<1>3. Programmed(flash[WritePage], data) \in Content
  BY <1>2 DEF Programmed, Content
<1>4. flash' \in [Pages -> Content]
  BY <1>1, <1>3 DEF FlashInv, FlashTypeOK
<1> QED BY <1>1, <1>4 DEF FlashInv, FlashTypeOK, Content

LEMMA ProgramKeepsInv ==
  ASSUME FlashInv, ProgramPage
  PROVE  FlashInv'
<1> DEFINE k == Current
<1>1. /\ pc = "program" /\ (done => pc' = "idle") /\ (~done => pc' = "fill")
      /\ picture' = picture /\ saves' = saves /\ image' = image /\ taken' = taken
      /\ count' = count /\ done' = done /\ data' = data
      /\ done \in BOOLEAN
  BY DEF ProgramPage, save_vars, FlashInv, FlashTypeOK
<1>2. FlashTypeOK'
  BY ProgramType
<1>3. CASE done
  BY <1>1, <1>2, <1>3 DEF FlashInv, CountInv, PagesInv
<1>4. CASE ~done
  <2>1. /\ count = PageSize * k + PageSize - 1 /\ taken = PageSize * (k + 1)
        /\ PageSize * (k + 1) <= Bytes(image.length)
        /\ k \in Nat /\ count \in Nat
    <3>1. count \in Nat /\ k = count \div PageSize /\ image.length \in Lengths
      BY <1>1 DEF FlashInv, FlashTypeOK, Current
    <3>2. k \in Nat /\ Bytes(image.length) \in Nat
      BY <3>1, Sizes, Split, BytesType
    <3>3. PageSize * (k + 1) \in Nat
      BY <3>2, Sizes
    <3> QED BY <1>1, <1>4, <3>1, <3>2, <3>3 DEF FlashInv, CountInv
  <2> HIDE DEF k
  <2>2. Current' = k + 1
    <3>1. 0 \in 0..(PageSize - 1) /\ k + 1 \in Nat
      BY <2>1, Sizes
    <3>2. (PageSize * (k + 1) + 0) \div PageSize = k + 1
      BY <3>1, Sizes, DivOf
    <3>3. PageSize * (k + 1) + 0 = PageSize * (k + 1)
      BY <2>1, Sizes
    <3> QED BY <1>1, <1>4, <2>1, <3>2, <3>3 DEF Current
  <2>3. CountInv'
    <3>1. count = taken - 1
      <4>1. PageSize * (k + 1) = PageSize * k + PageSize
        BY <2>1, Sizes
      <4> QED BY <4>1, <2>1, Sizes
    <3> QED BY <1>1, <1>4, <2>1, <2>2, <3>1 DEF CountInv, Bytes
  <2>4. PagesInv'
    <3> SUFFICES ASSUME image.length \in Fitting PROVE PagesInv'
      BY <1>1 DEF PagesInv, Fitting, Bytes
    <3>1. /\ k < AreaPages /\ WritePage = ImagePage + k
      BY <1>1, Places DEF k
    <3>2. k + 1 < AreaPages
      <4>1. Bytes(image.length) < AreaPages * PageSize /\ Bytes(image.length) \in Nat
        BY BytesType DEF Fitting
      <4>2. PageSize * (k + 1) < PageSize * AreaPages
        BY <2>1, <4>1, Sizes
      <4>3. k + 1 \in Nat /\ AreaPages \in Nat
        BY <2>1, Sizes
      <4> QED BY <4>2, <4>3, Sizes, MulLess
    <3>3. \A i \in 0..(k + 1 - 1) : IsPage(flash'[ImagePage + i], i, image)
      BY ProgramWrites, <2>1 DEF k
    <3>4. ASSUME (k + 1) % SectorPages # 0,
                 NEW p \in SectorOf(ImagePage + (k + 1)), p >= ImagePage + (k + 1)
          PROVE  flash'[p] = Erased
      <4>1. ImagePage + k \in Nat /\ ImagePage + (k + 1) = (ImagePage + k) + 1
        BY <2>1, Sizes
      <4>2. (ImagePage + (k + 1)) % SectorPages # 0
        <5>1. k + 1 \in Nat
          BY <2>1
        <5>2. (ImagePage + (k + 1)) % SectorPages = (k + 1) % SectorPages
          BY <5>1, Sizes, SameRemainder
        <5> QED BY <5>2, <3>4
      <4>3. (ImagePage + (k + 1)) \div SectorPages = (ImagePage + k) \div SectorPages
        BY <4>1, <4>2, Sizes, SectorGoesOn
      <4>4. p \in SectorOf(ImagePage + k) /\ p >= ImagePage + k /\ p # ImagePage + k /\ p \in Pages
        BY <4>1, <4>3, <3>4, <2>1, Sizes DEF SectorOf, Pages
      <4>5. flash[p] = Erased
        BY <1>1, <4>4 DEF FlashInv, PagesInv, k
      <4>6. flash' = [flash EXCEPT ![ImagePage + k] = Programmed(flash[ImagePage + k], data)]
        BY <3>1 DEF ProgramPage
      <4> QED BY <4>4, <4>5, <4>6 DEF FlashInv, FlashTypeOK
    <3>5. Current' % SectorPages # 0 =>
            \A p \in SectorOf(ImagePage + Current') : p >= ImagePage + Current' => flash'[p] = Erased
      BY <2>2, <3>4
    <3>6. \A i \in 0..(Current' - 1) : IsPage(flash'[ImagePage + i], i, image')
      <4> SUFFICES ASSUME NEW i \in 0..(Current' - 1) PROVE IsPage(flash'[ImagePage + i], i, image')
        OBVIOUS
      <4>1. i \in 0..(k + 1 - 1)
        BY <2>1, <2>2
      <4>2. IsPage(flash'[ImagePage + i], i, image)
        BY <3>3, <4>1
      <4> QED BY <4>2, <1>1
    <3>7. Current' < AreaPages /\ pc' = "fill"
      BY <1>1, <1>4, <2>2, <3>2
    <3> QED BY <3>5, <3>6, <3>7 DEF PagesInv, SectorOf
  <2> QED BY <1>2, <2>3, <2>4 DEF FlashInv
<1> QED BY <1>1, <1>3, <1>4

(* Power loss, drawing and loading leave what is being saved alone, or     *)
(* there is nothing left to say about it.                                  *)
LEMMA OthersKeepInv ==
  ASSUME FlashInv, PowerLoss \/ Draw \/ Load
  PROVE  FlashInv'
<1>1. CASE PowerLoss
  <2>1. /\ pc' = "idle" /\ picture' = picture /\ saves' = saves /\ taken' = taken
        /\ count' = count /\ done' = done
        /\ \E struck : flash' \in {flash, [p \in Pages |-> IF p \in struck THEN Garbage ELSE flash[p]]}
    BY <1>1 DEF PowerLoss, save_vars
  <2>2. flash' \in [Pages -> Content]
    BY <2>1 DEF FlashInv, FlashTypeOK, Content
  <2>3. FlashTypeOK'
    BY <2>1, <2>2 DEF FlashInv, FlashTypeOK, Content
  <2> QED BY <2>1, <2>3 DEF FlashInv, CountInv, PagesInv
<1>2. CASE Draw
  <2>1. /\ picture' = picture + 1 /\ flash' = flash /\ pc' = pc /\ saves' = saves
        /\ image' = image /\ taken' = taken /\ count' = count /\ done' = done /\ data' = data
        /\ picture \in Nat
    BY <1>2 DEF Draw, save_vars, FlashInv, FlashTypeOK
  <2>2. Content \subseteq Content'
    BY <2>1 DEF Content
  <2>3. flash' \in [Pages -> Content']
    BY <2>1, <2>2 DEF FlashInv, FlashTypeOK
  <2>4. FlashTypeOK'
    BY <2>1, <2>3 DEF FlashInv, FlashTypeOK
  <2> QED BY <2>1, <2>4 DEF FlashInv, CountInv, PagesInv, Current, Bytes, SectorOf, Fitting
<1>3. CASE Load
  <2>1. /\ picture' = picture /\ flash' = flash /\ pc' = pc /\ saves' = saves
        /\ image' = image /\ taken' = taken /\ count' = count /\ done' = done /\ data' = data
    BY <1>3 DEF Load, save_vars
  <2> QED BY <2>1 DEF FlashInv, FlashTypeOK, Content, CountInv, PagesInv, Current, Bytes, SectorOf, Fitting
<1> QED BY <1>1, <1>2, <1>3

LEMMA FlashStep == FlashInv /\ [FlashNext]_flash_vars => FlashInv'
<1> SUFFICES ASSUME FlashInv, [FlashNext]_flash_vars PROVE FlashInv'
  OBVIOUS
<1>1. CASE UNCHANGED flash_vars
  BY <1>1 DEF flash_vars, save_vars, FlashInv, FlashTypeOK, Content, CountInv, PagesInv, Current,
              Bytes, SectorOf, Fitting
<1> QED BY <1>1, SaveKeepsInv, FillKeepsInv, EraseKeepsInv, ProgramKeepsInv, OthersKeepInv DEF FlashNext

(* count is always the last byte of a page, and the pages of an image that *)
(* fits are where they belong, in front of erased ones.                    *)
THEOREM FlashInvHolds == FlashSpec => []FlashInv
<1>1. FlashInit => FlashInv
  BY TypeInit
<1>2. FlashInv /\ [FlashNext]_flash_vars => FlashInv'
  BY FlashStep
<1> QED BY <1>1, <1>2, PTL DEF FlashSpec

(***************************************************************************)
(* What else is in the flash.                                              *)
(***************************************************************************)

(* A save of an image that fits never erases or programs a page in front   *)
(* of the image area, where bitstream and firmware are, nor wraps around   *)
(* to it, also if it loses power.                                          *)
THEOREM AreaIsKept == FlashSpec => OnlyLargeLeavesArea
<1> DEFINE Kept == \A p \in Pages \ Area : flash'[p] # flash[p] => image.length \notin Fitting
<1>1. FlashInv /\ [FlashNext]_flash_vars => [Kept]_flash_vars
  <2> SUFFICES ASSUME FlashInv, FlashNext, image.length \in Fitting,
                      NEW p \in Pages \ Area, flash'[p] # flash[p]
               PROVE  FALSE
    OBVIOUS
  <2>1. flash \in [Pages -> Content]
    BY DEF FlashInv, FlashTypeOK
  <2>2. ASSUME pc \in {"erase", "program"}
        PROVE  p \notin EraseSector /\ p # WritePage
    <3>1. /\ Current \in Nat /\ Current < AreaPages
          /\ WritePage = ImagePage + Current
          /\ EraseSector = SectorOf(ImagePage + Current)
      BY <2>2, Places
    <3>2. SectorOf(ImagePage + Current) \subseteq Area
      BY <3>1, SectorInArea
    <3>3. ImagePage + Current \in Area
      BY <3>1, Sizes DEF Area
    <3> QED BY <3>1, <3>2, <3>3
  <2>3. CASE Erase
    BY <2>1, <2>2, <2>3 DEF Erase
  <2>4. CASE ProgramPage
    BY <2>1, <2>2, <2>4 DEF ProgramPage
  <2>5. CASE PowerLoss
    <3> DEFINE struck == CASE pc = "erase" -> EraseSector
                           [] pc = "program" -> {WritePage}
                           [] OTHER -> {}
    <3>1. flash' \in {flash, [q \in Pages |-> IF q \in struck THEN Garbage ELSE flash[q]]}
      BY <2>5 DEF PowerLoss
    <3>2. p \notin struck
      BY <2>2
    <3> HIDE DEF struck
    <3> QED BY <2>1, <3>1, <3>2
  <2>6. CASE flash' = flash
    BY <2>6
  <2> QED BY <2>3, <2>4, <2>5, <2>6 DEF FlashNext, Save, FillPage, Draw, Load
<1>2. FlashSpec => []FlashInv
  BY FlashInvHolds
<1> QED BY <1>1, <1>2, PTL DEF FlashSpec, OnlyLargeLeavesArea

(***************************************************************************)
(* What is loaded.                                                         *)
(***************************************************************************)

(* With the header of a save in its place, that is what a load finds. *)
LEMMA HeaderIsFound ==
  ASSUME NEW pages, NEW save, save.number \in Nat \ {0},
         IsPage(pages[ImagePage + 0], 0, save)
  PROVE  StoredIn(pages).number = save.number /\ StoredIn(pages).length = save.length
<1>1. ImagePage + 0 = ImagePage
  BY Sizes
<1>2. pages[ImagePage].number = save.number /\ pages[ImagePage].page = 0
      /\ pages[ImagePage].length = save.length
  BY <1>1 DEF IsPage
<1>3. pages[ImagePage] # Erased
  BY <1>2 DEF Erased
<1> QED BY <1>2, <1>3 DEF StoredIn

LEMMA SavingType ==
  ASSUME FlashInv, pc # "idle"
  PROVE  image # NoSave /\ image.number \in Nat \ {0} /\ image.number = saves
  BY DEF FlashInv, FlashTypeOK, NoSave

(* An erase or the loss of power leave of the old header what is there,    *)
(* nothing, or what cannot be told.                                        *)
LEMMA WhatIsLeft ==
  ASSUME FlashInv, pc # "idle", image.length \in Fitting,
         \/ flash' = flash
         \/ pc = "erase" /\ \E content \in {Erased, Garbage} :
              flash' = [p \in Pages |-> IF p \in EraseSector THEN content ELSE flash[p]]
         \/ pc = "program" /\
              flash' = [p \in Pages |-> IF p \in {WritePage} THEN Garbage ELSE flash[p]]
  PROVE  \/ StoredIn(flash') \in {StoredIn(flash), Nothing, Unknown}
         \/ StoredIn(flash').number = image.number /\ StoredIn(flash').length = image.length
<1>1. CASE flash' = flash
  BY <1>1
<1>2. CASE flash' # flash
  <2>1. /\ pc \in {"erase", "program"}
        /\ Current \in Nat /\ Current < AreaPages
        /\ WritePage = ImagePage + Current
        /\ EraseSector = SectorOf(ImagePage + Current)
    BY <1>2, Places
  <2>2. ImagePage \in Pages /\ ImagePage + 0 = ImagePage
    BY Sizes DEF Pages
  <2>3. CASE Current = 0
    <3>1. ImagePage \in EraseSector /\ ImagePage = WritePage
      BY <2>1, <2>2, <2>3, Sizes DEF SectorOf
    <3>2. flash'[ImagePage] \in {Erased, Garbage}
      BY <1>2, <2>2, <3>1
    <3>3. CASE flash'[ImagePage] = Erased
      BY <3>3 DEF StoredIn
    <3>4. CASE flash'[ImagePage] = Garbage
      <4>1. flash'[ImagePage].number = -1 /\ flash'[ImagePage] # Erased
        BY <3>4 DEF Garbage, Erased
      <4> QED BY <4>1 DEF StoredIn
    <3> QED BY <3>2, <3>3, <3>4
  <2>4. CASE Current > 0
    <3>1. 0 \in 0..(Current - 1)
      BY <2>1, <2>4
    <3>2. IsPage(flash[ImagePage + 0], 0, image)
      BY <2>1, <3>1 DEF FlashInv, PagesInv
    <3>3. flash'[ImagePage + 0] = flash[ImagePage + 0]
      <4>1. CASE pc = "erase"
        <5>1. ImagePage + 0 \in Pages \ EraseSector
          BY <4>1, <3>1, EraseKeeps
        <5> QED BY <4>1, <5>1, <1>2
      <4>2. CASE pc = "program"
        BY <4>2, <2>1, <2>2, <2>4, <1>2, Sizes
      <4> QED BY <2>1, <4>1, <4>2
    <3> QED BY <3>2, <3>3, SavingType, HeaderIsFound
  <2> QED BY <2>1, <2>3, <2>4
<1> QED BY <1>1, <1>2

(* Once the last page is programmed, all of the image is there. *)
LEMMA AllIsStored ==
  ASSUME FlashInv, ProgramPage, done, image.length \in Fitting
  PROVE  Store!Saved(image, picture, StoredIn(flash'))
<1> DEFINE k == Current
           last == LastPage[image.length]
<1>1. /\ pc = "program" /\ k \in Nat /\ k < AreaPages
      /\ image.length \in Lengths /\ image.number = saves /\ saves \in Nat \ {0}
      /\ picture' = picture /\ saves' = saves
  BY Places, SavingType DEF ProgramPage, save_vars, FlashInv, FlashTypeOK
<1>2. last <= k /\ last \in Nat
  <2>1. /\ last = (Bytes(image.length) - 1) \div PageSize
        /\ Bytes(image.length) \in Nat \ {0}
        /\ Bytes(image.length) < PageSize * (k + 1)
    BY <1>1, BytesType DEF LastPage, FlashInv, CountInv
  <2>2. last \in Nat /\ PageSize * last <= Bytes(image.length) - 1
    <3> DEFINE a == Bytes(image.length) - 1
    <3>1. a \in Nat /\ last = a \div PageSize
      BY <2>1
    <3> HIDE DEF a, last
    <3>2. /\ a \div PageSize \in Nat /\ a % PageSize \in 0..(PageSize - 1)
          /\ a = PageSize * (a \div PageSize) + (a % PageSize)
      BY <3>1, Sizes, Split
    <3>3. last \in Nat /\ PageSize * last <= a
      BY <3>1, <3>2, Sizes
    <3> QED BY <3>3 DEF a
  <2> HIDE DEF k, last
  <2>3. PageSize * last < PageSize * (k + 1)
    BY <1>1, <2>1, <2>2, Sizes
  <2>4. last < k + 1
    BY <1>1, <2>2, <2>3, Sizes, MulLess
  <2> QED BY <1>1, <2>2, <2>4
<1>3. \A i \in 0..k : IsPage(flash'[ImagePage + i], i, image)
  BY ProgramWrites
<1>4. FlashTypeOK'
  BY ProgramType
<1> HIDE DEF k, last
<1>5. /\ StoredIn(flash') = [number |-> image.number, length |-> image.length,
                             pages |-> [i \in 1..last |-> flash'[ImagePage + i]]]
  <2>1. IsPage(flash'[ImagePage + 0], 0, image) /\ ImagePage + 0 = ImagePage
    BY <1>1, <1>3, Sizes
  <2>2. /\ flash'[ImagePage].number = image.number /\ flash'[ImagePage].page = 0
        /\ flash'[ImagePage].length = image.length
    BY <2>1 DEF IsPage
  <2>3. flash'[ImagePage] # Erased
    BY <2>2, <1>1 DEF Erased
  <2>4. 1..last \cap 1..(AreaPages - 1) = 1..last
    BY <1>1, <1>2, Sizes
  <2>5. LastPage[flash'[ImagePage].length] = last
    BY <2>2 DEF last
  <2>6. [i \in 1..LastPage[flash'[ImagePage].length] \cap 1..(AreaPages - 1) |-> flash'[ImagePage + i]]
          = [i \in 1..last |-> flash'[ImagePage + i]]
    BY <2>4, <2>5
  <2>7. flash'[ImagePage].number > 0
    BY <2>2, <1>1
  <2> QED BY <2>2, <2>3, <2>6, <2>7 DEF StoredIn
<1>6. ASSUME NEW i \in 1..last
      PROVE  /\ flash'[ImagePage + i].number = image.number
             /\ flash'[ImagePage + i].page = i
             /\ flash'[ImagePage + i].picture \in image.since..picture
  <2>1. i \in 0..k
    BY <1>1, <1>2
  <2>2. IsPage(flash'[ImagePage + i], i, image)
    BY <1>3, <2>1
  <2>3. ImagePage + i \in Pages
    BY <1>1, <2>1, Sizes DEF Pages
  <2>4. flash'[ImagePage + i] \in Content'
    BY <1>4, <2>3 DEF FlashTypeOK, Pages
  <2>5. flash'[ImagePage + i] \notin {Erased, Garbage, Firmware}
    BY <2>2, <1>1 DEF IsPage, Erased, Garbage, Firmware
  <2>6. flash'[ImagePage + i].picture \in 0..picture
    BY <2>4, <2>5, <1>1 DEF Content
  <2>7. image.since \in 0..picture /\ picture \in Nat
    BY <1>1 DEF FlashInv, FlashTypeOK
  <2> QED BY <2>2, <2>6, <2>7 DEF IsPage
<1> QED BY <1>5, <1>6 DEF Store!Saved, last

(* The initial states, and the steps. *)
LEMMA StoreInit == FlashInit => Store!Init
<1> SUFFICES ASSUME FlashInit PROVE Store!Init
  OBVIOUS
<1>1. ImagePage \in Pages /\ ImagePage \in Area
  BY Sizes DEF Pages, Area
<1>2. flash[ImagePage] = Erased
  BY <1>1 DEF FlashInit
<1> QED BY <1>2 DEF FlashInit, Store!Init, Stored, StoredIn

LEMMA StoreStep ==
  ASSUME FlashInv, FlashInv', FlashNext
  PROVE  Store!Next \/ UNCHANGED Store!store_vars
<1>1. ASSUME NEW length \in Lengths, Save(length) PROVE Store!Begin
  BY <1>1 DEF Save, Store!Begin, Stored
<1>2. CASE FillPage
  BY <1>2 DEF FillPage, Store!store_vars, Stored
<1>3. CASE Erase
  <2>1. /\ pc = "erase" /\ pc' = "program" /\ saves' = saves /\ image' = image
        /\ picture' = picture /\ loaded' = loaded /\ finished' = finished
        /\ flash' = [p \in Pages |-> IF p \in EraseSector THEN Erased ELSE flash[p]]
    BY <1>3 DEF Erase, save_vars
  <2>2. image # NoSave
    BY <2>1, SavingType
  <2>3. image.length \in Fitting => Store!Overwritten
    BY <2>1, WhatIsLeft DEF Store!Overwritten, Stored
  <2> QED BY <2>1, <2>2, <2>3 DEF Store!Next, Store!Write
<1>4. CASE ProgramPage
  <2>1. /\ pc = "program" /\ saves' = saves /\ image' = image
        /\ picture' = picture /\ loaded' = loaded
        /\ (done => pc' = "idle" /\ finished' = image.number)
        /\ (~done => pc' = "fill" /\ finished' = finished)
    BY <1>4 DEF ProgramPage, save_vars
  <2>2. image # NoSave /\ image.number \in Nat \ {0}
    BY <2>1, SavingType
  <2>3. CASE done
    BY <2>1, <2>2, <2>3, <1>4, AllIsStored DEF Store!Next, Store!Finish, Stored
  <2>4. CASE ~done
    <3>1. ASSUME image.length \in Fitting PROVE Store!Overwritten
      <4>1. Current \in Nat
        BY <2>1, <3>1, Places
      <4>2. IsPage(flash'[ImagePage + 0], 0, image)
        BY <1>4, <3>1, <4>1, ProgramWrites
      <4> QED BY <2>1, <2>2, <4>2, HeaderIsFound DEF Store!Overwritten, Stored
    <3> QED BY <2>1, <2>2, <2>4, <3>1 DEF Store!Next, Store!Write
  <2> QED BY <2>3, <2>4
<1>5. CASE PowerLoss
  <2> DEFINE struck == CASE pc = "erase" -> EraseSector
                         [] pc = "program" -> {WritePage}
                         [] OTHER -> {}
  <2>1. /\ flash' \in {flash, [p \in Pages |-> IF p \in struck THEN Garbage ELSE flash[p]]}
        /\ pc' = "idle" /\ saves' = saves /\ picture' = picture /\ loaded' = loaded
        /\ image' = image /\ finished' = finished
    BY <1>5 DEF PowerLoss, save_vars
  <2>2. ASSUME pc \notin {"erase", "program"} PROVE flash' = flash
    <3>1. struck = {}
      BY <2>2
    <3> HIDE DEF struck
    <3> QED BY <2>1, <3>1 DEF FlashInv, FlashTypeOK
  <2>3. CASE pc = "idle"
    BY <2>1, <2>2, <2>3 DEF Store!Next, Store!PowerLoss, Stored, NoSave
  <2>4. CASE pc # "idle"
    <3>1. /\ pc = "erase" => struck = EraseSector
          /\ pc = "program" => struck = {WritePage}
      OBVIOUS
    <3> HIDE DEF struck
    <3>2. image # NoSave
      BY <2>4, SavingType
    <3>3. \/ flash' = flash
          \/ pc = "erase" /\ flash' = [p \in Pages |-> IF p \in EraseSector THEN Garbage ELSE flash[p]]
          \/ pc = "program" /\ flash' = [p \in Pages |-> IF p \in {WritePage} THEN Garbage ELSE flash[p]]
      BY <2>1, <2>2, <3>1
    <3>4. image.length \in Fitting => Store!Overwritten
      BY <2>4, <3>3, WhatIsLeft DEF Store!Overwritten, Stored
    <3> QED BY <2>1, <2>4, <3>2, <3>4 DEF Store!Next, Store!PowerLoss
  <2> QED BY <2>3, <2>4
<1>6. CASE Draw
  BY <1>6 DEF Draw, save_vars, Store!Next, Store!Draw, Stored
<1>7. CASE Load
  BY <1>7 DEF Load, save_vars, Store!Next, Store!Load, Stored, NoSave, Unknown, Nothing
<1> QED BY <1>1, <1>2, <1>3, <1>4, <1>5, <1>6, <1>7 DEF FlashNext, Store!Next

(* Saving and loading, byte by byte and page by page, do what ImageStore   *)
(* promises of whole images: what a finished save stored is what is loaded *)
(* and an interrupted one never leaves a header that is not its own.       *)
THEOREM StoreIsImplemented == FlashSpec => ImplementsStore
<1>1. FlashInv /\ FlashInv' /\ [FlashNext]_flash_vars => [Store!Next]_(Store!store_vars)
  <2> SUFFICES ASSUME FlashInv, FlashInv', [FlashNext]_flash_vars
               PROVE  [Store!Next]_(Store!store_vars)
    OBVIOUS
  <2>1. CASE FlashNext
    BY <2>1, StoreStep
  <2>2. CASE UNCHANGED flash_vars
    BY <2>2 DEF flash_vars, save_vars, Store!store_vars, Stored
  <2> QED BY <2>1, <2>2
<1>2. FlashSpec => []FlashInv
  BY FlashInvHolds
<1>3. FlashInit => Store!Init
  BY StoreInit
<1> QED BY <1>1, <1>2, <1>3, PTL DEF FlashSpec, ImplementsStore, Store!Spec
=============================================================================
