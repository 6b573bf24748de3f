------------------------------- MODULE ImageFlash -------------------------------
(***************************************************************************)
(* Saving the image to the flash and loading it (Flash::write_image and    *)
(* read_image of img_flash.rs, write_image and load_image of img.rs).      *)
(*                                                                         *)
(* A save takes the bytes of the header and the pixels from an iterator,   *)
(* 256 at a time, erases a sector where a page begins one, and programs    *)
(* the page.  The iterator reads the memory as it is asked to, so what     *)
(* the Art-Net hardware draws during a save gets into it.  Power may be    *)
(* lost in any step.                                                       *)
(*                                                                         *)
(* A page of bytes is a tag: the save it is from, its number in the image  *)
(* and the picture that was in the memory; it stands for each of its       *)
(* pixels.  The chip is external: it ignores the upper bits of an address, *)
(* erases to ones and can only clear bits.                                 *)
(***************************************************************************)
EXTENDS Integers

CONSTANTS
  PageSize,    (* 256 bytes.                                               *)
  SectorPages, (* SECTOR_SIZE / 256.                                       *)
  FlashPages,  (* FLASH_SIZE / 256.                                        *)
  WordBytes,   (* Bytes of a pixel: 4.                                     *)
  Lengths,     (* Lengths of images, in pixels.                            *)
  MaxSaves,    (* Bounds for TLC: saves, and pictures drawn by the         *)
  MaxPictures  (* network.                                                 *)

ImagePage == (FlashPages \div 4) * 3
AreaPages == FlashPages - ImagePage

ASSUME FlashAssumption ==
  /\ {PageSize, SectorPages, FlashPages, WordBytes} \subseteq Nat \ {0}
  /\ ImagePage % SectorPages = 0 /\ AreaPages % SectorPages = 0
  /\ Lengths \subseteq Nat
  /\ MaxSaves \in Nat /\ MaxPictures \in Nat

(* Contents of a page that no save has written.                            *)
Erased == [number |-> 0]
Garbage == [number |-> -1]
Firmware == [number |-> -2]
NoSave == [number |-> 0]

(* What a load gives besides an image: no header, or one that cannot be    *)
(* told.                                                                   *)
Nothing == [number |-> 0]
Unknown == [number |-> -1]

VARIABLES
  flash,   (* External: contents of the pages of the chip.                 *)
  picture, (* What is in the image memory: changes when the network draws. *)
  saves,   (* Saves so far.                                                *)
  image,   (* The image being saved: number, length, first picture.        *)
  pc,      (* Where write_image is: idle, fill, erase, program.            *)
  taken,   (* Bytes taken from the iterator.                               *)
  count,   (* Index of the last byte of the page.                          *)
  done,    (* The iterator is at its end.                                  *)
  data,    (* The page that is written next.                               *)
  loaded,  (* What the last load gave.                                     *)
  finished (* History: the last save that ran to its end.                  *)

save_vars == <<saves, image, taken, count, done, data>>
flash_vars == <<flash, picture, pc, save_vars, loaded, finished>>

Pages == 0..(FlashPages - 1)
Area == ImagePage..(FlashPages - 1)

(* A header of 64 words, then the pixels. *)
Bytes(length) == PageSize + WordBytes * length
LastPage == [length \in Lengths |-> (Bytes(length) - 1) \div PageSize]

(* Images that leave room for the zeros behind the last pixel: a page of   *)
(* them if the last page is full.                                          *)
Fitting == {length \in Lengths : Bytes(length) < AreaPages * PageSize}

\* Mutant: rounded to a sector, not to a page.
OffsetSector == count - (count % (PageSize * SectorPages))

(* count & !0xFF                                                           *)
Offset == count - (count % PageSize)

PageAt(address) == (address \div PageSize) % FlashPages
SectorOf(p) == {q \in Pages : q \div SectorPages = p \div SectorPages}

WritePage == PageAt(ImagePage * PageSize + Offset)
EraseSector == SectorOf(PageAt(ImagePage * PageSize + count))

(* What a load would give if these were the contents of the chip. *)
StoredIn(pages) ==
  LET header == pages[ImagePage] IN
  IF header = Erased THEN Nothing
  ELSE IF header.number > 0 /\ header.page = 0
    THEN [number |-> header.number, length |-> header.length,
          pages |-> [i \in 1..LastPage[header.length] \cap 1..(AreaPages - 1) |-> pages[ImagePage + i]]]
    ELSE Unknown

Stored == StoredIn(flash)

FlashInit ==
  /\ flash = [p \in Pages |-> IF p \in Area THEN Erased ELSE Firmware]
  /\ picture = 0
  /\ saves = 0 /\ image = NoSave /\ pc = "idle"
  /\ taken = 0 /\ count = 0 /\ done = FALSE /\ data = Erased
  /\ loaded = Nothing /\ finished = 0

(* The header is made of copies of width and length.                       *)
Save(length) ==
  /\ pc = "idle" /\ saves < MaxSaves
  /\ saves' = saves + 1
  /\ image' = [number |-> saves', length |-> length, since |-> picture]
  /\ pc' = "fill" /\ taken' = 0 /\ count' = 0 /\ done' = FALSE
  /\ UNCHANGED <<flash, picture, data, loaded, finished>>

\* Mutant: the byte behind the last one is counted as well.
CountTooFar(rest) == IF rest >= PageSize THEN taken + PageSize - 1
                     ELSE (IF rest > 0 THEN taken + rest ELSE count) + (PageSize - rest)

(* The index of the last byte taken, and one more for every byte that      *)
(* fills the page up.                                                      *)
CountAfter(rest) == IF rest >= PageSize THEN taken + PageSize - 1
                    ELSE (IF rest > 0 THEN taken + rest - 1 ELSE count) + (PageSize - rest)

\* Mutant: the header and no other page is preceded by an erase.
SectorBeginsOnce == Offset' = 0

SectorBegins == Offset' % (SectorPages * PageSize) = 0

FillPage ==
  /\ pc = "fill"
  /\ LET rest == Bytes(image.length) - taken IN
     /\ taken' = taken + (IF rest >= PageSize THEN PageSize ELSE rest)
     /\ count' = CountAfter(rest)
     /\ done' = ~(rest >= PageSize)
  /\ data' = [number |-> image.number, length |-> image.length,
              page |-> taken \div PageSize, picture |-> picture]
  /\ pc' = IF SectorBegins THEN "erase" ELSE "program"
  /\ UNCHANGED <<flash, picture, saves, image, loaded, finished>>

Erase ==
  /\ pc = "erase"
  /\ flash' = [p \in Pages |-> IF p \in EraseSector THEN Erased ELSE flash[p]]
  /\ pc' = "program"
  /\ UNCHANGED <<picture, save_vars, loaded, finished>>

Programmed(old, new) == IF old = Erased THEN new ELSE Garbage

ProgramPage ==
  /\ pc = "program"
  /\ flash' = [flash EXCEPT ![WritePage] = Programmed(@, data)]
  /\ pc' = IF done THEN "idle" ELSE "fill"
  /\ finished' = IF done THEN image.number ELSE finished
  /\ UNCHANGED <<picture, save_vars, loaded>>

(* What is being erased or programmed may hold anything then.              *)
PowerLoss ==
  /\ LET struck == CASE pc = "erase" -> EraseSector
                     [] pc = "program" -> {WritePage}
                     [] OTHER -> {}
     IN flash' \in {flash, [p \in Pages |-> IF p \in struck THEN Garbage ELSE flash[p]]}
  /\ pc' = "idle"
  /\ UNCHANGED <<picture, save_vars, loaded, finished>>

(* The Art-Net hardware writes to the image memory whenever it likes.      *)
Draw ==
  /\ picture < MaxPictures
  /\ picture' = picture + 1
  /\ UNCHANGED <<flash, pc, save_vars, loaded, finished>>

(* At boot and by the command load_spi_image.                              *)
Load ==
  /\ pc = "idle"
  /\ loaded' \in IF Stored = Unknown THEN {Nothing, Unknown} ELSE {Stored}
  /\ UNCHANGED <<flash, picture, pc, save_vars, finished>>

FlashNext ==
  \/ \E length \in Lengths : Save(length)
  \/ FillPage \/ Erase \/ ProgramPage
  \/ PowerLoss \/ Draw \/ Load

FlashSpec == FlashInit /\ [][FlashNext]_flash_vars

(***************************************************************************)
(* Properties.                                                             *)
(***************************************************************************)

(* What is loaded is what was saved: write_image with all its arithmetic   *)
(* of bytes, pages and sectors does what ImageStore promises, also if it   *)
(* is interrupted.                                                         *)
Store == INSTANCE ImageStore WITH
  saving <- IF pc = "idle" THEN NoSave ELSE image,
  stored <- Stored
ImplementsStore == Store!Spec

(* Bitstream and firmware are in the same chip.  The only save that        *)
(* reaches them is one whose last pixel leaves no byte of the area free:   *)
(* the page of zeros that ends it is written behind the end of the chip,   *)
(* and that is its beginning.                                              *)
OnlyLargeLeavesArea ==
  [][\A p \in Pages \ Area : flash'[p] # flash[p] => image.length \notin Fitting]_flash_vars

(***************************************************************************)
(* The invariant they follow from.                                         *)
(***************************************************************************)

Content ==
  {Erased, Garbage, Firmware}
  \cup [number : 1..saves, length : Lengths, page : Nat, picture : 0..picture]

FlashTypeOK ==
  /\ flash \in [Pages -> Content]
  /\ picture \in Nat /\ saves \in Nat
  /\ pc \in {"idle", "fill", "erase", "program"}
  /\ pc # "idle" => /\ saves > 0
                    /\ image \in [number : {saves}, length : Lengths, since : 0..picture]
  /\ pc \in {"erase", "program"} =>
       data \in [number : {saves}, length : {image.length}, page : Nat, picture : image.since..picture]
  /\ taken \in Nat /\ count \in Nat /\ done \in BOOLEAN

(* The page write_image is at.                                             *)
Current == IF pc = "fill" THEN taken \div PageSize ELSE count \div PageSize

(* A page of the image that is being saved, in its place.                  *)
IsPage(page, i, save) ==
  /\ page.number = save.number
  /\ page.length = save.length
  /\ page.page = i
  /\ page.picture >= save.since

(* count is the last byte of the page, and only the last page has zeros.   *)
CountInv ==
  /\ pc = "fill" => /\ taken = PageSize * Current
                    /\ ~done
                    /\ taken <= Bytes(image.length)
                    /\ Current > 0 => count = taken - 1
  /\ pc \in {"erase", "program"} =>
       /\ count = PageSize * Current + PageSize - 1
       /\ done <=> Bytes(image.length) < PageSize * (Current + 1)
       /\ PageSize * Current <= Bytes(image.length)
       /\ ~done => taken = PageSize * (Current + 1)
       /\ data.page = Current
  /\ pc = "erase" => Current % SectorPages = 0

(* The pages before it are written, and those behind it in its sector are  *)
(* erased.                                                                 *)
PagesInv ==
  pc # "idle" /\ image.length \in Fitting =>
    /\ Current < AreaPages
    /\ \A i \in 0..(Current - 1) : IsPage(flash[ImagePage + i], i, image)
    /\ pc = "program" \/ (pc = "fill" /\ Current % SectorPages # 0) =>
         \A p \in SectorOf(ImagePage + Current) : p >= ImagePage + Current => flash[p] = Erased

FlashInv == FlashTypeOK /\ CountInv /\ PagesInv
=============================================================================
