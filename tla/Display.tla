---------------------------------- MODULE Display ----------------------------------
(***************************************************************************)
(* The firmware's side of the display: the Hub75 driver (hub75.rs) on its  *)
(* registers (pac.rs), the commands of the menu (menu.rs), the image file  *)
(* in the flash (img.rs), the palette that comes by Art-Net (artnet.rs,    *)
(* main.rs), and what a panic and the start after it do (panic.rs,         *)
(* main.rs).                                                               *)
(*                                                                         *)
(* A command is one action: nothing else runs on the CPU meanwhile.  The   *)
(* flash is read and written as a whole here, ImageFlash has the detail.   *)
(* A word with its uppermost bit set is a negative number.                 *)
(***************************************************************************)
EXTENDS Registers, Sequences

CONSTANTS
  OUTPUTS, CHAIN_LENGTH,
  Bytes,          (* Number of values of a u8: 256.                        *)
  Shorts,         (* Number of values of a u16: 65536.                     *)
  Rotations,      (* Number of values of the field rot: 4.                 *)
  MemoryWords,    (* Pixels of the image memory.                           *)
  HeaderWords,    (* Words of the header of an image file: 64.             *)
  PaletteSize,    (* 256                                                   *)
  UniversePixels, (* 170                                                   *)
  PixelBytes,     (* 3                                                     *)
  Colours,        (* Words of pixels and of the palette.                   *)
  IMG_FILE, IMG_FILE_INDEXED, (* The images built in: width, pixels and of *)
                              (* the indexed one the palette.              *)
  Arguments,      (* Numbers typed as output, place in the chain or        *)
  Turns,          (* position, as rotation,                                *)
  Widths, Lengths,(* and as width and length.                              *)
  Payloads,       (* Lengths of the data of a palette packet.              *)
  Invalid,        (* Whatever is typed that is not a number that fits.     *)
  NoAnswer, Refusal, (* What a command prints: nothing, and "Invalid       *)
                  (* number given".                                        *)
  ImageTooLong, NoImage, NoRotation, PartOfColour, (* What panics are      *)
                  (* about.                                                *)
  MaxCommands     (* Bound for TLC: commands, packets and boots.           *)

Panels == (0..(OUTPUTS - 1)) \X (0..(CHAIN_LENGTH - 1))

ASSUME DisplayAssumption ==
  /\ {OUTPUTS, CHAIN_LENGTH, Shorts, Rotations, PixelBytes} \subseteq Nat \ {0}
  /\ Bytes \in Nat /\ Bytes > 2
  /\ {MemoryWords, HeaderWords, PaletteSize, UniversePixels, MaxCommands} \subseteq Nat
  /\ HeaderWords >= 4 + OUTPUTS * CHAIN_LENGTH /\ UniversePixels < PaletteSize
  /\ Arguments \cup Turns \subseteq 0..(Bytes - 1) /\ Widths \subseteq 0..(Shorts - 1)
  /\ Lengths \cup Payloads \subseteq Nat
  /\ Invalid \notin Arguments \cup Turns \cup Widths \cup Lengths

ASSUME ImagesAssumption ==
  /\ \A file \in {IMG_FILE, IMG_FILE_INDEXED} :
       file.width \in 0..(Shorts - 1) /\ file.pixels \in Seq(Colours)
  /\ IMG_FILE_INDEXED.palette \in Seq(Colours)

(* OutputMode, as the bit that stands for it.                              *)
OutputMode == [FullColor |-> 0, Indexed |-> 1]

(* The fields of the registers, from bit 0 on. *)
Indexed == First(2)
Enabled == After(Indexed, 2)
Width == After(Enabled, Shorts)
X == First(Bytes)
Y == After(X, Bytes)
Rot == After(Y, Rotations)

(* Behind ctrl come the panels, output by output.                          *)
CtrlWord == 0
PanelWord(i) == 1 + i
RegisterWords == 1 + OUTPUTS * CHAIN_LENGTH

(* The chip has storage for the fields only.                               *)
Fields(word) == IF word = CtrlWord THEN Width ELSE Rot
Kept(word, bits) == bits % (Fields(word).unit * Fields(word).values)

(* Words of an image file.                                                 *)
BlankWord == -1
Magic == <<-2, -3>>

VARIABLES
  regs,     (* External: the registers of the gateware, word by word.      *)
  memory,   (* External: the image memory.                                 *)
  palette,  (* External: the palette.                                      *)
  flash,    (* External: words of the image area, as far as they are used. *)
  length,   (* Hub75::length                                               *)
  up,       (* The main loop runs.                                         *)
  answer,   (* What the last command printed, or the panic.                *)
  commands  (* Steps of the firmware so far.                               *)

display_vars == <<regs, memory, palette, flash, length, up, answer, commands>>

(* Register::write and Register::modify *)
Write(word, bits) == regs' = [regs EXCEPT ![word] = Kept(word, bits)]
Ctrl(field, value) == Put(regs[CtrlWord], field, value)

(* Hub75::set_mode and the width of Hub75::set_img_param, on the register. *)
set_mode(bits, mode) == Put(bits, Indexed, mode)
set_width(bits, width) == Put(bits, Width, width)

(* Hub75::write_img_data: as many as there are, as are set and as fit.     *)
ImgData(data, size) ==
  [i \in DOMAIN memory |-> IF i < Len(data) /\ i < size THEN data[i + 1] ELSE memory[i]]

(* Hub75::read_img_data, for a length that fits; get_panel_params.         *)
read_img_data == [i \in 1..length |-> memory[i - 1]]
get_panel_params == [i \in 1..(OUTPUTS * CHAIN_LENGTH) |-> regs[PanelWord(i - 1)]]

(* Hub75::set_panel_params, with a register for each word there is.        *)
PanelParams(params) ==
  [word \in DOMAIN regs |->
     IF word \in 1..Len(params) THEN Kept(word, params[word]) ELSE regs[word]]

(* Hub75::set_palette                                                      *)
Palette(offset, data) ==
  [i \in DOMAIN palette |->
     IF i >= offset /\ i - offset < Len(data) THEN data[i - offset + 1] ELSE palette[i]]

DisplayInit ==
  /\ regs = [word \in 0..(RegisterWords - 1) |-> ResetValue]
  /\ memory \in [0..(MemoryWords - 1) -> Colours]
  /\ palette \in [0..(PaletteSize - 1) -> Colours]
  /\ flash = <<BlankWord>>
  /\ length = 0 /\ up = FALSE /\ answer = NoAnswer /\ commands = 0

Command ==
  /\ up /\ commands < MaxCommands
  /\ commands' = commands + 1

(* The registers are reset, the memories keep what they hold.              *)
Reset(reason) ==
  /\ regs' = [word \in DOMAIN regs |-> ResetValue]
  /\ length' = 0 /\ up' = FALSE /\ answer' = reason
  /\ UNCHANGED <<memory, flash>>

(* img::load_image: an error if the uppermost bit is set.                  *)
ImageValid == flash[1] >= 0
\* Mutant: the magic words are taken for panels.
ImageParamsUnskipped == SubSeq(flash, 3, HeaderWords)

ImageParams == SubSeq(flash, 5, HeaderWords)
ImageData == SubSeq(flash, HeaderWords + 1, HeaderWords + flash[2])

(* set_img_param, set_panel_params, write_img_data, on                     *)
ShowFlash ==
  /\ regs' = [PanelParams(ImageParams) EXCEPT
                ![CtrlWord] = Put(set_width(regs[CtrlWord], flash[1] % Shorts), Enabled, 1)]
  /\ length' = flash[2]
  /\ memory' = ImgData(ImageData, flash[2])

(* main, up to its loop.                                                   *)
Boot ==
  /\ ~up /\ up' = TRUE
  /\ IF ImageValid THEN ShowFlash ELSE UNCHANGED <<regs, length, memory>>
  /\ UNCHANGED <<palette, flash, answer, commands>>

Reboot == Command /\ Reset(NoAnswer) /\ UNCHANGED palette

(* The parts that default_image and default_indexed_image share.           *)
ShowFile(file, mode) ==
  /\ Command
  /\ regs' = [regs EXCEPT ![CtrlWord] = Put(set_mode(set_width(@, file.width), mode), Enabled, 1)]
  /\ length' = Len(file.pixels)
  /\ memory' = ImgData(file.pixels, Len(file.pixels))
  /\ answer' = NoAnswer
  /\ UNCHANGED <<flash, up>>

default_image == ShowFile(IMG_FILE, OutputMode.FullColor) /\ UNCHANGED palette
default_indexed_image ==
  ShowFile(IMG_FILE_INDEXED, OutputMode.Indexed) /\ palette' = Palette(0, IMG_FILE_INDEXED.palette)

load_spi_image ==
  /\ Command
  /\ IF ImageValid
     THEN ShowFlash /\ answer' = NoAnswer /\ UNCHANGED <<flash, up>>
     ELSE Reset(NoImage)
  /\ UNCHANGED palette

(* img::write_image *)
ImageFile ==
  LET header == <<Get(regs[CtrlWord], Width), length>> \o Magic \o get_panel_params
      zeros == [i \in 1..(HeaderWords - Len(header)) |-> 0]
  IN header \o zeros \o read_img_data

(* The slice of the memory is taken before anything is written.            *)
save_spi_image ==
  /\ Command
  /\ IF length <= MemoryWords
     THEN flash' = ImageFile /\ answer' = NoAnswer /\ UNCHANGED <<regs, memory, length, up>>
     ELSE Reset(ImageTooLong)
  /\ UNCHANGED palette

(* What commands do that touch a register, or only say something. *)
Registers(reply) ==
  /\ Command /\ answer' = reply
  /\ UNCHANGED <<memory, palette, flash, up>>

Says(reply) == Registers(reply) /\ UNCHANGED <<regs, length>>

on == Registers(NoAnswer) /\ Write(CtrlWord, Ctrl(Enabled, 1)) /\ UNCHANGED length
off == Registers(NoAnswer) /\ Write(CtrlWord, Ctrl(Enabled, 0)) /\ UNCHANGED length

get_image_param == Says([width |-> Get(regs[CtrlWord], Width), length |-> length])

set_image_param(w, l) ==
  IF Invalid \in {w, l} THEN Says(Refusal)
  ELSE Registers(NoAnswer) /\ Write(CtrlWord, set_width(regs[CtrlWord], w)) /\ length' = l

PanelOffset(output, chain_num) == output * CHAIN_LENGTH + chain_num

NoPanel == [x |-> Bytes - 1, y |-> Bytes - 1, rot |-> Bytes - 1]

PanelParam(bits) == [x |-> Get(bits, X), y |-> Get(bits, Y), rot |-> Get(bits, Rot)]

get_panel_param(output, chain_num) ==
  IF Invalid \in {output, chain_num} THEN Says(Refusal)
  ELSE Says(IF output >= OUTPUTS \/ chain_num >= CHAIN_LENGTH THEN NoPanel
            ELSE PanelParam(regs[PanelWord(PanelOffset(output, chain_num))]))

\* Mutant: the coordinates are swapped.
PanelBitsSwapped(x, y, rot) == Put(Put(Put(ResetValue, X, y), Y, x), Rot, rot)

PanelBits(x, y, rot) == Put(Put(Put(ResetValue, X, x), Y, y), Rot, rot)

(* Hub75::set_panel_param *)
SetPanel(registers, output, chain_num, x, y, rot) ==
  IF output >= OUTPUTS \/ chain_num >= CHAIN_LENGTH THEN registers
  ELSE [registers EXCEPT ![PanelWord(PanelOffset(output, chain_num))] = PanelBits(x, y, rot)]

(* The rotation is not among the arguments that are looked at: unwrap()    *)
(* panics.                                                                 *)
set_panel_param(output, chain_num, x, y, rot) ==
  IF Invalid \in {output, chain_num, x, y} THEN Says(Refusal)
  ELSE IF rot = Invalid
    THEN Command /\ Reset(NoRotation) /\ UNCHANGED palette
    ELSE /\ Registers(NoAnswer)
         /\ regs' = SetPanel(regs, output, chain_num, x, y, rot)
         /\ UNCHANGED length

set_default_panel_params ==
  /\ Registers(NoAnswer)
  /\ regs' = SetPanel(SetPanel(SetPanel(SetPanel(regs,
               0, 0, 0, 0, 0), 0, 1, 0, 1, 0), 0, 2, 2, 0, 0), 0, 3, 2, 1, 0)
  /\ UNCHANGED length

(* take(LENGTH - offset), so that the last ones are not looked at.         *)
Taken(offset, colours) == IF colours > PaletteSize - offset THEN PaletteSize - offset ELSE colours

(* A packet of Art-Net for one of the last two universes.  Bytes that are  *)
(* no whole colour make chunks(3) end with a shorter one, and taking its   *)
(* bytes panics: the colours before it are set.                            *)
ArtnetPalette(universe, bytes, colour) ==
  LET offset == universe * UniversePixels
      whole == bytes \div PixelBytes
      chunks == (bytes + PixelBytes - 1) \div PixelBytes
      set == IF Taken(offset, chunks) < whole THEN Taken(offset, chunks) ELSE whole
  IN /\ Command
     /\ palette' = Palette(offset, [i \in 1..set |-> colour])
     /\ IF Taken(offset, chunks) > whole THEN Reset(PartOfColour)
        ELSE UNCHANGED <<regs, memory, flash, length, up, answer>>

(* One that is too short for its header or for the length in it, or for    *)
(* another universe: those are drawn by the gateware.                      *)
ArtnetIgnored == Command /\ UNCHANGED <<regs, memory, palette, flash, length, up, answer>>

(* External: the gateware draws what comes for the other universes.        *)
Draw ==
  /\ \E i \in DOMAIN memory, c \in Colours : memory' = [memory EXCEPT ![i] = c]
  /\ UNCHANGED <<regs, palette, flash, length, up, answer, commands>>

Typed(numbers) == numbers \cup {Invalid}

DisplayNext ==
  \/ Boot \/ Draw
  \/ Reboot \/ default_image \/ default_indexed_image
  \/ load_spi_image \/ save_spi_image
  \/ on \/ off
  \/ get_image_param
  \/ \E w \in Typed(Widths), l \in Typed(Lengths) : set_image_param(w, l)
  \/ \E o, c \in Typed(Arguments) : get_panel_param(o, c)
  \/ \E o, c, x, y \in Typed(Arguments), rot \in Typed(Turns) : set_panel_param(o, c, x, y, rot)
  \/ set_default_panel_params
  \/ \E universe \in {0, 1}, bytes \in Payloads, colour \in Colours :
       ArtnetPalette(universe, bytes, colour)
  \/ ArtnetIgnored

DisplaySpec == DisplayInit /\ [][DisplayNext]_display_vars

(***************************************************************************)
(* Properties.                                                             *)
(***************************************************************************)

(* The settings are those the commands set, each by its name and none by   *)
(* its bits: no command disturbs the fields of another, saving and loading *)
(* bring back width, length, panels and pixels, and a panic restarts into  *)
(* the saved image at whatever command it comes, with only what is said    *)
(* to panic doing so.                                                      *)
PanelAt(words, p) == PanelParam(words[PanelWord(PanelOffset(p[1], p[2]))])
PanelsOf(words) == [p \in Panels |-> PanelAt(words, p)]
FromZero(s) == [i \in 0..(Len(s) - 1) |-> s[i + 1]]
SavedImage(file) ==
  [width |-> file[1], length |-> file[2],
   panels |-> [p \in Panels |-> PanelParam(file[5 + PanelOffset(p[1], p[2])])],
   pixels |-> [i \in 0..(file[2] - 1) |-> file[HeaderWords + 1 + i]]]

IndexedShown == Get(regs[CtrlWord], Indexed) = 1
OnShown == Get(regs[CtrlWord], Enabled) = 1
WidthShown == Get(regs[CtrlWord], Width)
PanelsShown == PanelsOf(regs)
SavedShown == IF flash = <<BlankWord>> THEN {} ELSE {SavedImage(flash)}

Settings == INSTANCE DisplaySettings WITH
  Outputs <- OUTPUTS, Chain <- CHAIN_LENGTH, Numbers <- Bytes,
  DefaultImage <- [width |-> IMG_FILE.width, length |-> Len(IMG_FILE.pixels),
                   pixels |-> FromZero(IMG_FILE.pixels)],
  DefaultIndexed <- [width |-> IMG_FILE_INDEXED.width, length |-> Len(IMG_FILE_INDEXED.pixels),
                     pixels |-> FromZero(IMG_FILE_INDEXED.pixels),
                     palette |-> FromZero(IMG_FILE_INDEXED.palette)],
  indexed <- IndexedShown, on <- OnShown, width <- WidthShown, panels <- PanelsShown,
  saved <- SavedShown
ImplementsSettings == Settings!Spec

(* Of whole colours, as far as there is a palette for them.                *)
WholeColours(universe, bytes) ==
  \/ bytes % PixelBytes = 0
  \/ universe * UniversePixels + bytes \div PixelBytes >= PaletteSize

(* Each command does what its name says, whatever it is typed after: the   *)
(* panel of that output and place in the chain gets that position and      *)
(* rotation, and so on.  Saving, loading and the palette that comes by     *)
(* Art-Net panic only where they must.                                     *)
CommandDone ==
  /\ on => Settings!Switch(TRUE)
  /\ off => Settings!Switch(FALSE)
  /\ default_image => Settings!DefaultFull
  /\ default_indexed_image => Settings!DefaultColours
  /\ load_spi_image /\ flash # <<BlankWord>> => Settings!Load
  /\ save_spi_image /\ length <= MemoryWords => Settings!Save
  /\ get_image_param => Settings!AskImage
  /\ \A w \in Widths, l \in Lengths : set_image_param(w, l) => Settings!SetImage(w, l)
  /\ set_default_panel_params => Settings!DefaultPanels
  /\ \A p \in Panels \cap (Arguments \X Arguments) :
       /\ get_panel_param(p[1], p[2]) => Settings!AskPanel(p)
       /\ \A x, y \in Arguments, rot \in Turns :
            set_panel_param(p[1], p[2], x, y, rot) =>
              Settings!SetPanel(p) /\ PanelAt(regs, p)' = [x |-> x, y |-> y, rot |-> rot % Rotations]
  /\ \A universe \in {0, 1}, bytes \in Payloads, colour \in Colours :
       WholeColours(universe, bytes) /\ ArtnetPalette(universe, bytes, colour) =>
         Settings!SetPalette(universe, colour, bytes \div PixelBytes)
CommandsDone == [][CommandDone]_display_vars

(* "Invalid number given" is what a command answers to an argument that is *)
(* no number (menu.rs): no such argument makes the firmware panic.         *)
InvalidNumberRefused == [][answer' # NoRotation]_display_vars

(***************************************************************************)
(* The invariant they follow from: every register and every word of the    *)
(* file has the bits its fields have, and the file is one that was saved.  *)
(***************************************************************************)
Bits(word) == 0..(Fields(word).unit * Fields(word).values - 1)

RegistersOK(words) ==
  /\ words \in [0..(RegisterWords - 1) -> Nat]
  /\ \A word \in DOMAIN words : words[word] \in Bits(word)

FileOK ==
  \/ flash = <<BlankWord>>
  \/ /\ flash \in Seq(Int \cup Colours)
     /\ flash[1] \in 0..(Shorts - 1) /\ flash[2] \in 0..MemoryWords
     /\ Len(flash) = HeaderWords + flash[2]
     /\ \A i \in 1..(OUTPUTS * CHAIN_LENGTH) : flash[4 + i] \in Bits(i)
     /\ \A i \in 1..flash[2] : flash[HeaderWords + i] \in Colours

DisplayInv ==
  /\ RegistersOK(regs)
  /\ memory \in [0..(MemoryWords - 1) -> Colours]
  /\ palette \in [0..(PaletteSize - 1) -> Colours]
  /\ length \in Nat /\ up \in BOOLEAN
  /\ FileOK
=============================================================================
