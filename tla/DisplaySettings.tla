----------------------------- MODULE DisplaySettings -----------------------------
(***************************************************************************)
(* What whoever types commands is promised: settings that are what they    *)
(* were set to, an image that is saved and loaded with its size and its    *)
(* panels, and a restart that shows the saved image.                       *)
(***************************************************************************)
EXTENDS Integers

CONSTANTS
  Outputs, Chain,     (* Numbers of outputs, and of panels at each.        *)
  Rotations,          (* Number of rotations of a panel.                   *)
  Numbers,            (* What fits into a byte.                            *)
  Widths, Lengths,    (* What images are set to.                           *)
  MemoryWords,        (* Pixels there is memory for.                       *)
  PaletteSize,        (* Colours of the palette.                           *)
  UniversePixels,     (* Colours of an Art-Net universe.                   *)
  Colours,            (* Of pixels and of the palette.                     *)
  DefaultImage, DefaultIndexed, (* The images built in: width, pixels and  *)
                                (* of the indexed one the palette.         *)
  NoAnswer, Refusal,  (* Answers to a command: nothing, and that an         *)
                      (* argument is not a number.                         *)
  NoImage, ImageTooLong, NoRotation, PartOfColour (* Why it restarts.       *)

VARIABLES
  up,       (* The firmware runs.                                          *)
  indexed, on, width, length, panels,
  memory, palette,
  saved,    (* The saved image, as the set of it, or of none.              *)
  answer    (* What the last command said.                                 *)

shown == <<indexed, on, width, length, panels>>
settings_vars == <<up, shown, memory, palette, saved, answer>>

Panels == (0..(Outputs - 1)) \X (0..(Chain - 1))
Unset == [x |-> 0, y |-> 0, rot |-> 0]

(* As many pixels as there are or as there is room for. *)
Drawn(pixels, size) ==
  [i \in DOMAIN memory |-> IF i \in DOMAIN pixels /\ i < size THEN pixels[i] ELSE memory[i]]

Init ==
  /\ up = FALSE
  /\ indexed = FALSE /\ on = FALSE /\ width = 0 /\ length = 0
  /\ panels = [p \in Panels |-> Unset]
  /\ memory \in [0..(MemoryWords - 1) -> Colours]
  /\ palette \in [0..(PaletteSize - 1) -> Colours]
  /\ saved = {} /\ answer = NoAnswer

Show(image) ==
  /\ width' = image.width /\ length' = image.length /\ panels' = image.panels
  /\ memory' = Drawn(image.pixels, image.length)
  /\ on' = TRUE

Boot ==
  /\ ~up /\ up' = TRUE
  /\ \/ \E image \in saved : Show(image)
     \/ saved = {} /\ UNCHANGED <<on, width, length, panels, memory>>
  /\ UNCHANGED <<indexed, palette, saved, answer>>

(* Whatever makes it restart: what is saved and in the memories stays.     *)
Restart(reason) ==
  /\ up /\ up' = FALSE
  /\ indexed' = FALSE /\ on' = FALSE /\ width' = 0 /\ length' = 0
  /\ panels' = [p \in Panels |-> Unset]
  /\ answer' = reason
  /\ UNCHANGED <<memory, saved>>

(* The commands that are refused that way.                                 *)
Panic ==
  /\ \/ length > MemoryWords /\ Restart(ImageTooLong)
     \/ saved = {} /\ Restart(NoImage)
     \/ Restart(NoRotation)
  /\ UNCHANGED palette

Default(image) ==
  /\ up
  /\ width' = image.width /\ length' = image.length
  /\ memory' = Drawn(image.pixels, image.length)
  /\ on' = TRUE /\ answer' = NoAnswer
  /\ UNCHANGED <<up, panels, saved>>

DefaultFull == Default(DefaultImage) /\ indexed' = FALSE /\ UNCHANGED palette

DefaultColours ==
  /\ Default(DefaultIndexed) /\ indexed' = TRUE
  /\ palette' = [i \in DOMAIN palette |-> IF i \in DOMAIN DefaultIndexed.palette
                                          THEN DefaultIndexed.palette[i] ELSE palette[i]]

(* The mode is neither saved nor loaded.                                   *)
Save ==
  /\ up /\ length <= MemoryWords
  /\ saved' = {[width |-> width, length |-> length, panels |-> panels,
                pixels |-> [i \in 0..(length - 1) |-> memory[i]]]}
  /\ answer' = NoAnswer
  /\ UNCHANGED <<up, shown, memory, palette>>

Load ==
  /\ up /\ answer' = NoAnswer
  /\ \E image \in saved : Show(image)
  /\ UNCHANGED <<up, indexed, palette, saved>>

Switch(value) ==
  /\ up /\ on' = value /\ answer' = NoAnswer
  /\ UNCHANGED <<up, indexed, width, length, panels, memory, palette, saved>>

SetImage(w, l) ==
  /\ up /\ width' = w /\ length' = l /\ answer' = NoAnswer
  /\ UNCHANGED <<up, indexed, on, panels, memory, palette, saved>>

Byte == 0..(Numbers - 1)
PanelParam == [x : Byte, y : Byte, rot : 0..(Rotations - 1)]

SetPanel(p) ==
  /\ up
  /\ panels'[p] \in PanelParam /\ panels' = [panels EXCEPT ![p] = panels'[p]]
  /\ answer' = NoAnswer
  /\ UNCHANGED <<up, indexed, on, width, length, memory, palette, saved>>

DefaultPanels ==
  /\ up
  /\ panels' = [q \in Panels |-> IF q[1] = 0 /\ q[2] < 4
                                 THEN [x |-> 2 * (q[2] \div 2), y |-> q[2] % 2, rot |-> 0]
                                 ELSE panels[q]]
  /\ answer' = NoAnswer
  /\ UNCHANGED <<up, indexed, on, width, length, memory, palette, saved>>

Ask(reply) ==
  /\ up /\ answer' = reply
  /\ UNCHANGED <<up, shown, memory, palette, saved>>

AskImage == Ask([width |-> width, length |-> length])
AskPanel(p) == Ask(panels[p])
AskNoPanel == Ask([x |-> Numbers - 1, y |-> Numbers - 1, rot |-> Numbers - 1])

(* Colours for the palette: the first universe at its beginning, the       *)
(* second behind those.  A packet may have more than a universe.  What is  *)
(* incomplete at the end makes it restart.                                 *)
Recolour(universe, colours, whole) ==
  [i \in DOMAIN palette |->
     IF i - (universe * UniversePixels) \in 0..(whole - 1) THEN colours ELSE palette[i]]

SetPalette(universe, colours, whole) ==
  /\ up /\ palette' = Recolour(universe, colours, whole)
  /\ UNCHANGED <<up, shown, memory, saved, answer>>

(* The network draws into the memory, whatever the firmware does.          *)
Draw ==
  /\ \E i \in DOMAIN memory, c \in Colours : memory' = [memory EXCEPT ![i] = c]
  /\ UNCHANGED <<up, shown, palette, saved, answer>>

Next ==
  \/ Boot \/ Draw
  \/ Restart(NoAnswer) /\ UNCHANGED palette
  \/ Panic
  \/ DefaultFull \/ DefaultColours \/ Save \/ Load
  \/ \E value \in BOOLEAN : Switch(value)
  \/ \E w \in Widths, l \in Lengths : SetImage(w, l)
  \/ \E p \in Panels : AskPanel(p) \/ SetPanel(p)
  \/ DefaultPanels \/ AskNoPanel \/ AskImage \/ Ask(Refusal) \/ Ask(NoAnswer)
  \/ \E universe \in {0, 1}, colours \in Colours, whole \in 0..PaletteSize :
       \/ SetPalette(universe, colours, whole)
       \/ Restart(PartOfColour) /\ palette' = Recolour(universe, colours, whole)

Spec == Init /\ [][Next]_settings_vars
=============================================================================
