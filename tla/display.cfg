SPECIFICATION DisplaySpec
CONSTANTS
  OUTPUTS = 2
  CHAIN_LENGTH = 2
  Bytes = 4
  Shorts = 4
  Rotations = 2
  MemoryWords = 2
  HeaderWords = 9
  PaletteSize = 3
  UniversePixels = 2
  PixelBytes = 3
  ColourA = ColourA
  ColourB = ColourB
  Colours = {ColourA, ColourB}
  IMG_FILE <- MCImage
  IMG_FILE_INDEXED <- MCIndexed
  Arguments = {1, 3}
  Turns = {3}
  Widths = {3}
  Lengths = {1, 3}
  Payloads = {3, 4, 7, 9, 10}
  Invalid = Invalid
  NoAnswer = NoAnswer
  Refusal = Refusal
  ImageTooLong = ImageTooLong
  NoImage = NoImage
  NoRotation = NoRotation
  PartOfColour = PartOfColour
  MaxCommands = 3
PROPERTIES ImplementsSettings CommandsDone
