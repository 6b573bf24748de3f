SPECIFICATION FlashSpec
CONSTANTS
  PageSize = 8
  SectorPages = 2
  FlashPages = 16
  WordBytes = 4
  Lengths <- MCLengths
  MaxSaves = 2
  MaxPictures = 1
INVARIANTS FlashInv
PROPERTIES ImplementsStore OnlyLargeLeavesArea
