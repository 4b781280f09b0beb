\* The real size of a block; one block or two, from either of the track.
SPECIFICATION Spec
CONSTANTS
  SectorsPerBlock = 85
  C2Sectors = 4
  Tracks = {0, 7}
  BadTrack = 6
  Retail = TRUE
  BlockSize = 16
  RomSize = 64
  Areas = {"rom", "ds", "c2"}
  Offsets = {0}
  Drams = {0}
  Lengths = {3}
  Overhead = 1
  WordMod = 64
  DramMask = 32
  Banks = 1
  BankSize = 8
  Track = 7
  SectorBytes = 3
  Jobs = {{}, {"two"}, {"second"}, {"two", "second"}}
PROPERTIES
  ImplementsBlocks
  TransferEnds
