\* The PI with two banks of eight bytes, short and long transfers, aligned or not,
\* and registers that wrap at 32; RESET and CLEAR_INTERRUPT come at any time. The
\* copy from ROM with the real block of 128 bytes, every alignment, lengths on both
\* sides of every boundary, and a ROM that ends inside some transfers. The drive
\* with three data sectors and the real four of C2 data, a track that reads and
\* the one that fails, and a guest that does anything in any order.
SPECIFICATION DeviceSpec
CONSTANTS
  ActiveDeviceParts = {"pi", "rom", "disk"}
  BlockSize = 128
  RomSize = 200
  Areas = {"rom", "sram"}
  Offsets = {6, 8}
  Drams = {6}
  Lengths = {1, 7}
  Overhead = 0
  WordMod = 32
  DramMask = 16
  Banks = 2
  BankSize = 8
  RomDrams = {0, 2, 4, 6, 8}
  Carts = {0, 6, 150}
  RomLengths = {1, 2, 3, 4, 5, 6, 7, 8, 9, 16, 119, 120, 121, 122, 123, 124, 125, 126, 127, 128, 129, 130, 247, 248, 249, 250, 251, 252, 253, 254, 255, 256, 257, 258}
  SectorsPerBlock = 3
  C2Sectors = 4
  Tracks = {0, 6}
  BadTrack = 6
  Retail = TRUE
INVARIANTS
  InterruptTold
  BusyRight
  LongSramInBank
  RomCopyRight
  SectorFresh
  LineExact
PROPERTIES
  BusyEnds
  ReadsInOrder
