SPECIFICATION RdpUnitsSpec
CONSTANTS
  ActiveRdpParts = {"commands", "tile", "texture", "spans"}
  RdpRdram <- MCRdpRdram
  RdpDmem <- MCRdpDmem
  RdpChunk = 44
  RdpBuffer = 90
  RdpEnds = {36, 200, 304}
  RdpBadWords <- MCRdpBad
  RectCoordinates = {0, 1023, 4000}
  RectTextures <- MCTextures
  RectSlopes <- MCSlopes
  TileSettings <- MCTileSettings
  TileSizes <- MCTileSizes
  TileCoordinates <- MCTileCoordinates
  TexJobs <- MCTexJobs
  TexPalettes <- MCTexPalettes
  Scissors <- MCScissors
  SpanTriples <- MCSpanTriples
INVARIANTS
  CommandsRight
  TexelsRight
  SpansRight
CHECK_DEADLOCK FALSE
