SPECIFICATION ConsoleSpec
CONSTANTS
  ActiveConsoleParts = {"map", "flash", "isviewer", "clock", "gb", "pak", "joybus", "video", "interrupts"}
  MapNodes = 19
  MapRanges <- MCMapRanges
  BusMask = 15
  BusMasks = {3, 12, 15}
  BusWords = {5, 10}
  FlashPage = 2
  FlashPages = 2
  FlashBuffers = 2
  FlashBytes = {0, 7}
  FlashReuses = FALSE
  IsWord = 2
  IsWords = 2
  IsChars = {"a", "b", "nl"}
  IsLimit = 7
  RtcYear = 12
  RtcSpan = 14
  RtcStart = 1195
  RtcSettings = {1198, 1201, 1555}
  GbCarts <- MCGbCarts
  PakCarts <- MCPakCarts
  GbData = {0, 1, 2, 3, 10, 17, 33, 95}
  GbBytes = {0, 18}
  GbAnyMode = FALSE
  PakBlocks = {"0000", "7FE0"}
  PakTypes = {"none", "mem", "rumble", "transfer"}
  PakData <- MCPakData
  PakBytes = {0, 1, 8, 10, 17, 18, 33}
  JoyBytes = 36
  JoyPage = 2
  JoyPages = 2
  JoyPrograms <- MCJoyPrograms
  JoyInputs <- MCJoyInputs
  ViStart = 5
  ViHalfLines = 5
  ViBlank = 2
  ViValues <- MCViValues
  ViColours = {0, 1}
  RamBlocks = 2
  ViModes <- MCViModes
  ViMoments = {4}
  FrameBlocks = 1
  PipeTokens = 1
  UserEvents <- MCUserEvents
  Sources = {"SP", "AI"}
  RcpSources = {"SP"}
  MultithreadModes = {TRUE, FALSE}
INVARIANTS
  MapRight
  FlashRight
  IsShown
  RtcExact
  CartsRight
  PacketsRight
  FramesRight
  LinesRight
CHECK_DEADLOCK FALSE
