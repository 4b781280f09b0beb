SPECIFICATION VrUnitsSpec
CONSTANTS
  ActiveParts = {"pipeline", "caches", "tlb", "scalar", "float", "cp0"}
  VrOpcodes = {"nop", "add", "sw", "lwm", "beql", "spin", "syscall"}
  VrModulus = 2
  FetchFaults = FALSE
  CacheLines = 2
  MemoryLines = 3
  LineWords = 1
  Values = {0, 1}
  CodeLines = {0}
  TlbEntries = 2
  TlbAddresses <- MCAddresses
  TlbStatus <- MCStatus
  LargePages = TRUE
  HandlerMasks = TRUE
  VByteBits = 1
  VLinked = FALSE
  VOperands = {0, 1, 2, 7, 15, 127, 128, 197, 240, 255}
  FWord = 8
  FpuOpcodes <- MCFpuOpcodes
  FpuSteps = 3
  FpuClose = FALSE
  ComiNan = TRUE
  HasRound = {TRUE, FALSE}
  Cp0Written = {201}
  CountWritten = {3}
  Cp0Entries = 4
INVARIANTS
  VrRunsRight
  CachesRight
  AddressesRight
  VrComputesRight
CHECK_DEADLOCK FALSE
