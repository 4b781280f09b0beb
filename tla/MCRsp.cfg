SPECIFICATION UnitsSpec
CONSTANTS
  ActiveUnits = {"pipeline", "threads", "dma", "vector", "divide", "vectormemory", "scalar"}
  ImemWords = 4
  Opcodes = {"nop", "add", "use0", "lw", "sw", "beq", "jal", "j", "break", "halt"}
  StartPcs = {0}
  CpuWrites <- MCCpuWrites
  RspWrites <- MCRspWrites
  SetsPc = TRUE
  BankBytes = 16
  DramBytes = 32
  SpAddresses = {0, 12, 20}
  DramAddresses = {8, 28}
  SpLengths = {0, 10}
  SpSkips = {0, 4}
  SpCounts = {0, 1}
  Stores <- MCStores
  MaxSpSteps = 2
  LaneBits = 3
  DivInputs = {0, 1, 2, 3, 4660, 32767, 32768, 32769, 65535}
  DmemBytes = 128
  VmAddresses = {0, 1, 3, 7, 8, 9, 15, 16, 22, 112, 119, 121, 124, 127}
  RegBits = 8
  ScalarOperands = {0, 1, 2, 3, 7, 8, 15, 17, 113, 127, 128, 129, 165, 240, 252, 254, 255}
  ImemBytes = 32
  ScalarPcs = {0, 12, 24, 28}
INVARIANTS
  RspRunsRight
  SharedRight
  VectorRight
  RspComputesRight
CHECK_DEADLOCK FALSE
