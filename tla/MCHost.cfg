\* The device's threads in both modes, with and without video, and up to two
\* condition waits that return without a signal; the device may stop for good.
\* A debugger's client that waits for the CPU to wait, and a boot that is slower
\* than the start of a thread: one breakpoint, one condition wait that returns by
\* itself. A table with a smallest size of four, which grows to eight and sixteen,
\* and six keys, some with the same first slot.
SPECIFICATION HostSpec
CONSTANTS
  ActiveHostParts = {"threads", "session", "table"}
  MultithreadModes = {TRUE, FALSE}
  NoVideoModes = {TRUE, FALSE}
  MaxSpurious = 2
  Addresses = {1}
  InitialPc = 1
  LateBoot = TRUE
  PatientClient = TRUE
  SeparateReads = TRUE
  GdbMaxSpurious = 1
  Keys = {0, 1, 2, 4, 8, 16}
  Prime = 1048583
  MinTable = 4
  None = None
INVARIANTS
  BarrierInv
  SkewBound
  SessionSafe
  AllReachable
PROPERTIES
  DeviceLive
  SessionLive
  ImplementsSet
CHECK_DEADLOCK FALSE
