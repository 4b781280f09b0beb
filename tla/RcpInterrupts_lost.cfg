\* Two threads: can an interrupt of the RCP be lost?
SPECIFICATION Spec
CONSTANTS
  Sources = {"SP", "AI", "VI"}
  RcpSources = {"SP", "VI"}
  MultithreadModes = {TRUE}
INVARIANTS
  NoLostInterrupt
