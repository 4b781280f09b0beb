\* With audio output and without: buffers of 0, 2 and 3 samples, so that the order
\* of the buffers and empty ones both matter; every buffer is empty or at least as
\* long as the 2 samples by which an interrupt may be thrown early.
SPECIFICATION FairSpec
CONSTANTS
  low = low
  high = high
  Addresses = {0}
  Lengths = {0, 2, 3}
  Frequencies <- MCFrequencies
  CyclesPerSample <- MCCyclesPerSample
  EarlySamples = 2
  UintMod = 4
  CounterMod = 4
  NoOutputModes = {TRUE, FALSE}
INVARIANTS
  FifoInv
  BufferPool
  OnTime
PROPERTIES
  ImplementsFifo
