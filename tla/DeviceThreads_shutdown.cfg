\* The threaded mode with a window: does closing it end the process?
SPECIFICATION FairSpec
CONSTANTS
  MultithreadModes = {TRUE}
  NoVideoModes = {FALSE}
  MaxSpurious = 0
PROPERTIES
  Shutdown
CHECK_DEADLOCK FALSE
