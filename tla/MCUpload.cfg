SPECIFICATION Spec
CONSTANTS
  End <- MCEnd
  Programs <- MCPrograms
  Litter <- MCLitter
  BufferSize = 3
  FifoSize = 2
  MaxFaults = 1
  Ahead = 2
CHECK_DEADLOCK FALSE
INVARIANT TypeOK
PROPERTY ImplementsContract UploadsRun
