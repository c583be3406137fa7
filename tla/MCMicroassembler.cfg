SPECIFICATION Spec
CONSTANTS
  Sources <- MCSources
  Numerals <- MCNumerals
  Barred <- MCBarred
INVARIANT TypeOK LinesAreCode ImagesMeanSource ImagesArrive MicrocodeArrives
PROPERTY Assembles
CHECK_DEADLOCK FALSE
