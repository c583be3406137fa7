SPECIFICATION Spec
CONSTANTS
  MaxObjects = 7
  MaxSize = 2
  IntegerLimit = 256
  Rounded <- Unrounded
  Kinds <- MCKinds
INVARIANTS TypeOK NoDangling StacksAligned NothingLeaks CodeStays OpenUpvaluesAreReleased WithinBounds
PROPERTIES CapturedVariablesStay
CHECK_DEADLOCK FALSE
