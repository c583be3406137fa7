SPECIFICATION Spec
CONSTANTS
  MaxObjects = 6
  MaxSize = 2
  IntegerLimit = 256
  Rounded <- Unrounded
  Kinds <- ForeignKinds
INVARIANT CodeStays
CHECK_DEADLOCK FALSE
