SPECIFICATION Spec
CONSTANTS
  MaxObjects = 6
  MaxSize = 2
  IntegerLimit = 256
  Rounded <- Unrounded
  Kinds <- FilledKinds
INVARIANT NoDangling
CHECK_DEADLOCK FALSE
